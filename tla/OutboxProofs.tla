---------------------------- MODULE OutboxProofs ----------------------------
(***************************************************************************)
(* Proofs about Outbox, for any finite set of events, any batch size and   *)
(* any number of faults: the publisher loses no event, invents none,       *)
(* repeats none without a fault, delivers them in the order in which they  *)
(* were written unless a fault intervened, and takes only steps that the   *)
(* abstract outbox allows.                                                 *)
(***************************************************************************)
EXTENDS Outbox, SequenceTheorems, FiniteSetTheorems, WellFoundedInduction, TLAPS

\* An event is in one of the stages unwritten, open, stored; a row is fetched
\* only once it is stored, and delivered before it is marked.
Staged ==
    /\ Elements(stored) \cap open = {}
    /\ \A e \in Event : created[e] = 0 => e \notin Elements(stored) /\ e \notin open
    /\ Elements(batch) \subseteq Elements(stored)
    /\ Elements(out) \subseteq Elements(stored)
    /\ marked \subseteq Elements(out)
    /\ pc = "mark" => Head(batch) \in Elements(out)

\* The inductive invariant of the outbox.
IInv == TypeOK /\ Staged

-----------------------------------------------------------------------------
\* What Append, Head and Tail do to the set of a sequence's elements.

\* Appending adds one element.
LEMMA AppendElements ==
  ASSUME NEW S, NEW s \in Seq(S), NEW e
  PROVE  Elements(Append(s, e)) = Elements(s) \cup {e}
<1> USE DEF Elements
<1>1. ASSUME NEW x \in Elements(Append(s, e)) PROVE x \in Elements(s) \cup {e}
  <2>1. PICK i \in 1 .. Len(s) + 1 : x = Append(s, e)[i]
    OBVIOUS
  <2>2. CASE i = Len(s) + 1
    BY <2>1, <2>2
  <2>3. CASE i \in 1 .. Len(s)
    BY <2>1, <2>3
  <2> QED
    BY <2>2, <2>3
<1>2. ASSUME NEW x \in Elements(s) PROVE x \in Elements(Append(s, e))
  <2>1. PICK i \in 1 .. Len(s) : x = s[i]
    OBVIOUS
  <2>2. i \in DOMAIN Append(s, e) /\ Append(s, e)[i] = x
    BY <2>1
  <2> QED
    BY <2>2
<1>3. e \in Elements(Append(s, e))
  <2>1. Len(s) + 1 \in DOMAIN Append(s, e) /\ Append(s, e)[Len(s) + 1] = e
    OBVIOUS
  <2> QED
    BY <2>1
<1> QED
  BY <1>1, <1>2, <1>3

\* The head is an element, and the tail has no others.
LEMMA HeadTailElements ==
  ASSUME NEW S, NEW s \in Seq(S), s # <<>>
  PROVE  /\ Head(s) \in S /\ Tail(s) \in Seq(S)
         /\ Head(s) \in Elements(s)
         /\ Elements(Tail(s)) \subseteq Elements(s)
<1>1. Len(s) >= 1 /\ DOMAIN s = 1 .. Len(s) /\ Head(s) = s[1] /\ Head(s) \in S
  OBVIOUS
<1>2. Head(s) \in Elements(s)
  BY <1>1 DEF Elements
<1>3. Tail(s) \in Seq(S) /\ Len(Tail(s)) = Len(s) - 1
      /\ \A i \in 1 .. Len(s) - 1 : Tail(s)[i] = s[i + 1]
  BY <1>1
<1>4. ASSUME NEW x \in Elements(Tail(s)) PROVE x \in Elements(s)
  <2>1. PICK i \in 1 .. Len(s) - 1 : x = Tail(s)[i]
    BY <1>3, <1>4 DEF Elements
  <2>2. i + 1 \in DOMAIN s /\ x = s[i + 1]
    BY <1>1, <1>3, <2>1
  <2> QED
    BY <2>2 DEF Elements
<1> QED
  BY <1>1, <1>2, <1>3, <1>4

\* The elements of a sequence are in the set it is a sequence of.
LEMMA ElementsType ==
  ASSUME NEW S, NEW s \in Seq(S)
  PROVE  Elements(s) \subseteq S
BY DEF Elements

\* A sequence with more than one element has a tail that is not empty.
LEMMA TailEmpty ==
  ASSUME NEW S, NEW s \in Seq(S), s # <<>>
  PROVE  Tail(s) # <<>> <=> Len(s) > 1
<1> DEFINE n == Len(s)
           m == Len(Tail(s))
<1>1. m = n - 1 /\ Tail(s) \in Seq(S) /\ n \in Nat
  OBVIOUS
<1>2. Tail(s) = <<>> <=> m = 0
  BY <1>1, EmptySeq
<1>3. n # 0
  BY EmptySeq
<1>4. m = 0 <=> ~(n > 1)
  <2> HIDE DEF n, m
  <2> QED
    BY <1>1, <1>3
<1> QED
  BY <1>2, <1>4

\* A poll returns pending rows only.
LEMMA BatchesArePending ==
  ASSUME TypeOK, NEW b \in Batches
  PROVE  b \in Seq(Event) /\ Elements(b) \subseteq Pending
<1>1. PICK n \in 0 .. BatchSize : b \in [1 .. n -> Pending]
  BY DEF Batches
<1>2. Pending \subseteq Event
  BY ElementsType DEF TypeOK, Pending
<1>3. n \in Nat
  BY <1>1, BatchSizeAssumption
<1>4. b \in [1 .. n -> Event]
  BY <1>1, <1>2
<1>5. b \in Seq(Event)
  BY <1>3, <1>4
<1>6. Elements(b) \subseteq Pending
  BY <1>1 DEF Elements
<1> QED
  BY <1>5, <1>6

-----------------------------------------------------------------------------
\* The inductive invariant holds at the start.
LEMMA InitInvariant == Init => IInv
<1> SUFFICES ASSUME Init PROVE IInv
  OBVIOUS
<1>1. Elements(<<>>) = {}
  BY DEF Elements
<1> QED
  BY <1>1, MaxFaultsAssumption DEF Init, IInv, TypeOK, Staged

\* What a step of the loop makes of the batch.
LEMMA ProceedKeeps ==
  ASSUME TypeOK, Elements(batch) \subseteq Elements(stored), pc = "mark", Proceed
  PROVE  /\ batch' \in Seq(Event)
         /\ pc' \in {"deliver", "clean_keys"}
         /\ pc' = "deliver" <=> batch' # <<>>
         /\ Elements(batch') \subseteq Elements(stored)
<1>1. batch \in Seq(Event) /\ batch # <<>>
  BY DEF TypeOK
<1>2. Tail(batch) \in Seq(Event) /\ Elements(Tail(batch)) \subseteq Elements(batch)
  BY <1>1, HeadTailElements
<1>3. Tail(batch) # <<>> <=> Len(batch) > 1
  BY <1>1, TailEmpty
<1> QED
  BY <1>2, <1>3 DEF Proceed

\* Every step preserves the invariant, one case per action.
LEMMA StepInvariant == IInv /\ [Next]_vars => IInv'
<1> SUFFICES ASSUME IInv, [Next]_vars PROVE IInv'
  OBVIOUS
<1> USE DEF IInv
<1>1. CASE UNCHANGED vars
  <2>1. UNCHANGED <<clock, created, open, stored, marked, pc, batch, out, stale, faults>>
    BY <1>1 DEF vars
  <2>2. Elements(stored') = Elements(stored) /\ Elements(out') = Elements(out)
        /\ Elements(batch') = Elements(batch)
    BY <2>1
  <2> QED
    BY <2>1, <2>2 DEF TypeOK, Staged
<1>2. ASSUME NEW e \in Event, LogEvent(e) PROVE IInv'
  <2>1. clock' \in Nat \ {0}
    BY <1>2 DEF LogEvent, TypeOK
  <2>2. UNCHANGED <<stored, marked, pc, batch, out, stale, faults>>
    BY <1>2 DEF LogEvent, publisher
  <2>3. TypeOK'
    BY <1>2, <2>1, <2>2 DEF LogEvent, TypeOK
  <2>4. Elements(stored') = Elements(stored) /\ Elements(out') = Elements(out)
        /\ Elements(batch') = Elements(batch)
    BY <2>2
  <2>5. /\ created[e] = 0 /\ open' = open \cup {e}
        /\ \A f \in Event : created'[f] = 0 => created[f] = 0 /\ f # e
    BY <1>2, <2>1 DEF LogEvent, TypeOK
  <2>6. Staged'
    BY <2>2, <2>4, <2>5 DEF Staged
  <2> QED
    BY <2>3, <2>6
<1>3. ASSUME NEW e \in Event, Commit(e) PROVE IInv'
  <2>1. /\ open' = open \ {e} /\ e \in open
        /\ stored' = Append(stored, e)
        /\ UNCHANGED <<clock, created, marked, pc, batch, out, stale, faults>>
    BY <1>3 DEF Commit, publisher
  <2>2. stored \in Seq(Event)
    BY DEF TypeOK
  <2>3. Elements(stored') = Elements(stored) \cup {e}
    BY <2>1, <2>2, AppendElements
  <2>4. TypeOK'
    BY <2>1, <2>2 DEF TypeOK
  <2>5. Elements(batch') = Elements(batch) /\ Elements(out') = Elements(out)
    BY <2>1
  <2>6. Staged'
    BY <2>1, <2>3, <2>5 DEF Staged
  <2> QED
    BY <2>4, <2>6
<1>4. ASSUME NEW e \in Event, Rollback(e) PROVE IInv'
  <2>1. /\ open' = open \ {e}
        /\ UNCHANGED <<clock, created, stored, marked, pc, batch, out, stale, faults>>
    BY <1>4 DEF Rollback, publisher
  <2>2. Elements(stored') = Elements(stored) /\ Elements(out') = Elements(out)
        /\ Elements(batch') = Elements(batch)
    BY <2>1
  <2> QED
    BY <2>1, <2>2 DEF TypeOK, Staged
<1>5. CASE Fetch
  <2>1. PICK b \in Batches : b # <<>> /\ batch' = b
    BY <1>5 DEF Fetch
  <2>2. pc' = "deliver" /\ UNCHANGED <<clock, created, open, stored, marked, out, stale, faults>>
    BY <1>5 DEF Fetch, writers
  <2>3. b \in Seq(Event) /\ Elements(b) \subseteq Elements(stored)
    BY <2>1, BatchesArePending DEF Pending
  <2>4. TypeOK'
    BY <2>1, <2>2, <2>3 DEF TypeOK
  <2>5. Elements(stored') = Elements(stored) /\ Elements(out') = Elements(out)
        /\ Elements(batch') = Elements(b)
    BY <2>1, <2>2
  <2>6. Staged'
    BY <2>2, <2>3, <2>5 DEF Staged
  <2> QED
    BY <2>4, <2>6
<1>6. CASE Deliver
  <2>1. /\ pc = "deliver" /\ pc' = "mark" /\ out' = Append(out, Head(batch))
        /\ UNCHANGED <<clock, created, open, stored, marked, batch, stale, faults>>
    BY <1>6 DEF Deliver, writers
  <2>2. batch \in Seq(Event) /\ batch # <<>> /\ out \in Seq(Event)
    BY <2>1 DEF TypeOK
  <2>3. Head(batch) \in Event /\ Head(batch) \in Elements(batch)
    BY <2>2, HeadTailElements
  <2>4. Elements(out') = Elements(out) \cup {Head(batch)}
    BY <2>1, <2>2, AppendElements
  <2>5. TypeOK'
    BY <2>1, <2>2, <2>3 DEF TypeOK
  <2>6. Elements(stored') = Elements(stored) /\ Elements(batch') = Elements(batch)
    BY <2>1
  <2>7. Staged'
    BY <2>1, <2>3, <2>4, <2>6 DEF Staged
  <2> QED
    BY <2>5, <2>7
<1>7. CASE Mark \/ MarkFails
  <2>1. /\ pc = "mark" /\ Proceed
        /\ UNCHANGED <<clock, created, open, stored, out, stale>>
    BY <1>7 DEF Mark, MarkFails, writers
  <2>2. marked' \subseteq marked \cup {Head(batch)}
    BY <1>7 DEF Mark, MarkFails
  <2>3. Head(batch) \in Elements(out) /\ Elements(out) \subseteq Event
    BY <2>1, ElementsType DEF Staged, TypeOK
  <2>4. faults' \in 0 .. MaxFaults
    BY <1>7, MaxFaultsAssumption DEF Mark, MarkFails, TypeOK
  <2>5. /\ batch' \in Seq(Event) /\ pc' \in {"deliver", "clean_keys"}
        /\ pc' = "deliver" <=> batch' # <<>>
        /\ Elements(batch') \subseteq Elements(stored)
    BY <2>1, ProceedKeeps DEF Staged
  <2>6. TypeOK'
    BY <2>1, <2>2, <2>3, <2>4, <2>5 DEF TypeOK
  <2>7. Elements(stored') = Elements(stored) /\ Elements(out') = Elements(out)
    BY <2>1
  <2>8. Staged'
    BY <2>1, <2>2, <2>3, <2>5, <2>7 DEF Staged
  <2> QED
    BY <2>6, <2>8
<1>8. CASE CleanKeys \/ CleanTokens
  <2>1. /\ pc \in {"clean_keys", "clean_tokens"} /\ pc' \in {"clean_tokens", "waiting"}
        /\ UNCHANGED <<clock, created, open, stored, marked, batch, out>>
    BY <1>8 DEF CleanKeys, CleanTokens, writers
  <2>2. stale' \subseteq stale /\ faults' \in 0 .. MaxFaults
    BY <1>8, MaxFaultsAssumption DEF CleanKeys, CleanTokens, TypeOK
  <2>3. Elements(stored') = Elements(stored) /\ Elements(out') = Elements(out)
        /\ Elements(batch') = Elements(batch)
    BY <2>1
  <2> QED
    BY <2>1, <2>2, <2>3 DEF TypeOK, Staged
<1>9. ASSUME NEW t \in Table, Expire(t) PROVE IInv'
  <2>1. /\ stale' = stale \cup {t}
        /\ UNCHANGED <<clock, created, open, stored, marked, pc, batch, out, faults>>
    BY <1>9 DEF Expire, writers
  <2>2. Elements(stored') = Elements(stored) /\ Elements(out') = Elements(out)
        /\ Elements(batch') = Elements(batch)
    BY <2>1
  <2> QED
    BY <2>1, <2>2 DEF TypeOK, Staged
<1>10. CASE Crash
  <2>1. batch' = <<>> /\ Elements(batch') = {}
    BY <1>10 DEF Crash, Elements
  <2>2. faults' \in 0 .. MaxFaults
    BY <1>10, MaxFaultsAssumption DEF Crash, TypeOK
  <2>3. /\ open' = {} /\ pc' = "waiting"
        /\ UNCHANGED <<clock, created, stored, marked, out, stale>>
    BY <1>10 DEF Crash
  <2>4. TypeOK'
    BY <2>1, <2>2, <2>3 DEF TypeOK
  <2>5. Elements(stored') = Elements(stored) /\ Elements(out') = Elements(out)
    BY <2>3
  <2> QED
    BY <2>1, <2>3, <2>4, <2>5 DEF Staged
<1> QED
  BY <1>1, <1>2, <1>3, <1>4, <1>5, <1>6, <1>7, <1>8, <1>9, <1>10 DEF Next, Publish

-----------------------------------------------------------------------------
\* The inductive invariant holds throughout.
THEOREM Invariance == Spec => []IInv
BY InitInvariant, StepInvariant, PTL DEF Spec

\* Every variable keeps its type.
THEOREM TypeCorrect == Spec => []TypeOK
<1>1. IInv => TypeOK
  BY DEF IInv
<1> QED
  BY <1>1, Invariance, PTL

\* No event is marked as published that was not delivered, so neither a crash
\* nor a failed statement of processOutbox loses one.
THEOREM NothingLost == Spec => []MarkedWasDelivered
<1>1. IInv => MarkedWasDelivered
  BY DEF IInv, Staged, MarkedWasDelivered
<1> QED
  BY <1>1, Invariance, PTL

\* Every step of the publisher and of the transactions is a step of the abstract
\* outbox or leaves it as it is: an event is delivered only once it is committed.
THEOREM Refinement == Spec => AtLeastOnce!Safety
<1>1. Init => AtLeastOnce!Init
  BY DEF Init, AtLeastOnce!Init, Elements
<1>2. IInv /\ [Next]_vars => [AtLeastOnce!Next]_<<Elements(stored), Elements(out)>>
  <2> SUFFICES ASSUME IInv, [Next]_vars
               PROVE  [AtLeastOnce!Next]_<<Elements(stored), Elements(out)>>
    OBVIOUS
  <2>1. ASSUME NEW e \in Event, Commit(e) PROVE AtLeastOnce!Commit(e)
    <3>1. stored \in Seq(Event) /\ stored' = Append(stored, e) /\ out' = out
      BY <2>1 DEF Commit, publisher, IInv, TypeOK
    <3>2. Elements(stored') = Elements(stored) \cup {e}
      BY <3>1, AppendElements
    <3>3. e \notin Elements(stored)
      BY <2>1 DEF Commit, IInv, Staged
    <3>4. Elements(out') = Elements(out)
      BY <3>1
    <3> QED
      BY <3>2, <3>3, <3>4 DEF AtLeastOnce!Commit
  <2>2. CASE Deliver
    <3> DEFINE e == Head(batch)
    <3>1. /\ batch \in Seq(Event) /\ batch # <<>> /\ out \in Seq(Event)
          /\ out' = Append(out, e) /\ stored' = stored
      BY <2>2 DEF Deliver, writers, IInv, TypeOK
    <3>2. e \in Event /\ e \in Elements(stored)
      BY <3>1, HeadTailElements DEF IInv, Staged
    <3>3. Elements(out') = Elements(out) \cup {e}
      BY <3>1, AppendElements
    <3>4. Elements(stored') = Elements(stored)
      BY <3>1
    <3>5. AtLeastOnce!Deliver(e)
      BY <3>2, <3>3, <3>4 DEF AtLeastOnce!Deliver
    <3> QED
      BY <3>2, <3>5 DEF AtLeastOnce!Next
  <2>3. CASE UNCHANGED <<stored, out>>
    BY <2>3
  <2> QED
    BY <2>1, <2>2, <2>3
    DEF Next, Publish, LogEvent, Rollback, Fetch, Mark, MarkFails, CleanKeys, CleanTokens,
        Expire, Crash, publisher, writers, vars, AtLeastOnce!Next
<1> QED
  BY <1>1, <1>2, Invariance, PTL DEF Spec, AtLeastOnce!Safety

-----------------------------------------------------------------------------
\* Repetitions.

\* The events that will be delivered once more: delivered and not marked, the
\* one the publisher is about to mark excepted.
Repeats == Elements(out) \ (marked \cup (IF pc = "mark" THEN {Head(batch)} ELSE {}))

Distinct(s) == \A i, j \in DOMAIN s : i < j => s[i] # s[j]

\* What is fetched is not marked, and is there once; each delivery beyond the
\* first, made or to come, is paid for by a fault.
Fresh == pc \in {"deliver", "mark"} => Distinct(batch) /\ Elements(batch) \cap marked = {}
Paid == Len(out) + Cardinality(Repeats) <= faults + Cardinality(Elements(out))

\* The sets that are counted are finite.
LEMMA Finite ==
  ASSUME TypeOK
  PROVE  /\ Len(out) \in Nat /\ faults \in Nat
         /\ IsFiniteSet(Elements(out)) /\ Cardinality(Elements(out)) \in Nat
         /\ IsFiniteSet(Repeats) /\ Cardinality(Repeats) \in Nat
<1>1. out \in Seq(Event) /\ Len(out) \in Nat /\ faults \in Nat
  BY MaxFaultsAssumption DEF TypeOK
<1>2. Elements(out) \subseteq Event
  BY <1>1, ElementsType
<1>3. IsFiniteSet(Elements(out))
  BY <1>2, EventAssumption, FS_Subset
<1>4. IsFiniteSet(Repeats)
  BY <1>3, FS_Subset DEF Repeats
<1> QED
  BY <1>1, <1>3, <1>4, FS_CardinalityType

\* The rest of a batch without repetitions has none either, and not its head.
LEMMA TailDistinct ==
  ASSUME NEW S, NEW s \in Seq(S), s # <<>>, Distinct(s)
  PROVE  Distinct(Tail(s)) /\ Head(s) \notin Elements(Tail(s))
<1>1. /\ DOMAIN s = 1 .. Len(s) /\ Len(s) \in Nat /\ Len(s) >= 1 /\ Head(s) = s[1]
      /\ DOMAIN Tail(s) = 1 .. Len(s) - 1
      /\ \A i \in 1 .. Len(s) - 1 : Tail(s)[i] = s[i + 1]
  OBVIOUS
<1>2. ASSUME NEW i \in DOMAIN Tail(s), NEW j \in DOMAIN Tail(s), i < j
      PROVE  Tail(s)[i] # Tail(s)[j]
  <2>1. i + 1 \in DOMAIN s /\ j + 1 \in DOMAIN s /\ i + 1 < j + 1
    BY <1>1, <1>2
  <2>2. Tail(s)[i] = s[i + 1] /\ Tail(s)[j] = s[j + 1]
    BY <1>1
  <2> QED
    BY <2>1, <2>2 DEF Distinct
<1>3. ASSUME NEW i \in DOMAIN Tail(s) PROVE Tail(s)[i] # Head(s)
  <2>1. i + 1 \in DOMAIN s /\ 1 \in DOMAIN s /\ 1 < i + 1
    BY <1>1
  <2> QED
    BY <1>1, <2>1 DEF Distinct
<1> QED
  BY <1>2, <1>3 DEF Distinct, Elements

\* What is fetched stays fresh until it is marked.
LEMMA FreshStep == IInv /\ Fresh /\ [Next]_vars => Fresh'
<1> SUFFICES ASSUME IInv, Fresh, [Next]_vars PROVE Fresh'
  OBVIOUS
<1>1. CASE Fetch
  <2>1. PICK b \in Batches : batch' = b /\ marked' = marked
    BY <1>1 DEF Fetch
  <2>2. Distinct(b)
    BY <2>1 DEF Batches, Distinct
  <2>3. Elements(b) \cap marked = {}
    BY <2>1, BatchesArePending DEF Pending, IInv
  <2>4. Elements(batch') = Elements(b) /\ (Distinct(batch) <=> Distinct(batch))'
    BY <2>1
  <2>5. Distinct(batch')
    BY <2>1, <2>2
  <2> QED
    BY <2>1, <2>3, <2>4, <2>5 DEF Fresh
<1>2. CASE Mark \/ MarkFails
  <2>1. batch \in Seq(Event) /\ batch # <<>> /\ pc = "mark" /\ batch' = Tail(batch)
    BY <1>2 DEF Mark, MarkFails, Proceed, IInv, TypeOK
  <2>2. Distinct(batch) /\ Elements(batch) \cap marked = {}
    BY <2>1 DEF Fresh
  <2>3. /\ Distinct(Tail(batch)) /\ Head(batch) \notin Elements(Tail(batch))
        /\ Elements(Tail(batch)) \subseteq Elements(batch)
    BY <2>1, <2>2, TailDistinct, HeadTailElements
  <2>4. marked' \subseteq marked \cup {Head(batch)}
    BY <1>2 DEF Mark, MarkFails
  <2>5. Distinct(batch') /\ Elements(batch') = Elements(Tail(batch))
    BY <2>1, <2>3
  <2> QED
    BY <2>2, <2>3, <2>4, <2>5 DEF Fresh
<1>3. CASE CleanKeys \/ CleanTokens \/ Crash
  BY <1>3 DEF CleanKeys, CleanTokens, Crash, Fresh
<1>4. CASE UNCHANGED <<batch, marked>> /\ (pc' = pc \/ pc = "deliver")
  <2>1. Elements(batch') = Elements(batch) /\ (Distinct(batch') <=> Distinct(batch))
    BY <1>4
  <2> QED
    BY <1>4, <2>1 DEF Fresh
<1>5. Deliver => UNCHANGED <<batch, marked>> /\ pc = "deliver"
  BY DEF Deliver
<1> QED
  BY <1>1, <1>2, <1>3, <1>4, <1>5
     DEF Next, Publish, LogEvent, Commit, Rollback, Expire, publisher, vars

\* Every delivery beyond the first stays paid for.
LEMMA PaidStep == IInv /\ Fresh /\ Paid /\ [Next]_vars => Paid'
<1> SUFFICES ASSUME IInv, Fresh, Paid, [Next]_vars PROVE Paid'
  OBVIOUS
<1>1. TypeOK /\ TypeOK'
  BY StepInvariant DEF IInv
<1>2. /\ Len(out) \in Nat /\ faults \in Nat
      /\ IsFiniteSet(Elements(out)) /\ Cardinality(Elements(out)) \in Nat
      /\ IsFiniteSet(Repeats) /\ Cardinality(Repeats) \in Nat
  BY <1>1, Finite
<1>3. CASE Deliver
  <2> DEFINE e == Head(batch)
  <2>1. /\ batch \in Seq(Event) /\ batch # <<>> /\ out \in Seq(Event)
        /\ pc = "deliver" /\ pc' = "mark" /\ out' = Append(out, e)
        /\ UNCHANGED <<batch, marked, faults>>
    BY <1>1, <1>3 DEF Deliver, writers, TypeOK
  <2>2. e \in Event /\ e \notin marked
    BY <2>1, HeadTailElements DEF Fresh
  <2>3. Len(out') = Len(out) + 1 /\ Elements(out') = Elements(out) \cup {e}
    BY <2>1, <2>2, AppendElements
  <2>4. Cardinality(Elements(out'))
          = IF e \in Elements(out) THEN Cardinality(Elements(out)) ELSE Cardinality(Elements(out)) + 1
    BY <1>2, <2>3, FS_AddElement
  <2>5. Repeats' = Repeats \ {e} /\ (e \in Elements(out) => e \in Repeats)
    BY <2>1, <2>2, <2>3 DEF Repeats
  <2>6. Cardinality(Repeats')
          = IF e \in Repeats THEN Cardinality(Repeats) - 1 ELSE Cardinality(Repeats)
    BY <1>2, <2>5, FS_RemoveElement
  <2>7. e \in Repeats => e \in Elements(out)
    BY DEF Repeats
  <2> QED
    BY <1>2, <2>1, <2>3, <2>4, <2>5, <2>6, <2>7 DEF Paid
<1>4. CASE MarkFails \/ Crash
  <2>1. faults' = faults + 1 /\ UNCHANGED <<out, marked>> /\ pc' # "mark"
    BY <1>4 DEF MarkFails, Crash, Proceed, writers
  <2>2. Repeats' \subseteq Repeats \cup {Head(batch)} /\ Elements(out') = Elements(out)
    BY <2>1 DEF Repeats
  <2>3. Cardinality(Repeats') <= Cardinality(Repeats) + 1 /\ Cardinality(Repeats') \in Nat
    <3>1. /\ IsFiniteSet(Repeats \cup {Head(batch)})
          /\ Cardinality(Repeats \cup {Head(batch)}) \in {Cardinality(Repeats), Cardinality(Repeats) + 1}
      BY <1>2, FS_AddElement
    <3>2. /\ IsFiniteSet(Repeats')
          /\ Cardinality(Repeats') <= Cardinality(Repeats \cup {Head(batch)})
      BY <2>2, <3>1, FS_Subset
    <3>3. Cardinality(Repeats') \in Nat
      BY <3>2, FS_CardinalityType
    <3> QED
      BY <1>2, <3>1, <3>2, <3>3
  <2>4. Len(out') = Len(out) /\ Cardinality(Elements(out')) = Cardinality(Elements(out))
    BY <2>1, <2>2
  <2> QED
    BY <1>2, <2>1, <2>3, <2>4 DEF Paid
<1>5. CASE Repeats' = Repeats /\ out' = out /\ faults' >= faults /\ faults' \in Nat
  <2>1. Len(out') = Len(out) /\ Elements(out') = Elements(out)
    BY <1>5
  <2>2. /\ Cardinality(Repeats') = Cardinality(Repeats)
        /\ Cardinality(Elements(out')) = Cardinality(Elements(out))
    BY <1>5, <2>1
  <2> QED
    BY <1>2, <1>5, <2>1, <2>2 DEF Paid
<1>6. ASSUME Mark PROVE Repeats' = Repeats /\ out' = out /\ faults' = faults
  <2>1. /\ pc = "mark" /\ pc' # "mark" /\ marked' = marked \cup {Head(batch)}
        /\ out' = out /\ faults' = faults
    BY <1>6 DEF Mark, Proceed, writers
  <2>2. Elements(out') = Elements(out)
    BY <2>1
  <2> QED
    BY <2>1, <2>2 DEF Repeats
<1>7. ASSUME Fetch \/ CleanKeys \/ CleanTokens
      PROVE  Repeats' = Repeats /\ out' = out /\ faults' \in {faults, faults + 1}
  <2>1. /\ pc # "mark" /\ pc' # "mark" /\ UNCHANGED <<marked, out>>
        /\ faults' \in {faults, faults + 1}
    BY <1>7 DEF Fetch, CleanKeys, CleanTokens, writers
  <2>2. Elements(out') = Elements(out)
    BY <2>1
  <2> QED
    BY <2>1, <2>2 DEF Repeats
<1>8. ASSUME UNCHANGED <<pc, batch, marked, out, faults>>
      PROVE  Repeats' = Repeats /\ out' = out /\ faults' = faults
  <2>1. Elements(out') = Elements(out) /\ Head(batch') = Head(batch)
    BY <1>8
  <2> QED
    BY <1>8, <2>1 DEF Repeats
<1> QED
  BY <1>2, <1>3, <1>4, <1>5, <1>6, <1>7, <1>8
     DEF Next, Publish, LogEvent, Commit, Rollback, Expire, publisher, vars

\* At least once, and no more often than crashes and failed marks explain.
THEOREM RepetitionsPaidFor == Spec => []DuplicatesAreFaults
<1>1. Init => Fresh /\ Paid
  <2> SUFFICES ASSUME Init PROVE Fresh /\ Paid
    OBVIOUS
  <2>1. Elements(out) = {} /\ Repeats = {} /\ Len(out) = 0 /\ faults = 0
    BY DEF Init, Elements, Repeats
  <2> QED
    BY <2>1, FS_EmptySet DEF Init, Fresh, Paid
<1>2. IInv /\ Fresh /\ Paid /\ [Next]_vars => Fresh' /\ Paid'
  BY FreshStep, PaidStep
<1>3. IInv /\ Paid => DuplicatesAreFaults
  BY Finite DEF IInv, Paid, DuplicatesAreFaults
<1> QED
  BY <1>1, <1>2, <1>3, Invariance, PTL DEF Spec

-----------------------------------------------------------------------------
\* The order of deliveries.

\* e was written before f and committed before f.
Prior(e, f) == created[e] < created[f] /\ Before(stored, e, f)

\* Whatever comes before an event of the batch was delivered, or comes before
\* it in the batch.
Sorted ==
    \A j \in DOMAIN batch, e \in Event :
        Prior(e, batch[j]) => e \in Elements(out) \/ \E i \in DOMAIN batch : i < j /\ batch[i] = e

\* What a first delivery is.
IsFirst(i, s, e) == i \in DOMAIN s /\ s[i] = e /\ \A j \in 1 .. i - 1 : s[j] # e

\* What was delivered was delivered for the first time, once.
LEMMA FirstExists ==
    ASSUME NEW s \in Seq(Event), NEW e \in Elements(s)
    PROVE  \E i \in 1 .. Len(s) : IsFirst(i, s, e)
<1> DEFINE T == {i \in 1 .. Len(s) : s[i] = e}
<1>1. T \subseteq Nat /\ T # {} /\ DOMAIN s = 1 .. Len(s)
  BY DEF Elements
<1> HIDE DEF T
<1>2. PICK i \in T : \A k \in T : ~(<<k, i>> \in OpToRel(<, Nat))
  BY <1>1, NatLessThanWellFounded, WFMin
<1>3. \A k \in T : ~(k < i)
  BY <1>1, <1>2 DEF OpToRel
<1>4. i \in 1 .. Len(s) /\ s[i] = e
  BY <1>2 DEF T
<1>5. ASSUME NEW k \in 1 .. i - 1 PROVE s[k] # e
  <2>1. k \in 1 .. Len(s) /\ k < i
    BY <1>4, <1>5
  <2> QED
    BY <1>3, <2>1 DEF T
<1> QED
  BY <1>1, <1>4, <1>5 DEF IsFirst

\* It is the delivery that First names.
LEMMA FirstMeaning ==
    ASSUME out \in Seq(Event), NEW e, NEW i \in Nat, IsFirst(i, out, e)
    PROVE  First(e) = i
<1>1. DOMAIN out = 1 .. Len(out) /\ Len(out) \in Nat
  OBVIOUS
<1>2. \A k \in DOMAIN out : out[k] = e /\ (\A j \in 1 .. k - 1 : out[j] # e) => k = i
  <2> SUFFICES ASSUME NEW k \in DOMAIN out, out[k] = e, \A j \in 1 .. k - 1 : out[j] # e
               PROVE  k = i
    OBVIOUS
  <2>1. k \in Nat /\ k >= 1 /\ i >= 1
    BY <1>1 DEF IsFirst
  <2>2. CASE k < i
    BY <2>1, <2>2 DEF IsFirst
  <2>3. CASE i < k
    BY <2>1, <2>3 DEF IsFirst
  <2> QED
    BY <2>1, <2>2, <2>3
<1>3. i \in DOMAIN out /\ out[i] = e /\ \A j \in 1 .. i - 1 : out[j] # e
  BY DEF IsFirst
<1> QED
  BY <1>2, <1>3 DEF First

\* The same one step later.
LEMMA FirstMeaningNext ==
    ASSUME out' \in Seq(Event), NEW e, NEW i \in Nat, IsFirst(i, out', e)
    PROVE  First(e)' = i
<1>1. DOMAIN out' = 1 .. Len(out') /\ Len(out') \in Nat
  OBVIOUS
<1>2. \A k \in DOMAIN out' : out'[k] = e /\ (\A j \in 1 .. k - 1 : out'[j] # e) => k = i
  <2> SUFFICES ASSUME NEW k \in DOMAIN out', out'[k] = e, \A j \in 1 .. k - 1 : out'[j] # e
               PROVE  k = i
    OBVIOUS
  <2>1. k \in Nat /\ k >= 1 /\ i >= 1
    BY <1>1 DEF IsFirst
  <2>2. CASE k < i
    BY <2>1, <2>2 DEF IsFirst
  <2>3. CASE i < k
    BY <2>1, <2>3 DEF IsFirst
  <2> QED
    BY <2>1, <2>2, <2>3
<1>3. i \in DOMAIN out' /\ out'[i] = e /\ \A j \in 1 .. i - 1 : out'[j] # e
  BY DEF IsFirst
<1> QED
  BY <1>2, <1>3 DEF First

\* A delivery moves no first delivery, and one of a new event comes last.
LEMMA FirstNext ==
    ASSUME out \in Seq(Event), NEW h \in Event, out' = Append(out, h), NEW e \in Event
    PROVE  /\ Len(out) \in Nat
           /\ e \in Elements(out) => First(e)' = First(e) /\ First(e) \in 1 .. Len(out)
           /\ e \notin Elements(out) /\ e = h => First(e)' = Len(out) + 1
<1> DEFINE n == Len(out)
<1>1. /\ n \in Nat /\ DOMAIN out = 1 .. n /\ DOMAIN out' = 1 .. n + 1
      /\ \A i \in 1 .. n : out'[i] = out[i]
      /\ out'[n + 1] = h /\ out' \in Seq(Event)
  OBVIOUS
<1> HIDE DEF n
<1>2. ASSUME e \in Elements(out) PROVE First(e)' = First(e) /\ First(e) \in 1 .. n
  <2>1. PICK i \in 1 .. n : IsFirst(i, out, e)
    BY <1>2, FirstExists DEF n
  <2>2. IsFirst(i, out', e)
    BY <1>1, <2>1 DEF IsFirst
  <2> QED
    BY <1>1, <2>1, <2>2, FirstMeaning, FirstMeaningNext
<1>3. ASSUME e \notin Elements(out), e = h PROVE First(e)' = n + 1
  <2>1. \A j \in 1 .. n : out'[j] # e
    BY <1>1, <1>3 DEF Elements
  <2>2. IsFirst(n + 1, out', e)
    BY <1>1, <1>3, <2>1 DEF IsFirst
  <2> QED
    BY <1>1, <2>2, FirstMeaningNext
<1> QED
  BY <1>1, <1>2, <1>3 DEF n

\* The order of the events in the table is settled once they are in it.
LEMMA PriorNext ==
    ASSUME IInv, [Next]_vars, NEW e \in Event, NEW f \in Elements(stored), Prior(e, f)'
    PROVE  Prior(e, f)
<1>1. stored \in Seq(Event) /\ f \in Event
  BY ElementsType DEF IInv, TypeOK
<1>2. ASSUME NEW g \in Event, LogEvent(g) PROVE Prior(e, f)
  <2>1. stored' = stored /\ created' = [created EXCEPT ![g] = clock'] /\ created[g] = 0
    BY <1>2 DEF LogEvent
  <2>2. e \in Elements(stored)
    BY <2>1 DEF Prior, Before, Elements
  <2>3. e # g /\ f # g
    BY <2>1, <2>2 DEF IInv, Staged
  <2>4. created'[e] = created[e] /\ created'[f] = created[f]
    BY <1>1, <2>1, <2>3 DEF IInv, TypeOK
  <2> QED
    BY <2>1, <2>4 DEF Prior
<1>3. ASSUME NEW g \in Event, Commit(g) PROVE Prior(e, f)
  <2>1. stored' = Append(stored, g) /\ created' = created /\ f # g
    BY <1>3 DEF Commit, IInv, Staged
  <2>2. PICK i, j \in DOMAIN stored' : i < j /\ stored'[i] = e /\ stored'[j] = f
    BY DEF Prior, Before
  <2>3. /\ Len(stored) \in Nat /\ DOMAIN stored = 1 .. Len(stored)
        /\ DOMAIN stored' = 1 .. Len(stored) + 1
        /\ \A k \in DOMAIN stored : stored'[k] = stored[k]
        /\ stored'[Len(stored) + 1] = g
    BY <1>1, <2>1
  <2>4. j # Len(stored) + 1
    BY <2>1, <2>2, <2>3
  <2>5. i \in DOMAIN stored /\ j \in DOMAIN stored
    BY <2>2, <2>3, <2>4
  <2> QED
    BY <2>1, <2>2, <2>3, <2>5 DEF Prior, Before
<1>4. CASE UNCHANGED <<created, stored>>
  BY <1>4 DEF Prior
<1> QED
  BY <1>2, <1>3, <1>4
     DEF Next, Publish, Rollback, Fetch, Deliver, Mark, MarkFails, CleanKeys, CleanTokens,
         Expire, Crash, writers, vars

\* Every step leaves the batch in order.
LEMMA SortedStep ==
    ASSUME IInv, Sorted, [Next]_vars
    PROVE  Sorted'
<1>1. /\ batch \in Seq(Event) /\ out \in Seq(Event)
      /\ Elements(batch) \subseteq Elements(stored) /\ Elements(stored) \subseteq Event
  BY ElementsType DEF IInv, TypeOK, Staged
<1>2. ASSUME batch' = batch, Elements(out) \subseteq Elements(out') PROVE Sorted'
  <2> SUFFICES ASSUME NEW j \in DOMAIN batch, NEW e \in Event, Prior(e, batch[j])'
               PROVE  e \in Elements(out') \/ \E i \in DOMAIN batch : i < j /\ batch[i] = e
    BY <1>2 DEF Sorted
  <2>1. PICK f \in Elements(stored) : f = batch[j]
    BY <1>1 DEF Elements
  <2>2. Prior(e, f)'
    BY <1>2, <2>1 DEF Prior
  <2>3. Prior(e, f)
    BY <2>2, PriorNext
  <2> QED
    BY <1>2, <2>1, <2>3 DEF Sorted
<1>3. CASE Fetch
  <2>1. PICK b \in Batches : batch' = b
    BY <1>3 DEF Fetch
  <2>2. UNCHANGED <<created, stored, marked, out>>
    BY <1>3 DEF Fetch, writers
  <2>3. b \in Seq(Event) /\ Elements(b) \subseteq Pending
    BY <2>1, BatchesArePending DEF IInv
  <2> SUFFICES ASSUME NEW j \in DOMAIN b, NEW e \in Event, Prior(e, b[j])
               PROVE  e \in Elements(out) \/ \E i \in DOMAIN b : i < j /\ b[i] = e
    BY <2>1, <2>2 DEF Sorted, Prior, Elements
  <2>4. created[e] < created[b[j]] /\ e \in Elements(stored) /\ b[j] \in Event
    BY <2>3 DEF Prior, Before, Elements
  <2>5. created[e] \in Nat /\ created[b[j]] \in Nat
    BY <2>4 DEF IInv, TypeOK
  <2>6. CASE e \notin Pending
    BY <2>4, <2>6 DEF Pending, IInv, Staged
  <2>7. CASE e \in Pending
    <3>1. e \in Elements(b)
      <4>1. e \notin Elements(b) => created[b[j]] <= created[e]
        BY <2>1, <2>7 DEF Batches
      <4> QED
        BY <2>4, <2>5, <4>1
    <3>2. PICK i \in DOMAIN b : b[i] = e
      BY <3>1 DEF Elements
    <3>3. i \in Nat /\ j \in Nat
      BY <2>3
    <3>4. j < i => created[b[j]] <= created[b[i]]
      BY <2>1 DEF Batches
    <3>5. i < j
      BY <2>4, <2>5, <3>2, <3>3, <3>4
    <3> QED
      BY <3>2, <3>5
  <2> QED
    BY <2>6, <2>7
<1>4. CASE Mark \/ MarkFails
  <2>1. /\ batch # <<>> /\ batch' = Tail(batch) /\ pc = "mark"
        /\ UNCHANGED <<created, stored, out>>
    BY <1>4 DEF Mark, MarkFails, Proceed, writers, IInv, TypeOK
  <2>2. /\ DOMAIN batch = 1 .. Len(batch) /\ Len(batch) \in Nat /\ Len(batch) >= 1
        /\ Head(batch) = batch[1]
        /\ DOMAIN Tail(batch) = 1 .. Len(batch) - 1
        /\ \A i \in 1 .. Len(batch) - 1 : Tail(batch)[i] = batch[i + 1]
    BY <1>1, <2>1
  <2> SUFFICES ASSUME NEW j \in DOMAIN batch', NEW e \in Event, Prior(e, batch[j])'
               PROVE  e \in Elements(out') \/ \E i \in DOMAIN batch' : i < j /\ batch'[i] = e
    BY DEF Sorted
  <2>3. j \in 1 .. Len(batch) - 1 /\ batch'[j] = batch[j + 1] /\ Elements(out') = Elements(out)
    BY <2>1, <2>2
  <2>4. Prior(e, batch[j + 1])
    BY <2>1, <2>3 DEF Prior
  <2>5. CASE e \notin Elements(out)
    <3>1. PICK i \in DOMAIN batch : i < j + 1 /\ batch[i] = e
      BY <2>2, <2>3, <2>4, <2>5 DEF Sorted
    <3>2. i # 1
      BY <2>1, <2>2, <2>5, <3>1 DEF IInv, Staged
    <3>3. i - 1 \in 1 .. Len(batch) - 1 /\ i - 1 < j /\ batch[(i - 1) + 1] = e
      BY <2>2, <2>3, <3>1, <3>2
    <3> QED
      BY <2>1, <2>2, <3>3
  <2> QED
    BY <2>3, <2>5
<1>5. CASE Crash
  BY <1>5 DEF Crash, Sorted
<1>6. CASE Deliver
  <2>1. batch # <<>> /\ batch' = batch /\ out' = Append(out, Head(batch))
    BY <1>6 DEF Deliver, IInv, TypeOK
  <2>2. Elements(out') = Elements(out) \cup {Head(batch)}
    BY <1>1, <2>1, HeadTailElements, AppendElements
  <2> QED
    BY <1>2, <2>1, <2>2
<1>7. CASE UNCHANGED <<batch, out>>
  BY <1>2, <1>7 DEF Elements
<1> QED
  BY <1>3, <1>4, <1>5, <1>6, <1>7
     DEF Next, Publish, LogEvent, Commit, Rollback, CleanKeys, CleanTokens, Expire, publisher, vars

\* No step delivers an event ahead of one that is prior to it.
LEMMA OrderStep ==
    ASSUME IInv, Sorted, DeliveredInOrder, [Next]_vars
    PROVE  DeliveredInOrder'
<1>1. /\ batch \in Seq(Event) /\ out \in Seq(Event)
      /\ Elements(batch) \subseteq Elements(stored) /\ Elements(out) \subseteq Elements(stored)
  BY DEF IInv, TypeOK, Staged
<1>2. CASE Deliver
  <2> DEFINE h == Head(batch)
  <2>1. batch # <<>> /\ out' = Append(out, h) /\ UNCHANGED <<created, stored>>
    BY <1>2 DEF Deliver, writers, IInv, TypeOK
  <2>2. h \in Event /\ 1 \in DOMAIN batch /\ h = batch[1]
    BY <1>1, <2>1
  <2> HIDE DEF h
  <2>3. Elements(out') = Elements(out) \cup {h}
    BY <1>1, <2>1, <2>2, AppendElements
  <2> SUFFICES ASSUME NEW e \in Event, NEW f \in Elements(out'), Prior(e, f)
               PROVE  e \in Elements(out') /\ First(e)' < First(f)'
    BY <2>1 DEF DeliveredInOrder, Prior
  <2>4. CASE f \in Elements(out)
    <3>1. e \in Elements(out) /\ First(e) < First(f)
      BY <2>4 DEF DeliveredInOrder, Prior
    <3>2. f \in Event
      BY <1>1, <2>4, ElementsType
    <3> QED
      BY <1>1, <2>1, <2>2, <2>3, <2>4, <3>1, <3>2, FirstNext
  <2>5. CASE f \notin Elements(out)
    <3>1. f = h
      BY <2>3, <2>5
    <3>2. \A i \in DOMAIN batch : ~(i < 1)
      BY <1>1
    <3>3. e \in Elements(out)
      BY <2>2, <3>1, <3>2 DEF Sorted
    <3>4. /\ First(e)' = First(e) /\ First(e) \in 1 .. Len(out) /\ Len(out) \in Nat
          /\ First(f)' = Len(out) + 1
      BY <1>1, <2>1, <2>2, <2>5, <3>1, <3>3, FirstNext
    <3> QED
      BY <2>3, <3>3, <3>4
  <2> QED
    BY <2>4, <2>5
<1>3. CASE out' = out
  <2> SUFFICES ASSUME NEW e \in Event, NEW f \in Elements(out), Prior(e, f)'
               PROVE  e \in Elements(out) /\ First(e) < First(f)
    <3>1. \A e : First(e)' = First(e)
      BY <1>3 DEF First
    <3>2. Elements(out') = Elements(out)
      BY <1>3
    <3> QED
      BY <3>1, <3>2 DEF DeliveredInOrder, Prior
  <2>1. Prior(e, f)
    BY <1>1, PriorNext
  <2> QED
    BY <2>1 DEF DeliveredInOrder, Prior
<1> QED
  BY <1>2, <1>3
     DEF Next, Publish, LogEvent, Commit, Rollback, Fetch, Mark, MarkFails, CleanKeys, CleanTokens,
         Expire, Crash, publisher, writers, vars

\* Events are first delivered in the order in which they were written and
\* committed, across batches, marks that fail and restarts.
THEOREM InOrder == Spec => []DeliveredInOrder
<1>1. Init => Sorted /\ DeliveredInOrder
  <2> SUFFICES ASSUME Init PROVE Sorted /\ DeliveredInOrder
    OBVIOUS
  <2>1. DOMAIN batch = {} /\ Elements(out) = {}
    BY DEF Init, Elements
  <2> QED
    BY <2>1 DEF Sorted, DeliveredInOrder
<1>2. IInv /\ Sorted /\ DeliveredInOrder /\ [Next]_vars => Sorted' /\ DeliveredInOrder'
  BY SortedStep, OrderStep
<1> QED
  BY <1>1, <1>2, Invariance, PTL DEF Spec
=============================================================================
