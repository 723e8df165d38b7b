-------------------------------- MODULE Sums --------------------------------
(***************************************************************************)
(* What SumFunctionOnSet of the community modules adds up: the sum of a    *)
(* function's values over a finite set, by a recursive function that picks *)
(* the elements in an order nobody knows.  The library's induction theorems*)
(* cannot be instantiated here, so the induction is over a set of subsets. *)
(***************************************************************************)
EXTENDS Integers, Functions, FunctionTheorems, FiniteSetTheorems, WellFoundedInduction, TLAPS

\* Induction over the subsets of a finite set: a set of them that has every
\* subset whose smaller ones it has, has them all.
LEMMA SubsetInduction ==
    ASSUME NEW S, IsFiniteSet(S), NEW P,
           \A s \in SUBSET S : (\A x \in s : s \ {x} \in P) => s \in P
    PROVE  SUBSET S \subseteq P
<1> DEFINE Left == {s \in SUBSET S : s \notin P}
           Sizes == {Cardinality(s) : s \in Left}
<1>1. \A s \in SUBSET S : IsFiniteSet(s) /\ Cardinality(s) \in Nat
  BY FS_Subset, FS_CardinalityType
<1>2. SUFFICES ASSUME Left # {} PROVE FALSE
  OBVIOUS
<1>3. Sizes \subseteq Nat /\ Sizes # {}
  BY <1>1, <1>2
<1> HIDE DEF Sizes
<1>4. PICK m \in Sizes : \A k \in Sizes : ~(<<k, m>> \in OpToRel(<, Nat))
  BY <1>3, NatLessThanWellFounded, WFMin
<1>5. \A k \in Sizes : ~(k < m)
  BY <1>3, <1>4 DEF OpToRel
<1>6. PICK s \in Left : Cardinality(s) = m
  BY DEF Sizes
<1>7. ASSUME NEW x \in s PROVE s \ {x} \in P
  <2>1. Cardinality(s \ {x}) = m - 1 /\ s \ {x} \in SUBSET S
    BY <1>1, <1>6, FS_RemoveElement
  <2>2. m \in Nat /\ m - 1 < m
    BY <1>1, <1>6
  <2>3. Cardinality(s \ {x}) \notin Sizes
    BY <1>5, <2>1, <2>2
  <2> QED
    BY <2>1, <2>3 DEF Sizes
<1> QED
  BY <1>6, <1>7

-----------------------------------------------------------------------------
\* h adds up F over the subsets of S, taking the element C[s] of s first.
IsSum(h, F, S, C) ==
    h = [s \in SUBSET S |-> IF s = {} THEN 0 ELSE F[C[s]] + h[s \ {C[s]}]]

\* C chooses an element of every subset of S.
Chooses(C, S) == \A s \in SUBSET S : s # {} => C[s] \in s

\* There is a function that adds up: one that does so for the subsets of at most
\* k elements gives one for those of k + 1.
LEMMA SumExists ==
    ASSUME NEW S, IsFiniteSet(S), NEW F, NEW C, Chooses(C, S)
    PROVE  \E h : IsSum(h, F, S, C)
<1> DEFINE Add(h, s) == IF s = {} THEN 0 ELSE F[C[s]] + h[s \ {C[s]}]
           Good(h, k) == \A s \in SUBSET S : Cardinality(s) <= k => h[s] = Add(h, s)
           Bad == {k \in Nat : \A h : ~Good(h, k)}
<1>1. \A s \in SUBSET S : IsFiniteSet(s) /\ Cardinality(s) \in Nat /\ Cardinality(s) <= Cardinality(S)
  BY FS_Subset, FS_CardinalityType
<1>2. \A s \in SUBSET S : s # {} =>
         s \ {C[s]} \in SUBSET S /\ Cardinality(s \ {C[s]}) = Cardinality(s) - 1
  BY <1>1, FS_RemoveElement DEF Chooses
<1>3. ASSUME NEW k \in Nat, NEW h, Good(h, k)
      PROVE  \E g : Good(g, k + 1)
  <2> DEFINE g == [s \in SUBSET S |-> Add(h, s)]
  <2>1. ASSUME NEW s \in SUBSET S, Cardinality(s) <= k + 1
        PROVE  g[s] = Add(g, s)
    <3>1. CASE s = {}
      BY <3>1
    <3>2. CASE s # {}
      <4> DEFINE t == s \ {C[s]}
      <4>1. t \in SUBSET S /\ Cardinality(t) <= k
        BY <1>1, <1>2, <2>1, <3>2
      <4>2. h[t] = Add(h, t) /\ g[t] = Add(h, t)
        BY <1>3, <4>1
      <4> HIDE DEF t
      <4>3. g[s] = F[C[s]] + h[t]
        BY <3>2 DEF t
      <4>4. Add(g, s) = F[C[s]] + g[t]
        BY <3>2 DEF t
      <4> QED
        BY <4>2, <4>3, <4>4
    <3> QED
      BY <3>1, <3>2
  <2> HIDE DEF g
  <2> QED
    BY <2>1
<1>4. \E h : Good(h, 0)
  <2>1. \A s \in SUBSET S : Cardinality(s) <= 0 => s = {}
    BY <1>1, FS_EmptySet
  <2> WITNESS [s \in SUBSET S |-> 0]
  <2> QED
    BY <2>1
<1>5. Bad = {}
  <2> SUFFICES ASSUME Bad # {} PROVE FALSE
    OBVIOUS
  <2> HIDE DEF Good
  <2>1. PICK m \in Bad : \A k \in Bad : ~(<<k, m>> \in OpToRel(<, Nat))
    BY NatLessThanWellFounded, WFMin
  <2>2. m # 0 /\ m \in Nat
    BY <1>4, <2>1
  <2>3. m - 1 \in Nat /\ m - 1 < m /\ (m - 1) + 1 = m
    BY <2>2
  <2>4. m - 1 \notin Bad
    BY <2>1, <2>3 DEF OpToRel
  <2>5. PICK h : Good(h, m - 1)
    BY <2>3, <2>4
  <2>6. \E g : Good(g, m)
    BY <1>3, <2>3, <2>5
  <2> QED
    BY <2>1, <2>6
<1>6. Cardinality(S) \in Nat
  BY FS_CardinalityType
<1>7. PICK h : Good(h, Cardinality(S))
  BY <1>5, <1>6
<1> DEFINE g == [s \in SUBSET S |-> h[s]]
<1>8. \A s \in SUBSET S : g[s] = Add(h, s) /\ (s # {} => g[s \ {C[s]}] = h[s \ {C[s]}])
  BY <1>1, <1>2, <1>7
<1>9. g = [s \in SUBSET S |-> Add(g, s)]
  BY <1>8
<1> QED
  BY <1>9 DEF IsSum

\* f gives integers to the members of S.
IntegersOn(F, S) == \A x \in S : F[x] \in Int

\* h is an integer on every subset of S, and the same whatever comes first.
AddsUp(h, F, S) ==
    /\ h[{}] = 0
    /\ \A s \in SUBSET S : h[s] \in Int
    /\ \A s \in SUBSET S : \A x \in s : h[s] = F[x] + h[s \ {x}]

\* The order in which the elements are taken makes no difference.
LEMMA SumAny ==
    ASSUME NEW S, IsFiniteSet(S), NEW F, IntegersOn(F, S),
           NEW C, Chooses(C, S), NEW h, IsSum(h, F, S, C)
    PROVE  AddsUp(h, F, S)
<1>1. \A s \in SUBSET S : s # {} => C[s] \in s /\ h[s] = F[C[s]] + h[s \ {C[s]}]
  BY DEF IsSum, Chooses
<1>2. h[{}] = 0
  BY DEF IsSum
<1> DEFINE P == {s \in SUBSET S : h[s] \in Int}
           Q == {s \in SUBSET S : \A x \in s : h[s] = F[x] + h[s \ {x}]}
<1>3. ASSUME NEW s \in SUBSET S, \A x \in s : s \ {x} \in P PROVE s \in P
  <2>1. CASE s = {}
    BY <1>2, <2>1
  <2>2. CASE s # {}
    <3>1. C[s] \in s /\ h[s] = F[C[s]] + h[s \ {C[s]}] /\ h[s \ {C[s]}] \in Int
      BY <1>1, <1>3, <2>2
    <3> QED
      BY <3>1 DEF IntegersOn
  <2> QED
    BY <2>1, <2>2
<1>4. SUBSET S \subseteq P
  <2> HIDE DEF P
  <2> QED
    BY <1>3, SubsetInduction
<1>5. ASSUME NEW s \in SUBSET S, \A x \in s : s \ {x} \in Q, NEW x \in s
      PROVE  h[s] = F[x] + h[s \ {x}]
  <2> DEFINE c == C[s]
             r == (s \ {c}) \ {x}
  <2>1. c \in s /\ h[s] = F[c] + h[s \ {c}]
    BY <1>1
  <2>2. CASE x = c
    BY <2>1, <2>2
  <2>3. CASE x # c
    <3>1. h[s \ {c}] = F[x] + h[r]
      BY <1>5, <2>1, <2>3
    <3>2. (s \ {x}) \ {c} = r /\ c \in s \ {x}
      BY <2>1, <2>3
    <3>3. h[s \ {x}] = F[c] + h[r]
      <4>1. \A y \in s \ {x} : h[s \ {x}] = F[y] + h[(s \ {x}) \ {y}]
        BY <1>5
      <4> HIDE DEF c, r
      <4> QED
        BY <3>2, <4>1
    <3>4. h[r] \in Int /\ F[c] \in Int /\ F[x] \in Int
      BY <1>4, <2>1 DEF IntegersOn
    <3> HIDE DEF c, r
    <3> QED
      BY <2>1, <3>1, <3>3, <3>4
  <2> QED
    BY <2>2, <2>3
<1>6. SUBSET S \subseteq Q
  <2>1. ASSUME NEW s \in SUBSET S, \A x \in s : s \ {x} \in Q PROVE s \in Q
    BY <1>5, <2>1
  <2> HIDE DEF Q
  <2> QED
    BY <2>1, SubsetInduction
<1> QED
  BY <1>2, <1>4, <1>6 DEF AddsUp

\* Functions that agree on a set have one sum over it.
LEMMA SumUnique ==
    ASSUME NEW S, IsFiniteSet(S), NEW T \in SUBSET S,
           NEW F, NEW h, AddsUp(h, F, S), NEW G, NEW g, AddsUp(g, G, T),
           \A x \in T : F[x] = G[x]
    PROVE  h[T] = g[T]
<1> DEFINE P == {s \in SUBSET T : h[s] = g[s]}
<1>1. ASSUME NEW s \in SUBSET T, \A x \in s : s \ {x} \in P PROVE s \in P
  <2>1. CASE s = {}
    BY <2>1 DEF AddsUp
  <2>2. CASE s # {}
    <3>1. PICK x \in s : TRUE
      BY <2>2
    <3>2. h[s] = F[x] + h[s \ {x}] /\ g[s] = G[x] + g[s \ {x}]
      BY DEF AddsUp
    <3> QED
      BY <1>1, <3>2
  <2> QED
    BY <2>1, <2>2
<1>2. IsFiniteSet(T)
  BY FS_Subset
<1> HIDE DEF P
<1>3. SUBSET T \subseteq P
  BY <1>1, <1>2, SubsetInduction
<1> QED
  BY <1>3 DEF P

\* The library's sum is one of these.
LEMMA SumIs ==
    ASSUME NEW S, IsFiniteSet(S), NEW F, IntegersOn(F, S)
    PROVE  \E h : AddsUp(h, F, S) /\ SumFunctionOnSet(F, S) = h[S]
<1> DEFINE C == [s \in SUBSET S |-> CHOOSE x \in s : TRUE]
           Eq(h) == h = [s \in SUBSET S |->
                            IF s = {} THEN 0
                            ELSE F[CHOOSE x \in s : TRUE] + h[s \ {CHOOSE x \in s : TRUE}]]
           h == CHOOSE g : Eq(g)
<1>1. Chooses(C, S)
  BY DEF Chooses
<1>2. PICK g : IsSum(g, F, S, C)
  BY <1>1, SumExists
<1>3. Eq(g)
  <2>1. \A s \in SUBSET S : C[s] = CHOOSE x \in s : TRUE
    OBVIOUS
  <2> HIDE DEF C
  <2> QED
    BY <1>2, <2>1 DEF IsSum
<1>4. Eq(h)
  <2> HIDE DEF Eq
  <2> QED
    BY <1>3, Zenon
<1>5. SumFunctionOnSet(F, S) = h[S]
  BY DEF SumFunctionOnSet, FoldFunctionOnSet, MapThenFoldSet
<1>6. IsSum(h, F, S, C)
  <2>1. \A s \in SUBSET S : C[s] = CHOOSE x \in s : TRUE
    OBVIOUS
  <2> HIDE DEF C, h
  <2> QED
    BY <1>4, <2>1 DEF IsSum
<1>7. AddsUp(h, F, S)
  BY <1>1, <1>6, SumAny
<1> QED
  BY <1>5, <1>7

-----------------------------------------------------------------------------
\* The facts the proofs about sums use.

\* An empty sum is zero.
LEMMA SumEmpty == \A F : SumFunctionOnSet(F, {}) = 0
<1> SUFFICES ASSUME NEW F PROVE SumFunctionOnSet(F, {}) = 0
  OBVIOUS
<1>1. IsFiniteSet({}) /\ IntegersOn(F, {})
  BY FS_EmptySet DEF IntegersOn
<1>2. PICK h : AddsUp(h, F, {}) /\ SumFunctionOnSet(F, {}) = h[{}]
  BY <1>1, SumIs
<1> QED
  BY <1>2 DEF AddsUp

\* A sum of integers is an integer.
LEMMA SumType ==
    ASSUME NEW S, IsFiniteSet(S), NEW F, IntegersOn(F, S)
    PROVE  SumFunctionOnSet(F, S) \in Int
<1>1. PICK h : AddsUp(h, F, S) /\ SumFunctionOnSet(F, S) = h[S]
  BY SumIs
<1> QED
  BY <1>1 DEF AddsUp

\* Only the values on the set count.
LEMMA SumSame ==
    ASSUME NEW S, IsFiniteSet(S), NEW F, NEW G, IntegersOn(F, S), \A x \in S : F[x] = G[x]
    PROVE  SumFunctionOnSet(F, S) = SumFunctionOnSet(G, S)
<1>1. IntegersOn(G, S)
  BY DEF IntegersOn
<1>2. PICK h : AddsUp(h, F, S) /\ SumFunctionOnSet(F, S) = h[S]
  BY SumIs
<1>3. PICK g : AddsUp(g, G, S) /\ SumFunctionOnSet(G, S) = g[S]
  BY <1>1, SumIs
<1>4. h[S] = g[S]
  BY <1>2, <1>3, SumUnique
<1> QED
  BY <1>2, <1>3, <1>4

\* One more element adds its value.
LEMMA SumWith ==
    ASSUME NEW S, IsFiniteSet(S), NEW F, NEW x, x \notin S, IntegersOn(F, S \cup {x})
    PROVE  SumFunctionOnSet(F, S \cup {x}) = F[x] + SumFunctionOnSet(F, S)
<1> DEFINE T == S \cup {x}
<1>1. IsFiniteSet(T)
  BY FS_AddElement
<1>2. IntegersOn(F, S) /\ x \in T /\ T \ {x} = S /\ S \in SUBSET T
  BY DEF IntegersOn
<1>3. PICK h : AddsUp(h, F, T) /\ SumFunctionOnSet(F, T) = h[T]
  BY <1>1, SumIs
<1>4. PICK g : AddsUp(g, F, S) /\ SumFunctionOnSet(F, S) = g[S]
  BY <1>2, SumIs
<1>5. h[S] = g[S]
  BY <1>1, <1>2, <1>3, <1>4, SumUnique
<1>6. h[T] = F[x] + h[T \ {x}]
  BY <1>2, <1>3 DEF AddsUp
<1> QED
  BY <1>2, <1>3, <1>4, <1>5, <1>6

\* A sum of sums.
LEMMA SumPlus ==
    ASSUME NEW S, IsFiniteSet(S), NEW F, NEW G, NEW H, IntegersOn(F, S), IntegersOn(G, S),
           \A x \in S : H[x] = F[x] + G[x]
    PROVE  SumFunctionOnSet(H, S) = SumFunctionOnSet(F, S) + SumFunctionOnSet(G, S)
<1>1. IntegersOn(H, S)
  BY DEF IntegersOn
<1>2. PICK f : AddsUp(f, F, S) /\ SumFunctionOnSet(F, S) = f[S]
  BY SumIs
<1>3. PICK g : AddsUp(g, G, S) /\ SumFunctionOnSet(G, S) = g[S]
  BY SumIs
<1>4. PICK h : AddsUp(h, H, S) /\ SumFunctionOnSet(H, S) = h[S]
  BY <1>1, SumIs
<1> DEFINE P == {s \in SUBSET S : h[s] = f[s] + g[s]}
<1>5. ASSUME NEW s \in SUBSET S, \A x \in s : s \ {x} \in P PROVE s \in P
  <2>1. CASE s = {}
    BY <1>2, <1>3, <1>4, <2>1 DEF AddsUp
  <2>2. CASE s # {}
    <3>1. PICK x \in s : TRUE
      BY <2>2
    <3>2. h[s] = H[x] + h[s \ {x}] /\ f[s] = F[x] + f[s \ {x}] /\ g[s] = G[x] + g[s \ {x}]
      BY <1>2, <1>3, <1>4 DEF AddsUp
    <3>3. h[s \ {x}] = f[s \ {x}] + g[s \ {x}] /\ H[x] = F[x] + G[x]
      BY <1>5
    <3>4. /\ f[s \ {x}] \in Int /\ g[s \ {x}] \in Int
          /\ F[x] \in Int /\ G[x] \in Int
      BY <1>2, <1>3 DEF AddsUp, IntegersOn
    <3> QED
      BY <3>2, <3>3, <3>4
  <2> QED
    BY <2>1, <2>2
<1> HIDE DEF P
<1>6. SUBSET S \subseteq P
  BY <1>5, SubsetInduction
<1> QED
  BY <1>2, <1>3, <1>4, <1>6 DEF P

\* A sum of zeros.
LEMMA SumZero ==
    ASSUME NEW S, IsFiniteSet(S), NEW F, \A x \in S : F[x] = 0
    PROVE  SumFunctionOnSet(F, S) = 0
<1>1. IntegersOn(F, S)
  BY DEF IntegersOn
<1> DEFINE v == SumFunctionOnSet(F, S)
<1>2. v = v + v
  BY <1>1, SumPlus
<1>3. v \in Int
  BY <1>1, SumType
<1> HIDE DEF v
<1>4. v = 0
  BY <1>2, <1>3
<1> QED
  BY <1>4 DEF v

\* A sum of which only one term is not zero.
LEMMA SumOne ==
    ASSUME NEW S, IsFiniteSet(S), NEW F, NEW x \in S, F[x] \in Int,
           \A y \in S \ {x} : F[y] = 0
    PROVE  SumFunctionOnSet(F, S) = F[x]
<1>1. IsFiniteSet(S \ {x}) /\ (S \ {x}) \cup {x} = S
  BY FS_RemoveElement
<1>2. IntegersOn(F, S)
  BY DEF IntegersOn
<1>3. SumFunctionOnSet(F, S \ {x}) = 0
  BY <1>1, SumZero
<1> DEFINE T == S \ {x}
<1>4. IsFiniteSet(T) /\ x \notin T /\ T \cup {x} = S
  BY <1>1
<1>5. SumFunctionOnSet(F, T \cup {x}) = F[x] + SumFunctionOnSet(F, T)
  <2> HIDE DEF T
  <2> QED
    BY <1>2, <1>4, SumWith
<1>6. SumFunctionOnSet(F, S) = F[x] + SumFunctionOnSet(F, T)
  <2> HIDE DEF T
  <2> QED
    BY <1>4, <1>5
<1>7. F[x] + 0 = F[x]
  OBVIOUS
<1> QED
  BY <1>3, <1>6, <1>7

\* Rows and columns: a table adds up to the same either way.
LEMMA SumSwap ==
    ASSUME NEW S, IsFiniteSet(S), NEW T, IsFiniteSet(T),
           NEW M, \A x \in S : IntegersOn(M[x], T)
    PROVE  SumFunctionOnSet([x \in S |-> SumFunctionOnSet(M[x], T)], S)
             = SumFunctionOnSet([y \in T |-> SumFunctionOnSet([x \in S |-> M[x][y]], S)], T)
<1> DEFINE Row == [x \in S |-> SumFunctionOnSet(M[x], T)]
           Column(y) == [x \in S |-> M[x][y]]
           Part(s) == [y \in T |-> SumFunctionOnSet(Column(y), s)]
           P == {s \in SUBSET S : SumFunctionOnSet(Row, s) = SumFunctionOnSet(Part(s), T)}
<1>1. \A s \in SUBSET S : IsFiniteSet(s)
  BY FS_Subset
<1>2. IntegersOn(Row, S)
  BY SumType DEF IntegersOn
<1>3. \A y \in T : IntegersOn(Column(y), S)
  BY DEF IntegersOn
<1>4. \A s \in SUBSET S : IntegersOn(Part(s), T)
  <2> SUFFICES ASSUME NEW s \in SUBSET S, NEW y \in T
               PROVE  SumFunctionOnSet(Column(y), s) \in Int
    BY DEF IntegersOn
  <2>1. IsFiniteSet(s) /\ IntegersOn(Column(y), s)
    BY <1>1, <1>3 DEF IntegersOn
  <2> HIDE DEF Column
  <2> QED
    BY <2>1, SumType
<1>5. ASSUME NEW s \in SUBSET S, \A x \in s : s \ {x} \in P PROVE s \in P
  <2>1. CASE s = {}
    <3>1. \A y \in T : Part({})[y] = 0
      BY SumEmpty
    <3>2. SumFunctionOnSet(Part({}), T) = 0
      <4> HIDE DEF Part
      <4> QED
        BY <3>1, SumZero
    <3> QED
      BY <2>1, <3>2, SumEmpty
  <2>2. CASE s # {}
    <3>1. PICK x \in s : TRUE
      BY <2>2
    <3> DEFINE r == s \ {x}
    <3>2. r \in SUBSET S /\ IsFiniteSet(r) /\ x \notin r /\ r \cup {x} = s /\ x \in S
      BY <1>1
    <3>3. SumFunctionOnSet(Row, s) = Row[x] + SumFunctionOnSet(Row, r)
      <4>1. IntegersOn(Row, r \cup {x})
        BY <1>2, <3>2 DEF IntegersOn
      <4> HIDE DEF r, Row
      <4> QED
        BY <3>2, <4>1, SumWith
    <3>4. SumFunctionOnSet(Row, r) = SumFunctionOnSet(Part(r), T)
      BY <1>5
    <3>5. \A y \in T : Part(s)[y] = M[x][y] + Part(r)[y]
      <4> SUFFICES ASSUME NEW y \in T
                   PROVE  SumFunctionOnSet(Column(y), s)
                            = M[x][y] + SumFunctionOnSet(Column(y), r)
        OBVIOUS
      <4>1. IntegersOn(Column(y), r \cup {x}) /\ Column(y)[x] = M[x][y]
        BY <1>3, <3>2 DEF IntegersOn
      <4> HIDE DEF r, Column
      <4> QED
        BY <3>2, <4>1, SumWith
    <3>6. SumFunctionOnSet(Part(s), T) = SumFunctionOnSet(M[x], T) + SumFunctionOnSet(Part(r), T)
      <4>1. IntegersOn(M[x], T) /\ IntegersOn(Part(r), T)
        BY <1>4, <3>2
      <4> HIDE DEF r, Part
      <4> QED
        BY <3>5, <4>1, SumPlus
    <3>7. Row[x] = SumFunctionOnSet(M[x], T)
      BY <3>2
    <3> HIDE DEF r, Row, Part
    <3> QED
      BY <3>3, <3>4, <3>6, <3>7
  <2> QED
    BY <2>1, <2>2
<1> HIDE DEF P
<1>6. SUBSET S \subseteq P
  BY <1>5, SubsetInduction
<1>7. S \in P
  BY <1>6
<1> QED
  BY <1>7 DEF P

\* The elements left out of a sum may as well be added as zeros.
LEMMA SumWithin ==
    ASSUME NEW S, IsFiniteSet(S), NEW T \in SUBSET S, NEW F, IntegersOn(F, T),
           NEW G, \A x \in S : G[x] = IF x \in T THEN F[x] ELSE 0
    PROVE  SumFunctionOnSet(G, S) = SumFunctionOnSet(F, T)
<1>1. IsFiniteSet(T)
  BY FS_Subset
<1>2. IntegersOn(G, S)
  BY DEF IntegersOn
<1>3. PICK h : AddsUp(h, F, T) /\ SumFunctionOnSet(F, T) = h[T]
  BY <1>1, SumIs
<1>4. PICK k : AddsUp(k, G, S) /\ SumFunctionOnSet(G, S) = k[S]
  BY <1>2, SumIs
<1> DEFINE g == [s \in SUBSET S |-> h[s \cap T]]
<1>5. AddsUp(g, G, S)
  <2>1. g[{}] = 0
    <3>1. {} \cap T = {} /\ {} \in SUBSET S
      OBVIOUS
    <3> QED
      BY <1>3, <3>1 DEF AddsUp
  <2>2. ASSUME NEW s \in SUBSET S PROVE g[s] \in Int /\ s \cap T \in SUBSET T /\ g[s] = h[s \cap T]
    BY <1>3 DEF AddsUp
  <2>3. ASSUME NEW s \in SUBSET S, NEW x \in s PROVE g[s] = G[x] + g[s \ {x}]
    <3>1. s \ {x} \in SUBSET S /\ g[s \ {x}] = h[(s \ {x}) \cap T] /\ g[s \ {x}] \in Int
      <4>1. s \ {x} \in SUBSET S
        OBVIOUS
      <4> QED
        BY <2>2, <4>1
    <3>2. CASE x \in T
      <4>1. (s \ {x}) \cap T = (s \cap T) \ {x} /\ x \in s \cap T
        BY <3>2
      <4>2. h[s \cap T] = F[x] + h[(s \cap T) \ {x}]
        BY <1>3, <2>2, <4>1 DEF AddsUp
      <4> HIDE DEF g
      <4> QED
        BY <2>2, <3>1, <3>2, <4>1, <4>2
    <3>3. CASE x \notin T
      <4>1. (s \ {x}) \cap T = s \cap T
        BY <3>3
      <4>2. G[x] = 0
        BY <3>3
      <4> HIDE DEF g
      <4>3. g[s] = g[s \ {x}]
        BY <2>2, <3>1, <4>1
      <4>4. g[s \ {x}] = 0 + g[s \ {x}]
        BY <3>1
      <4> QED
        BY <4>2, <4>3, <4>4
    <3> QED
      BY <3>2, <3>3
  <2> HIDE DEF g
  <2> QED
    BY <2>1, <2>2, <2>3 DEF AddsUp
<1>6. k[S] = g[S]
  <2> HIDE DEF g
  <2> QED
    BY <1>4, <1>5, SumUnique
<1>7. g[S] = h[T]
  <2>1. S \cap T = T /\ S \in SUBSET S
    OBVIOUS
  <2> QED
    BY <2>1
<1> QED
  BY <1>3, <1>4, <1>6, <1>7

\* A sum of ones counts.
LEMMA SumCount ==
    ASSUME NEW S, IsFiniteSet(S), NEW F, \A x \in S : F[x] = 1
    PROVE  SumFunctionOnSet(F, S) = Cardinality(S)
<1> DEFINE P == {s \in SUBSET S : SumFunctionOnSet(F, s) = Cardinality(s)}
<1>1. ASSUME NEW s \in SUBSET S, \A x \in s : s \ {x} \in P PROVE s \in P
  <2>1. CASE s = {}
    BY <2>1, SumEmpty, FS_EmptySet
  <2>2. CASE s # {}
    <3>1. PICK x : x \in s
      BY <2>2
    <3> DEFINE r == s \ {x}
    <3>2. IsFiniteSet(s) /\ IsFiniteSet(r) /\ r \cup {x} = s /\ x \notin r
      BY <3>1, FS_Subset
    <3>3. IntegersOn(F, r \cup {x}) /\ F[x] = 1
      BY <3>1, <3>2 DEF IntegersOn
    <3>4. SumFunctionOnSet(F, r) = Cardinality(r)
      BY <1>1, <3>1
    <3>5. Cardinality(r) = Cardinality(s) - 1 /\ Cardinality(s) \in Nat
      BY <3>1, <3>2, FS_RemoveElement, FS_CardinalityType
    <3> HIDE DEF r
    <3>6. SumFunctionOnSet(F, r \cup {x}) = F[x] + SumFunctionOnSet(F, r)
      BY <3>2, <3>3, SumWith
    <3>7. SumFunctionOnSet(F, s) = 1 + Cardinality(r)
      BY <3>2, <3>3, <3>4, <3>6
    <3>8. SumFunctionOnSet(F, s) = Cardinality(s)
      BY <3>5, <3>7
    <3> QED
      BY <3>8
  <2> QED
    BY <2>1, <2>2
<1> HIDE DEF P
<1>2. SUBSET S \subseteq P
  BY <1>1, SubsetInduction
<1> QED
  BY <1>2 DEF P

\* Summing the groups of a table and then the sums is summing the table: K tells
\* which group an element is in.
LEMMA SumGroups ==
    ASSUME NEW S, IsFiniteSet(S), NEW F, IntegersOn(F, S), NEW K,
           NEW V, \A g \in {K[x] : x \in S} :
                     V[g] = SumFunctionOnSet(F, {x \in S : K[x] = g})
    PROVE  SumFunctionOnSet(V, {K[x] : x \in S}) = SumFunctionOnSet(F, S)
<1> DEFINE G == {K[x] : x \in S}
           M == [x \in S |-> [g \in G |-> IF K[x] = g THEN F[x] ELSE 0]]
           Down == [g \in G |-> SumFunctionOnSet([x \in S |-> M[x][g]], S)]
           Across == [x \in S |-> SumFunctionOnSet(M[x], G)]
<1>1. IsFiniteSet(G)
  <2> DEFINE f == [x \in S |-> K[x]]
  <2>1. f \in [S -> G] /\ \A g \in G : \E x \in S : f[x] = g
    OBVIOUS
  <2> HIDE DEF f, G
  <2>2. f \in Surjection(S, G)
    BY <2>1, Fun_IsSurj
  <2> QED
    BY <2>2, FS_Surjection
<1>2. \A x \in S : /\ \A g \in G : M[x][g] = IF K[x] = g THEN F[x] ELSE 0
                  /\ IntegersOn(M[x], G) /\ K[x] \in G
  BY DEF IntegersOn
<1>3. SumFunctionOnSet(Across, S) = SumFunctionOnSet(Down, G)
  <2> HIDE DEF M, G
  <2> QED
    BY <1>1, <1>2, SumSwap
<1>4. ASSUME NEW x \in S PROVE Across[x] = F[x]
  <2>1. M[x][K[x]] = F[x] /\ F[x] \in Int /\ \A g \in G \ {K[x]} : M[x][g] = 0
    BY <1>2 DEF IntegersOn
  <2> HIDE DEF M, G
  <2>2. SumFunctionOnSet(M[x], G) = F[x]
    BY <1>1, <1>2, <2>1, SumOne
  <2> QED
    BY <2>2
<1>5. ASSUME NEW g \in G PROVE Down[g] = V[g]
  <2> DEFINE T == {x \in S : K[x] = g}
             D == [x \in S |-> M[x][g]]
  <2>1. T \in SUBSET S /\ IntegersOn(F, T)
    BY DEF IntegersOn
  <2>2. \A x \in S : D[x] = IF x \in T THEN F[x] ELSE 0
    BY <1>2
  <2>3. Down[g] = SumFunctionOnSet(D, S) /\ V[g] = SumFunctionOnSet(F, T)
    OBVIOUS
  <2> HIDE DEF D, T, Down
  <2>4. SumFunctionOnSet(D, S) = SumFunctionOnSet(F, T)
    BY <2>1, <2>2, SumWithin
  <2> QED
    BY <2>3, <2>4
<1>6. SumFunctionOnSet(Across, S) = SumFunctionOnSet(F, S)
  <2>1. IntegersOn(Across, S)
    BY <1>4 DEF IntegersOn
  <2> HIDE DEF Across
  <2> QED
    BY <1>4, <2>1, SumSame
<1>7. SumFunctionOnSet(Down, G) = SumFunctionOnSet(V, G)
  <2>1. IntegersOn(Down, G)
    <3>1. ASSUME NEW g \in G PROVE Down[g] \in Int
      <4> DEFINE D == [x \in S |-> M[x][g]]
      <4>1. IntegersOn(D, S)
        BY <1>2 DEF IntegersOn
      <4>2. Down[g] = SumFunctionOnSet(D, S)
        OBVIOUS
      <4> HIDE DEF D, Down
      <4> QED
        BY <4>1, <4>2, SumType
    <3> HIDE DEF Down
    <3> QED
      BY <3>1 DEF IntegersOn
  <2> HIDE DEF Down, G
  <2> QED
    BY <1>1, <1>5, <2>1, SumSame
<1> QED
  BY <1>3, <1>6, <1>7
=============================================================================
