--------------------------- MODULE ListingProofs ----------------------------
(***************************************************************************)
(* That a finite set of numbers can be listed in order, or has a first     *)
(* member, is an induction.  It is replaced here by counting               *)
(* (RanksAreTaken): under a strict total order the number of predecessors  *)
(* is an injection of the set into 0 .. n - 1, and so takes every value.   *)
(***************************************************************************)
EXTENDS Listing, FiniteSetTheorems, TLAPS

\* Before[i] is the set of predecessors of i under a strict total order on a
\* finite set: every number below the size of the set is the rank of a member.
LEMMA RanksAreTaken ==
  ASSUME NEW S, IsFiniteSet(S), NEW Before \in [S -> SUBSET S],
         \A i \in S : i \notin Before[i],
         \A i, j \in S : i = j \/ i \in Before[j] \/ j \in Before[i],
         \A i, j \in S : i \in Before[j] => Before[i] \subseteq Before[j]
  PROVE  \A k \in 1 .. Cardinality(S) :
           \E i \in S : Cardinality(Before[i]) = k - 1
<1> DEFINE n == Cardinality(S)
           rank == [i \in S |-> Cardinality(Before[i]) + 1]
<1>1. n \in Nat
  BY FS_CardinalityType
<1>2. \A i \in S : /\ Before[i] \in SUBSET S
                   /\ IsFiniteSet(Before[i])
                   /\ Cardinality(Before[i]) \in Nat
  BY FS_Subset, FS_CardinalityType
<1>3. \A i \in S : Cardinality(Before[i]) < n
  <2> SUFFICES ASSUME NEW i \in S
               PROVE  Cardinality(Before[i]) < n
    OBVIOUS
  <2>1. Cardinality(Before[i]) <= n /\ (n = Cardinality(Before[i]) => S = Before[i])
    BY <1>2, FS_Subset
  <2> QED
    BY <1>1, <1>2, <2>1
<1>4. \A i, j \in S : i \in Before[j] => Cardinality(Before[i]) < Cardinality(Before[j])
  <2> SUFFICES ASSUME NEW i \in S, NEW j \in S, i \in Before[j]
               PROVE  Cardinality(Before[i]) < Cardinality(Before[j])
    OBVIOUS
  <2>1. Before[i] \in SUBSET Before[j]
    OBVIOUS
  <2>2. /\ Cardinality(Before[i]) <= Cardinality(Before[j])
        /\ Cardinality(Before[j]) = Cardinality(Before[i]) => Before[j] = Before[i]
    BY <1>2, <2>1, FS_Subset
  <2> QED
    BY <1>2, <2>2
<1>5. rank \in [S -> 1 .. n]
  BY <1>1, <1>2, <1>3
<1>6. \A i, j \in S : rank[i] = rank[j] => i = j
  BY <1>2, <1>4
<1>7. rank \in Injection(S, 1 .. n)
  BY <1>5, <1>6 DEF Injection, IsInjective
<1>8. IsFiniteSet(1 .. n) /\ Cardinality(1 .. n) = n
  BY <1>1, FS_Interval
<1> HIDE DEF rank
<1>9. rank \in Surjection(S, 1 .. n)
  BY <1>7, <1>8, FS_Injection
<1>10. \A k \in 1 .. n : \E i \in S : rank[i] = k
  BY <1>9 DEF Surjection
<1> QED
  BY <1>2, <1>10 DEF rank

\* A finite set of numbers can be listed in order, and InOrder does.
LEMMA InOrderLists ==
  ASSUME NEW S \in SUBSET Nat, IsFiniteSet(S)
  PROVE  /\ InOrder(S) \in [1 .. Cardinality(S) -> S]
         /\ \A j, k \in 1 .. Cardinality(S) :
              j < k => InOrder(S)[j] < InOrder(S)[k]
<1> DEFINE n == Cardinality(S)
           Before == [i \in S |-> {j \in S : j < i}]
           list == InOrder(S)
<1>1. \A k \in 1 .. n : \E i \in S : Cardinality(Before[i]) = k - 1
  <2>1. /\ Before \in [S -> SUBSET S]
        /\ \A i \in S : i \notin Before[i]
        /\ \A i, j \in S : i = j \/ i \in Before[j] \/ j \in Before[i]
        /\ \A i, j \in S : i \in Before[j] => Before[i] \subseteq Before[j]
    <3>1. S \subseteq Int
      OBVIOUS
    <3>2. Before \in [S -> SUBSET S] /\ \A i \in S : i \notin Before[i]
      BY <3>1
    <3>3. \A i, j \in S : i = j \/ i \in Before[j] \/ j \in Before[i]
      BY <3>1
    <3>4. \A i, j \in S : i \in Before[j] => Before[i] \subseteq Before[j]
      <4> SUFFICES ASSUME NEW i \in S, NEW j \in S, i < j, NEW m \in S, m < i
                   PROVE  m < j
        OBVIOUS
      <4> QED
        BY <3>1
    <3> QED
      BY <3>2, <3>3, <3>4
  <2> HIDE DEF Before
  <2> QED
    BY <2>1, RanksAreTaken
<1>2. \A k \in 1 .. n : list[k] \in S /\ Cardinality(Before[list[k]]) = k - 1
  <2> SUFFICES ASSUME NEW k \in 1 .. n
               PROVE  list[k] \in S /\ Cardinality(Before[list[k]]) = k - 1
    OBVIOUS
  <2> DEFINE P(i) == Cardinality({j \in S : j < i}) = k - 1
  <2>1. list[k] = CHOOSE i \in S : P(i)
    BY DEF InOrder
  <2>2. \A i \in S : P(i) <=> Cardinality(Before[i]) = k - 1
    OBVIOUS
  <2> HIDE DEF list, Before, P
  <2>3. \E i \in S : P(i)
    BY <1>1, <2>2
  <2>4. list[k] \in S /\ P(list[k])
    BY <2>1, <2>3
  <2> QED
    BY <2>2, <2>4
<1>3. list \in [1 .. n -> S]
  <2> DEFINE g(k) == CHOOSE i \in S : Cardinality({j \in S : j < i}) = k - 1
  <2>1. list = [k \in 1 .. n |-> g(k)]
    BY DEF InOrder
  <2> HIDE DEF g, list
  <2>2. list = [k \in 1 .. n |-> list[k]]
    BY <2>1
  <2> QED
    BY <1>2, <2>2
<1>4. \A j, k \in 1 .. n : j < k => list[j] < list[k]
  <2> SUFFICES ASSUME NEW j \in 1 .. n, NEW k \in 1 .. n, j < k,
                      ~(list[j] < list[k])
               PROVE  FALSE
    OBVIOUS
  <2>1. list[j] \in S /\ list[k] \in S /\ list[j] \in Nat /\ list[k] \in Nat
    BY <1>2
  <2>2. Before[list[k]] \in SUBSET Before[list[j]]
    <3>1. ASSUME NEW u \in S, NEW v \in S, ~(u < v)
          PROVE  Before[v] \in SUBSET Before[u]
      <4> SUFFICES ASSUME NEW m \in S, m < v
                   PROVE  m < u
        OBVIOUS
      <4> QED
        BY <3>1
    <3> HIDE DEF list, Before
    <3> QED
      BY <2>1, <3>1
  <2>3. IsFiniteSet(Before[list[j]])
    BY <2>1, FS_Subset
  <2>4. Cardinality(Before[list[k]]) <= Cardinality(Before[list[j]])
    BY <2>2, <2>3, FS_Subset
  <2>5. n \in Nat
    BY FS_CardinalityType
  <2> HIDE DEF list, Before
  <2> QED
    BY <1>2, <2>4, <2>5
<1> QED
  BY <1>3, <1>4

\* InOrder lists every member, once.
LEMMA InOrderBijection ==
  ASSUME NEW S \in SUBSET Nat, IsFiniteSet(S)
  PROVE  /\ \A j, k \in 1 .. Cardinality(S) : InOrder(S)[j] = InOrder(S)[k] => j = k
         /\ \A i \in S : \E k \in 1 .. Cardinality(S) : InOrder(S)[k] = i
<1> DEFINE n == Cardinality(S)
           f == InOrder(S)
<1>1. n \in Nat
  BY FS_CardinalityType
<1>2. f \in [1 .. n -> S] /\ \A j, k \in 1 .. n : j < k => f[j] < f[k]
  BY InOrderLists
<1> HIDE DEF f
<1>3. \A j, k \in 1 .. n : f[j] = f[k] => j = k
  <2> SUFFICES ASSUME NEW j \in 1 .. n, NEW k \in 1 .. n, j # k
               PROVE  f[j] # f[k]
    OBVIOUS
  <2>1. j < k \/ k < j
    BY <1>1
  <2>2. f[j] \in Nat /\ f[k] \in Nat
    BY <1>2
  <2> QED
    BY <1>2, <2>1, <2>2
<1>4. f \in Injection(1 .. n, S)
  BY <1>2, <1>3 DEF Injection, IsInjective
<1>5. Cardinality(1 .. n) = n
  BY <1>1, FS_Interval
<1>6. f \in Surjection(1 .. n, S)
  BY <1>4, <1>5, FS_Injection
<1> QED
  BY <1>3, <1>6 DEF Surjection, f

\* What is kept of a sequence, and how much of it.
LEMMA KeepLists ==
  ASSUME NEW T, NEW s \in Seq(T), NEW S \in SUBSET DOMAIN s
  PROVE  /\ IsFiniteSet(S) /\ Cardinality(S) \in Nat
         /\ Keep(s, S) \in Seq({s[i] : i \in S})
         /\ Len(Keep(s, S)) = Cardinality(S)
<1> DEFINE n == Cardinality(S)
           f == InOrder(S)
<1>1. DOMAIN s = 1 .. Len(s) /\ Len(s) \in Nat
  OBVIOUS
<1>2. S \in SUBSET Nat /\ IsFiniteSet(S)
  <2>1. IsFiniteSet(DOMAIN s)
    BY <1>1, FS_Interval
  <2> QED
    BY <1>1, <2>1, FS_Subset
<1>3. n \in Nat
  BY <1>2, FS_CardinalityType
<1>4. f \in [1 .. n -> S]
  BY <1>2, InOrderLists
<1>5. Keep(s, S) = [k \in DOMAIN f |-> s[f[k]]]
  BY DEF Keep
<1> HIDE DEF f, n
<1>6. Keep(s, S) \in [1 .. n -> {s[i] : i \in S}]
  BY <1>4, <1>5
<1> QED
  BY <1>2, <1>3, <1>6 DEF n

\* How many entries of a sequence are at most a.
Num(s, a) == Cardinality({i \in DOMAIN s : s[i] <= a})

\* Keeping some entries keeps the count of those.
LEMMA KeepCounts ==
  ASSUME NEW T, NEW s \in Seq(T), NEW S \in SUBSET DOMAIN s, NEW a
  PROVE  Num(Keep(s, S), a) = Cardinality({i \in S : s[i] <= a})
<1> DEFINE n == Cardinality(S)
           f == InOrder(S)
           A == {k \in DOMAIN Keep(s, S) : Keep(s, S)[k] <= a}
           B == {i \in S : s[i] <= a}
<1>1. DOMAIN s = 1 .. Len(s) /\ Len(s) \in Nat
  OBVIOUS
<1>2. S \in SUBSET Nat /\ IsFiniteSet(S)
  <2>1. IsFiniteSet(DOMAIN s)
    BY <1>1, FS_Interval
  <2> QED
    BY <1>1, <2>1, FS_Subset
<1>3. n \in Nat
  BY <1>2, FS_CardinalityType
<1>4. f \in [1 .. n -> S]
  BY <1>2, InOrderLists
<1>5. Keep(s, S) = [k \in DOMAIN f |-> s[f[k]]]
  BY DEF Keep
<1>6. /\ \A j, k \in 1 .. n : f[j] = f[k] => j = k
      /\ \A i \in S : \E k \in 1 .. n : f[k] = i
  BY <1>2, InOrderBijection
<1> HIDE DEF f
<1>7. A = {k \in 1 .. n : s[f[k]] <= a}
  BY <1>4, <1>5
<1> DEFINE g == [k \in A |-> f[k]]
<1>8. g \in [A -> B]
  BY <1>4, <1>7
<1>9. \A j, k \in A : g[j] = g[k] => j = k
  BY <1>6, <1>7
<1>10. \A i \in B : \E k \in A : g[k] = i
  BY <1>6, <1>7
<1> HIDE DEF g, A, B
<1>11. g \in Bijection(A, B)
  BY <1>8, <1>9, <1>10 DEF Bijection, Injection, Surjection, IsInjective
<1>12. IsFiniteSet(A)
  <2>1. IsFiniteSet(1 .. n)
    BY <1>3, FS_Interval
  <2> QED
    BY <1>7, <2>1, FS_Subset
<1>13. Cardinality(B) = Cardinality(A)
  BY <1>11, <1>12, FS_Bijection DEF ExistsBijection
<1> QED
  BY <1>13 DEF Num, A, B

\* Sequences over a larger set, and from a function.
LEMMA SeqWider ==
  ASSUME NEW T, NEW U, T \subseteq U, NEW s \in Seq(T)
  PROVE  s \in Seq(U)
<1>1. /\ Len(s) \in Nat /\ DOMAIN s = 1 .. Len(s) /\ s = [i \in 1 .. Len(s) |-> s[i]]
      /\ \A i \in 1 .. Len(s) : s[i] \in U
  OBVIOUS
<1> QED
  BY <1>1

LEMMA SeqMade ==
  ASSUME NEW T, NEW n \in Nat, NEW f \in [1 .. n -> T]
  PROVE  f \in Seq(T) /\ DOMAIN f = 1 .. n
OBVIOUS

\* A count of entries is a number, and grows with the limit.
LEMMA NumType ==
  ASSUME NEW s \in Seq(Int), NEW a \in Int, NEW b \in Int, a <= b
  PROVE  /\ IsFiniteSet({i \in DOMAIN s : s[i] <= a})
         /\ Num(s, a) \in Nat /\ Num(s, a) <= Num(s, b)
<1> DEFINE A == {i \in DOMAIN s : s[i] <= a}
           B == {i \in DOMAIN s : s[i] <= b}
<1>1. Len(s) \in Nat /\ DOMAIN s = 1 .. Len(s)
  OBVIOUS
<1>2. IsFiniteSet(DOMAIN s)
  BY <1>1, FS_Interval
<1>3. A \subseteq B /\ A \subseteq DOMAIN s /\ B \subseteq DOMAIN s
  BY <1>1
<1>4. IsFiniteSet(A) /\ IsFiniteSet(B)
  BY <1>2, <1>3, FS_Subset
<1>5. Cardinality(A) \in Nat /\ Cardinality(A) <= Cardinality(B)
  BY <1>3, <1>4, FS_Subset, FS_CardinalityType
<1> QED
  BY <1>4, <1>5 DEF Num

\* Nothing is counted of an empty sequence, or below the smallest entry.
LEMMA NumNone ==
  ASSUME NEW s \in Seq(Int), NEW a \in Int, \A i \in DOMAIN s : s[i] > a
  PROVE  Num(s, a) = 0
<1>1. {i \in DOMAIN s : s[i] <= a} = {}
  OBVIOUS
<1> QED
  BY <1>1, FS_EmptySet DEF Num

\* Everything is counted up to the largest entry.
LEMMA NumAll ==
  ASSUME NEW s \in Seq(Int), NEW a \in Int, \A i \in DOMAIN s : s[i] <= a
  PROVE  Num(s, a) = Len(s)
<1>1. Len(s) \in Nat /\ DOMAIN s = 1 .. Len(s)
  OBVIOUS
<1>2. {i \in DOMAIN s : s[i] <= a} = 1 .. Len(s)
  BY <1>1
<1>3. Cardinality(1 .. Len(s)) = Len(s)
  BY <1>1, FS_Interval
<1> QED
  BY <1>2, <1>3 DEF Num

\* One more entry that counts.
LEMMA NumAppend ==
  ASSUME NEW s \in Seq(Int), NEW x \in Int, NEW a \in Int, x <= a
  PROVE  Num(Append(s, x), a) = Num(s, a) + 1
<1> DEFINE t == Append(s, x)
           n == Len(s) + 1
           A == {i \in DOMAIN s : s[i] <= a}
           B == {i \in DOMAIN t : t[i] <= a}
<1>1. /\ Len(s) \in Nat /\ DOMAIN s = 1 .. Len(s) /\ DOMAIN t = 1 .. n
      /\ t[n] = x /\ \A i \in 1 .. Len(s) : t[i] = s[i]
  OBVIOUS
<1>2. B = A \cup {n} /\ n \notin A
  <2>1. DOMAIN t = DOMAIN s \cup {n} /\ n \notin DOMAIN s
    BY <1>1
  <2>2. \A i \in DOMAIN s : t[i] = s[i]
    BY <1>1
  <2>3. t[n] <= a
    BY <1>1
  <2> HIDE DEF t, n
  <2>4. ASSUME NEW i PROVE i \in B <=> i \in A \cup {n}
    BY <2>1, <2>2, <2>3
  <2> QED
    BY <2>1, <2>4
<1>3. IsFiniteSet(A) /\ Num(s, a) \in Nat
  <2>1. a <= a
    OBVIOUS
  <2> QED
    BY <2>1, NumType
<1> HIDE DEF A, B
<1>4. Cardinality(B) = Cardinality(A) + 1
  BY <1>2, <1>3, FS_AddElement
<1> QED
  BY <1>4 DEF Num, A, B

\* Two sequences of which the same entries count.
LEMMA NumSame ==
  ASSUME NEW s, NEW t, NEW a, NEW b, DOMAIN s = DOMAIN t,
         \A i \in DOMAIN s : s[i] <= a <=> t[i] <= b
  PROVE  Num(s, a) = Num(t, b)
<1>1. {i \in DOMAIN s : s[i] <= a} = {i \in DOMAIN t : t[i] <= b}
  OBVIOUS
<1> QED
  BY <1>1 DEF Num

=============================================================================
