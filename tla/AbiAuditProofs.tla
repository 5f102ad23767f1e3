--------------------------- MODULE AbiAuditProofs ---------------------------
(***************************************************************************)
(* What the macros and the audit are worth for functions of any length.    *)
(* Where the blocks of a function begin is settled first, by induction     *)
(* over their number; then, instruction by instruction, what the machine   *)
(* does with a leaf and with a function the macros have framed.            *)
(***************************************************************************)
EXTENDS AbiAudit, WellFoundedInduction, TLAPS

(* A non-empty set of naturals has a least element.                        *)
LEMMA LeastNat ==
    ASSUME NEW T \in SUBSET Nat, T # {}
    PROVE  \E x \in T : \A y \in T : x <= y
  <1> DEFINE R == {s \in Nat \X Nat : s[1] < s[2]}
  <1>1. PICK x \in T : \A y \in T : <<y, x>> \notin R
    <2>1. IsWellFoundedOn(R, Nat)
      BY NatLessThanWellFounded DEF OpToRel
    <2> HIDE DEF R
    <2> QED BY <2>1, WFMin
  <1>2. ASSUME NEW y \in T PROVE x <= y
    <2>1. <<y, x>> \in Nat \X Nat
      OBVIOUS
    <2>2. ~(y < x)
      BY <1>1, <2>1
    <2> QED BY <2>2
  <1> QED BY <1>2

(* Induction over the naturals, the property given as a set.               *)
LEMMA SetInduction ==
    ASSUME NEW S, 0 \in S, \A n \in Nat : n \in S => n + 1 \in S
    PROVE  Nat \subseteq S
  <1> SUFFICES ASSUME NEW T, T = Nat \ S, T # {} PROVE FALSE
    BY Zenon
  <1>1. PICK x \in T : \A y \in T : x <= y
    BY LeastNat
  <1>2. x \in Nat /\ x \notin S /\ x # 0
    OBVIOUS
  <1>3. x - 1 \in Nat /\ x - 1 \notin T
    BY <1>1, <1>2
  <1>4. x - 1 \in S /\ (x - 1) + 1 = x
    BY <1>2, <1>3
  <1> QED BY <1>2, <1>3, <1>4

(* The function inside FlattenSeq: its i-th value is the first i sequences *)
(* put together.                                                           *)
Runs(s, f, m) == f = [i \in 1 .. m |-> IF i = 1 THEN s[i] ELSE f[i - 1] \o s[i]]

(* Each of its values comes from the one before.                           *)
LEMMA RunsAt ==
    ASSUME NEW s, NEW f, NEW m \in Nat, Runs(s, f, m), NEW i \in 1 .. m
    PROVE  f[i] = IF i = 1 THEN s[i] ELSE f[i - 1] \o s[i]
  <1> DEFINE v(j) == IF j = 1 THEN s[j] ELSE f[j - 1] \o s[j]
  <1>1. f = [j \in 1 .. m |-> v(j)]
    BY DEF Runs
  <1> HIDE DEF v
  <1>2. f[i] = v(i)
    BY <1>1
  <1> QED BY <1>2 DEF v

(* There is such a function.                                               *)
LEMMA RunsExist ==
    ASSUME NEW s, NEW m \in Nat
    PROVE  \E f : Runs(s, f, m)
  <1> DEFINE S == {n \in Nat : \E f : Runs(s, f, n)}
  <1>1. 0 \in S
    <2>1. Runs(s, << >>, 0)
      BY DEF Runs
    <2> QED BY <2>1
  <1>2. ASSUME NEW n \in Nat, n \in S PROVE n + 1 \in S
    <2>1. PICK f : Runs(s, f, n)
      BY <1>2
    <2> DEFINE g == [i \in 1 .. (n + 1) |->
                       IF i <= n THEN f[i] ELSE IF i = 1 THEN s[i] ELSE f[n] \o s[i]]
    <2>2. \A i \in 1 .. n : f[i] = IF i = 1 THEN s[i] ELSE f[i - 1] \o s[i]
      BY <2>1, RunsAt
    <2>3. ASSUME NEW i \in 1 .. (n + 1)
          PROVE  g[i] = IF i = 1 THEN s[i] ELSE g[i - 1] \o s[i]
      <3>1. CASE i = n + 1 /\ i # 1
        <4>1. i - 1 = n /\ n \in 1 .. n /\ n \in 1 .. (n + 1)
          BY <3>1
        <4>2. g[i - 1] = f[n]
          BY <4>1
        <4>3. ~(i <= n)
          BY <3>1
        <4>4. g[i] = f[n] \o s[i]
          BY <3>1, <4>3
        <4> QED BY <3>1, <4>2, <4>4
      <3>2. CASE i = 1
        BY <2>2, <3>2
      <3>3. CASE i <= n /\ i # 1
        <4>1. i - 1 \in 1 .. n /\ i - 1 \in 1 .. (n + 1)
          BY <3>3
        <4>2. g[i - 1] = f[i - 1] /\ g[i] = f[i]
          BY <3>3, <4>1
        <4>3. i \in 1 .. n
          BY <3>3
        <4>4. f[i] = f[i - 1] \o s[i]
          BY <2>2, <3>3, <4>3
        <4> HIDE DEF g
        <4> QED BY <3>3, <4>2, <4>4
      <3> QED BY <3>1, <3>2, <3>3
    <2>4. g = [i \in 1 .. (n + 1) |-> IF i = 1 THEN s[i] ELSE g[i - 1] \o s[i]]
      <3> DEFINE h == [i \in 1 .. (n + 1) |-> IF i = 1 THEN s[i] ELSE g[i - 1] \o s[i]]
      <3>1. \A i \in 1 .. (n + 1) : g[i] = h[i]
        BY <2>3
      <3>2. DOMAIN g = 1 .. (n + 1) /\ DOMAIN h = 1 .. (n + 1)
        OBVIOUS
      <3>3. g = [i \in DOMAIN g |-> g[i]] /\ h = [i \in DOMAIN h |-> h[i]]
        OBVIOUS
      <3> HIDE DEF g, h
      <3>4. g = h
        BY <3>1, <3>2, <3>3
      <3> QED BY <3>4 DEF h
    <2>5. Runs(s, g, n + 1)
      BY <2>4 DEF Runs
    <2> QED BY <2>5
  <1> HIDE DEF S
  <1>3. Nat \subseteq S
    BY <1>1, <1>2, SetInduction
  <1> QED BY <1>3 DEF S

(* Two of them agree as far as their sequences do.                         *)
LEMMA RunsAgree ==
    ASSUME NEW s, NEW t, NEW f, NEW g, NEW m \in Nat, NEW n \in Nat, m <= n,
           Runs(s, f, m), Runs(t, g, n), \A i \in 1 .. m : s[i] = t[i]
    PROVE  \A i \in 1 .. m : f[i] = g[i]
  <1> DEFINE S == {j \in Nat : j \in 1 .. m => f[j] = g[j]}
  <1>1. 0 \in S
    OBVIOUS
  <1>2. ASSUME NEW j \in Nat, j \in S PROVE j + 1 \in S
    <2>1. SUFFICES ASSUME j + 1 \in 1 .. m PROVE f[j + 1] = g[j + 1]
      OBVIOUS
    <2>2. f[j + 1] = IF j + 1 = 1 THEN s[j + 1] ELSE f[j + 1 - 1] \o s[j + 1]
      BY <2>1, RunsAt
    <2>3. g[j + 1] = IF j + 1 = 1 THEN t[j + 1] ELSE g[j + 1 - 1] \o t[j + 1]
      <3>1. j + 1 \in 1 .. n
        BY <2>1
      <3> QED BY <3>1, RunsAt
    <2>4. j + 1 - 1 = j /\ (j + 1 # 1 => j \in 1 .. m)
      BY <2>1
    <2>5. s[j + 1] = t[j + 1] /\ (j + 1 # 1 => f[j] = g[j])
      BY <1>2, <2>1, <2>4
    <2> QED BY <2>2, <2>3, <2>4, <2>5
  <1> HIDE DEF S
  <1>3. Nat \subseteq S
    BY <1>1, <1>2, SetInduction
  <1> QED BY <1>3 DEF S

(* FlattenSeq is its last value.                                           *)
LEMMA FlattenRuns ==
    ASSUME NEW s, Len(s) \in Nat, Len(s) # 0, NEW f, Runs(s, f, Len(s))
    PROVE  FlattenSeq(s) = f[Len(s)]
  <1> DEFINE flatten[i \in 1 .. Len(s)] == IF i = 1 THEN s[i] ELSE flatten[i - 1] \o s[i]
  <1>1. FlattenSeq(s) = flatten[Len(s)]
    BY DEF FlattenSeq
  <1>2. Runs(s, flatten, Len(s))
    BY DEF Runs
  <1> HIDE DEF flatten
  <1> QED BY <1>1, <1>2, RunsAgree

(* A prefix is put together by the same function.                          *)
LEMMA PrefixRuns ==
    ASSUME NEW s, NEW f, NEW l \in Nat, Runs(s, f, l),
           NEW t, NEW n \in Nat, n # 0, n <= l, Len(t) = n,
           \A i \in 1 .. n : t[i] = s[i]
    PROVE  FlattenSeq(t) = f[n]
  <1>1. PICK g : Runs(t, g, n)
    BY RunsExist
  <1>2. FlattenSeq(t) = g[n]
    BY <1>1, FlattenRuns
  <1>3. \A i \in 1 .. n : g[i] = f[i]
    BY <1>1, RunsAgree
  <1> QED BY <1>2, <1>3

(* The first k sequences put together, and where the one after them begins.*)
Pre(s, k) == FlattenSeq(SubSeq(s, 1, k))
Off(s, k) == Len(Pre(s, k))

(* Of no sequences and of all of them.                                     *)
LEMMA PreEnds ==
    ASSUME NEW s, DOMAIN s = 1 .. Len(s), Len(s) \in Nat, s = [i \in 1 .. Len(s) |-> s[i]]
    PROVE  Pre(s, 0) = << >> /\ Pre(s, Len(s)) = FlattenSeq(s)
  <1>1. Pre(s, 0) = << >>
    <2>1. SubSeq(s, 1, 0) = << >>
      OBVIOUS
    <2> QED BY <2>1 DEF Pre, FlattenSeq
  <1>2. Pre(s, Len(s)) = FlattenSeq(s)
    <2>1. SubSeq(s, 1, Len(s)) = s
      OBVIOUS
    <2> QED BY <2>1 DEF Pre
  <1> QED BY <1>1, <1>2

(* Every prefix is a value of the one function.                            *)
LEMMA PreRun ==
    ASSUME NEW Y, NEW s \in Seq(Y), NEW f, NEW l \in Nat, Len(s) = l, Runs(s, f, l),
           NEW n \in Nat, n # 0, n <= l
    PROVE  Pre(s, n) = f[n]
  <1>1. PICK t : t = SubSeq(s, 1, n)
    OBVIOUS
  <1>2. Len(t) = n /\ \A i \in 1 .. n : t[i] = s[i]
    BY <1>1
  <1>3. FlattenSeq(t) = f[n]
    BY <1>2, PrefixRuns
  <1> QED BY <1>1, <1>3 DEF Pre

(* One sequence more.                                                      *)
LEMMA PreStep ==
    ASSUME NEW X, NEW s \in Seq(Seq(X)), NEW k \in 1 .. Len(s)
    PROVE  Pre(s, k) = Pre(s, k - 1) \o s[k]
  <1>1. Len(s) \in Nat
    OBVIOUS
  <1>2. Pre(s, 0) = << >>
    BY PreEnds
  <1>3. PICK f : Runs(s, f, Len(s))
    BY <1>1, RunsExist
  <1>4. PICK l \in Nat : l = Len(s)
    BY <1>1
  <1>5. Runs(s, f, l)
    BY <1>3, <1>4
  <1>6. ASSUME NEW n \in Nat, n # 0, n <= l PROVE Pre(s, n) = f[n]
    BY <1>4, <1>5, <1>6, PreRun
  <1>7. f[k] = IF k = 1 THEN s[k] ELSE f[k - 1] \o s[k]
    BY <1>1, <1>3, RunsAt
  <1>8. CASE k = 1
    <2>1. s[k] \in Seq(X)
      OBVIOUS
    <2>2. << >> \o s[k] = s[k]
      BY <2>1
    <2> QED BY <1>2, <1>4, <1>7, <1>8, <1>6, <2>2
  <1>9. CASE k # 1
    <2>1. k - 1 \in Nat /\ k - 1 # 0 /\ k - 1 <= l /\ k # 0 /\ k <= l /\ k \in Nat
      BY <1>4, <1>9
    <2> QED BY <1>7, <1>9, <1>6, <2>1
  <1> QED BY <1>8, <1>9

(* What is put together is a sequence of the same entries.                 *)
LEMMA PreType ==
    ASSUME NEW X, NEW s \in Seq(Seq(X)), NEW m \in 0 .. Len(s)
    PROVE  Pre(s, m) \in Seq(X)
  <1> DEFINE S == {k \in Nat : k \in 0 .. Len(s) => Pre(s, k) \in Seq(X)}
  <1>1. 0 \in S
    <2>1. Pre(s, 0) = << >>
      BY PreEnds
    <2>2. << >> \in Seq(X)
      OBVIOUS
    <2> QED BY <2>1, <2>2
  <1>2. ASSUME NEW k \in Nat, k \in S PROVE k + 1 \in S
    <2> SUFFICES ASSUME k + 1 \in 0 .. Len(s) PROVE Pre(s, k + 1) \in Seq(X)
      OBVIOUS
    <2>1. k + 1 \in 1 .. Len(s) /\ k \in 0 .. Len(s) /\ (k + 1) - 1 = k
      OBVIOUS
    <2>2. Pre(s, k) \in Seq(X) /\ s[k + 1] \in Seq(X)
      BY <1>2, <2>1
    <2>3. Pre(s, k + 1) = Pre(s, k) \o s[k + 1]
      BY <2>1, PreStep
    <2> HIDE DEF S
    <2>4. Pre(s, k) \o s[k + 1] \in Seq(X)
      BY <2>2
    <2> QED BY <2>3, <2>4
  <1> HIDE DEF S
  <1>3. Nat \subseteq S
    BY <1>1, <1>2, SetInduction
  <1>4. m \in S
    BY <1>3
  <1> QED BY <1>4 DEF S

(* Where the first sequence begins and the last one ends.                  *)
LEMMA OffEnds ==
    ASSUME NEW X, NEW s \in Seq(Seq(X))
    PROVE  Off(s, 0) = 0 /\ Off(s, Len(s)) = Len(FlattenSeq(s)) /\ FlattenSeq(s) \in Seq(X)
  <1>1. Pre(s, 0) = << >> /\ Pre(s, Len(s)) = FlattenSeq(s)
    BY PreEnds
  <1>2. Len(s) \in 0 .. Len(s)
    OBVIOUS
  <1>3. Pre(s, Len(s)) \in Seq(X)
    BY <1>2, PreType
  <1> QED BY <1>1, <1>3 DEF Off

(* Where a sequence begins is a natural number.                            *)
LEMMA OffType ==
    ASSUME NEW X, NEW s \in Seq(Seq(X)), NEW k \in 0 .. Len(s)
    PROVE  Off(s, k) \in Nat
  <1>1. Pre(s, k) \in Seq(X)
    BY PreType
  <1> QED BY <1>1 DEF Off

(* A sequence takes up its length.                                         *)
LEMMA OffStep ==
    ASSUME NEW X, NEW s \in Seq(Seq(X)), NEW k \in 1 .. Len(s)
    PROVE  /\ Off(s, k) = Off(s, k - 1) + Len(s[k])
           /\ Len(s[k]) \in Nat /\ Off(s, k - 1) \in Nat /\ Off(s, k) \in Nat
  <1>1. k - 1 \in 0 .. Len(s) /\ s[k] \in Seq(X)
    OBVIOUS
  <1>2. Pre(s, k) = Pre(s, k - 1) \o s[k]
    BY PreStep
  <1>3. Pre(s, k - 1) \in Seq(X)
    BY <1>1, PreType
  <1> DEFINE p == Pre(s, k - 1)
             t == s[k]
  <1>4. p \in Seq(X) /\ t \in Seq(X)
    BY <1>1, <1>3
  <1> HIDE DEF p, t
  <1>5. Len(p \o t) = Len(p) + Len(t) /\ Len(p) \in Nat /\ Len(t) \in Nat
    BY <1>4
  <1>6. Pre(s, k) = p \o t
    BY <1>2 DEF p, t
  <1>7. Len(Pre(s, k)) = Len(p) + Len(t) /\ Len(Pre(s, k)) \in Nat
    BY <1>5, <1>6
  <1> QED BY <1>5, <1>7 DEF Off, p, t

(* A longer prefix begins with the shorter one.                            *)
LEMMA PreExtends ==
    ASSUME NEW X, NEW s \in Seq(Seq(X)), NEW k \in 0 .. Len(s), NEW m \in k .. Len(s)
    PROVE  Off(s, k) <= Off(s, m) /\ \A i \in 1 .. Off(s, k) : Pre(s, m)[i] = Pre(s, k)[i]
  <1> DEFINE Ok(n) == Off(s, k) <= Off(s, k + n)
                      /\ \A i \in 1 .. Off(s, k) : Pre(s, k + n)[i] = Pre(s, k)[i]
             S == {n \in Nat : k + n <= Len(s) => Ok(n)}
  <1>1. 0 \in S
    <2>1. k + 0 = k /\ Off(s, k) \in Nat
      BY OffStep, OffType, OffEnds
    <2> QED BY <2>1
  <1>2. ASSUME NEW n \in Nat, n \in S PROVE n + 1 \in S
    <2> SUFFICES ASSUME k + (n + 1) <= Len(s) PROVE Ok(n + 1)
      OBVIOUS
    <2> DEFINE j == k + n
    <2>1. j \in 0 .. Len(s) /\ j + 1 \in 1 .. Len(s) /\ k + (n + 1) = j + 1 /\ (j + 1) - 1 = j
      OBVIOUS
    <2>2. Off(s, k) <= Off(s, j) /\ \A i \in 1 .. Off(s, k) : Pre(s, j)[i] = Pre(s, k)[i]
      BY <1>2, <2>1
    <2> HIDE DEF j
    <2>3. /\ Off(s, k) \in Nat /\ Off(s, j) \in Nat /\ Off(s, j + 1) = Off(s, j) + Len(s[j + 1])
          /\ Len(s[j + 1]) \in Nat
      BY <2>1, OffStep, OffType, OffEnds
    <2>4. Pre(s, j + 1) = Pre(s, j) \o s[j + 1] /\ Pre(s, j) \in Seq(X) /\ s[j + 1] \in Seq(X)
      <3>1. Pre(s, j + 1) = Pre(s, (j + 1) - 1) \o s[j + 1]
        BY <2>1, PreStep
      <3>2. Pre(s, j) \in Seq(X)
        BY <2>1, PreType
      <3>3. s[j + 1] \in Seq(X)
        BY <2>1
      <3> QED BY <2>1, <3>1, <3>2, <3>3
    <2>5. \A i \in 1 .. Off(s, k) : Pre(s, j + 1)[i] = Pre(s, j)[i]
      BY <2>2, <2>3, <2>4 DEF Off
    <2>6. Off(s, k) <= Off(s, j + 1)
      BY <2>2, <2>3
    <2> QED BY <2>1, <2>2, <2>5, <2>6
  <1> HIDE DEF S
  <1>3. Nat \subseteq S
    BY <1>1, <1>2, SetInduction
  <1>4. m - k \in Nat /\ k + (m - k) = m /\ m <= Len(s)
    OBVIOUS
  <1>5. m - k \in S
    BY <1>3, <1>4
  <1>6. Ok(m - k)
    BY <1>4, <1>5 DEF S
  <1> QED BY <1>4, <1>6

(* The j-th entry of the k-th sequence, where it stands in the whole.      *)
LEMMA FlattenEntry ==
    ASSUME NEW X, NEW s \in Seq(Seq(X)), NEW k \in 1 .. Len(s), NEW j \in 1 .. Len(s[k])
    PROVE  /\ Off(s, k - 1) + j \in 1 .. Len(FlattenSeq(s))
           /\ FlattenSeq(s)[Off(s, k - 1) + j] = s[k][j]
  <1>1. /\ k - 1 \in 0 .. Len(s) /\ k \in 0 .. Len(s) /\ Len(s) \in k .. Len(s)
        /\ s[k] \in Seq(X)
    OBVIOUS
  <1>2. /\ Off(s, k - 1) \in Nat /\ Off(s, k) = Off(s, k - 1) + Len(s[k]) /\ Len(s[k]) \in Nat
        /\ Off(s, Len(s)) = Len(FlattenSeq(s))
    BY <1>1, OffStep, OffType, OffEnds
  <1>3. /\ Off(s, k) <= Off(s, Len(s))
        /\ \A i \in 1 .. Off(s, k) : Pre(s, Len(s))[i] = Pre(s, k)[i]
    BY <1>1, PreExtends
  <1>4. /\ Pre(s, k) = Pre(s, k - 1) \o s[k] /\ Pre(s, k - 1) \in Seq(X)
        /\ Pre(s, Len(s)) = FlattenSeq(s)
    <2>1. Pre(s, k) = Pre(s, k - 1) \o s[k]
      BY PreStep
    <2>2. Pre(s, k - 1) \in Seq(X)
      BY <1>1, PreType
    <2>3. Pre(s, Len(s)) = FlattenSeq(s)
      BY PreEnds
    <2> QED BY <2>1, <2>2, <2>3
  <1>5. Off(s, k - 1) + j \in 1 .. Off(s, k)
    BY <1>2
  <1>6. Pre(s, k)[Off(s, k - 1) + j] = s[k][j]
    BY <1>1, <1>2, <1>4 DEF Off
  <1>7. Off(s, Len(s)) \in Nat
    BY <1>2, PreStep, PreType, PreEnds DEF Off
  <1>8. Off(s, k - 1) + j \in 1 .. Off(s, Len(s))
    BY <1>2, <1>3, <1>5, <1>7
  <1>9. Pre(s, Len(s))[Off(s, k - 1) + j] = s[k][j]
    BY <1>3, <1>5, <1>6
  <1>10. Pre(s, Len(s)) = FlattenSeq(s)
    BY <1>4
  <1> QED BY <1>2, <1>8, <1>9, <1>10

(* Every entry of the whole is one of those.                               *)
LEMMA FlattenPlace ==
    ASSUME NEW X, NEW s \in Seq(Seq(X)), NEW i \in 1 .. Len(FlattenSeq(s))
    PROVE  \E k \in 1 .. Len(s) : \E j \in 1 .. Len(s[k]) : i = Off(s, k - 1) + j
  <1> DEFINE T == {k \in Nat : k <= Len(s) /\ i <= Off(s, k)}
  <1>1. Len(s) \in Nat /\ Off(s, 0) = 0 /\ Off(s, Len(s)) = Len(FlattenSeq(s))
    BY OffStep, OffType, OffEnds
  <1>2. T \in SUBSET Nat /\ Len(s) \in T
    BY <1>1
  <1>3. PICK k \in T : \A y \in T : k <= y
    <2> HIDE DEF T
    <2> QED BY <1>2, LeastNat
  <1>4. k \in Nat /\ k # 0 /\ k \in 1 .. Len(s) /\ k - 1 \in 0 .. Len(s)
    BY <1>1
  <1>5. k - 1 \notin T /\ k - 1 \in Nat /\ k - 1 <= Len(s)
    BY <1>3, <1>4
  <1>6. /\ Off(s, k) = Off(s, k - 1) + Len(s[k]) /\ Len(s[k]) \in Nat /\ Off(s, k - 1) \in Nat
    BY <1>4, OffStep, OffType, OffEnds
  <1>7. Off(s, k - 1) < i /\ i <= Off(s, k)
    BY <1>4, <1>5, <1>6
  <1> DEFINE j == i - Off(s, k - 1)
  <1>8. j \in 1 .. Len(s[k]) /\ i = Off(s, k - 1) + j
    BY <1>6, <1>7
  <1> QED BY <1>4, <1>8
-----------------------------------------------------------------------------
(* A function is a sequence of blocks, and Before says where they begin.   *)
LEMMA FunctionType ==
    ASSUME blocks \in Bodies
    PROVE  /\ blocks \in Seq(Seq(Instructions)) /\ Len(blocks) \in Nat \ {0}
           /\ \A k \in 1 .. Len(blocks) : blocks[k] \in Blocks
           /\ Code \in Seq(Instructions) /\ Code = FlattenSeq(blocks)
           /\ \A k : Before(k) = Off(blocks, k)
  <1>1. PICK n \in 1 .. MaxBlocks : blocks \in [1 .. n -> Blocks]
    BY DEF Bodies
  <1>2. n \in Nat \ {0}
    BY AuditAssumption
  <1>3. blocks \in Seq(Blocks) /\ Len(blocks) = n
    BY <1>1, <1>2
  <1>4. blocks \in Seq(Seq(Instructions))
    BY <1>1, <1>2, AuditAssumption
  <1>5. Code = FlattenSeq(blocks) /\ \A k : Before(k) = Off(blocks, k)
    BY DEF Code, Before, Off, Pre
  <1>6. Code \in Seq(Instructions)
    BY <1>4, <1>5, OffEnds
  <1> QED BY <1>1, <1>2, <1>3, <1>4, <1>5, <1>6

(* An instruction of the function is one of some block of it.              *)
LEMMA AtPlace ==
    ASSUME blocks \in Bodies, NEW i \in DOMAIN Code
    PROVE  \E k \in 1 .. Len(blocks) : \E j \in 1 .. Len(blocks[k]) :
               i = Before(k - 1) + j /\ Code[i] = blocks[k][j]
  <1>1. i \in 1 .. Len(FlattenSeq(blocks)) /\ blocks \in Seq(Seq(Instructions))
    BY FunctionType
  <1>2. PICK k \in 1 .. Len(blocks) : \E j \in 1 .. Len(blocks[k]) : i = Off(blocks, k - 1) + j
    BY <1>1, FlattenPlace
  <1>3. PICK j \in 1 .. Len(blocks[k]) : i = Off(blocks, k - 1) + j
    BY <1>2
  <1>4. FlattenSeq(blocks)[Off(blocks, k - 1) + j] = blocks[k][j]
    BY <1>1, FlattenEntry
  <1> QED BY <1>3, <1>4, FunctionType

(* And the other way round.                                                *)
LEMMA PlaceInCode ==
    ASSUME blocks \in Bodies, NEW k \in 1 .. Len(blocks), NEW j \in 1 .. Len(blocks[k])
    PROVE  Before(k - 1) + j \in DOMAIN Code /\ Code[Before(k - 1) + j] = blocks[k][j]
  <1>1. blocks \in Seq(Seq(Instructions))
    BY FunctionType
  <1>2. /\ Off(blocks, k - 1) + j \in 1 .. Len(FlattenSeq(blocks))
        /\ FlattenSeq(blocks)[Off(blocks, k - 1) + j] = blocks[k][j]
    BY <1>1, FlattenEntry
  <1>3. DOMAIN Code = 1 .. Len(FlattenSeq(blocks))
    BY FunctionType
  <1> QED BY <1>2, <1>3, FunctionType

(* So it is an instruction of one of the blocks there are.                 *)
LEMMA FromBlock ==
    ASSUME blocks \in Bodies, NEW i \in DOMAIN Code
    PROVE  \E b \in Blocks : \E j \in DOMAIN b : Code[i] = b[j]
  <1>1. PICK k \in 1 .. Len(blocks) : \E j \in 1 .. Len(blocks[k]) :
               i = Before(k - 1) + j /\ Code[i] = blocks[k][j]
    BY AtPlace
  <1>2. blocks[k] \in Blocks /\ blocks[k] \in Seq(Instructions)
    BY FunctionType, AuditAssumption
  <1> QED BY <1>1, <1>2
-----------------------------------------------------------------------------
(* What a verdict says of a function: where no C file declares one, only a *)
(* function that passed is called, and it passed what it was asked.        *)
Audited ==
    /\ blocks \in Bodies /\ way \in Ways
    /\ at # "audit" => verdict = "ok" /\ way \notin {"unlinked", "data"}
    /\ verdict = "ok" => way # "bare"
    /\ verdict = "ok" /\ way = "plain" =>
         IF has_expected_prologue(Code) THEN epilogue_is_complete(Code)
                                        ELSE written_callee_saved(Code) = {}

LEMMA AuditedInit == Init => Audited
  BY DEF Init, Audited

LEMMA AuditedStep == Audited /\ [Next]_vars => Audited'
  <1> SUFFICES ASSUME Audited, [Next]_vars PROVE Audited'
    OBVIOUS
  <1>1. CASE audit
    <2>1. /\ blocks' = blocks /\ way' = way /\ verdict = "none" /\ at = "audit"
          /\ at' # "audit" => verdict' = "ok" /\ way \notin {"unlinked", "data"}
      BY <1>1 DEF audit, Audited
    <2>2. Code' = Code
      BY <2>1 DEF Code
    <2>3. verdict' = "ok" => problems = {} /\ uncovered = {}
      BY <1>1 DEF audit
    <2>4. ASSUME verdict' = "ok" PROVE way # "bare"
      <3>1. CASE way = "bare"
        <4>1. audit_set = {"f"} /\ Judged = {}
          BY <3>1 DEF audit_set, text_symbols, c_defined_symbols, EXEMPT, Judged,
                      parse_functions
        <4> QED BY <2>3, <2>4, <4>1 DEF uncovered
      <3> QED BY <3>1
    <2>5. ASSUME verdict' = "ok", way = "plain"
          PROVE  IF has_expected_prologue(Code) THEN epilogue_is_complete(Code)
                                                ELSE written_callee_saved(Code) = {}
      <3>1. parse_functions = Code /\ audit_set = {"f"}
        BY <2>5 DEF parse_functions, Code, audit_set, text_symbols,
                    c_defined_symbols, EXEMPT
      <3>2. "f" \in Judged /\ problems = {}
        BY <2>3, <2>5, <3>1 DEF uncovered
      <3> QED BY <3>1, <3>2 DEF problems
    <2> QED BY <2>1, <2>2, <2>4, <2>5 DEF Audited
  <1>2. CASE ~audit
    <2>1. /\ UNCHANGED <<blocks, way>>
          /\ verdict' = verdict \/ (verdict = "none" /\ verdict' = "refused" /\ at' = at)
          /\ at' = at \/ at = "running"
      BY <1>2 DEF Next, vars, ToolFails, Push, Pop, Unwinds, Compute, Jump,
                  Returns, RunsOn, Running
    <2>2. Code' = Code
      BY <2>1 DEF Code
    <2> QED BY <2>1, <2>2 DEF Audited
  <1> QED BY <1>1, <1>2

(* The next instruction is one of the function's.                          *)
LEMMA InCode ==
    ASSUME blocks \in Bodies, pc \in DOMAIN Code
    PROVE  /\ Code[pc].m \in Writers \cup {"push", "pop", "ret", "jz", "jmp"}
           /\ Op = <<>> => Code[pc].m \in {"ret", "jz", "jmp"}
           /\ "rsp" \in Targets(Code[pc]) => Code[pc].m = "sub" \/ Code[pc] = Unwind
  BY FromBlock, AuditAssumption DEF Op

LEMMA Canonical ==
    /\ canonical("rsp") = {}
    /\ \A r \in CALLEE_SAVED : canonical(r) = {r}
  BY DEF canonical, ALIASES, CALLEE_SAVED

LEMMA MnemonicsDiffer ==
    \A m \in Writers \cup WRITE_FIRST_OPERAND : m \notin {"push", "ret", "jz", "jmp"}
  BY DEF Writers, WRITE_FIRST_OPERAND

LEMMA WritersPop == "pop" \notin Writers /\ "pop" \in WRITE_FIRST_OPERAND
  BY DEF Writers, WRITE_FIRST_OPERAND

(* A function without the prologue, judged by what it writes.              *)
Leaf == way = "plain" /\ ~has_expected_prologue(Code) /\ LeafOnTrust(Code)

LInv == Audited /\ (Leaf => regs = Original)

(* What the audit would have seen written was not there.                   *)
LEMMA LeafWritesNone ==
    ASSUME LInv, Leaf, at = "running", pc \in DOMAIN Code,
           Code[pc].m \in WRITE_FIRST_OPERAND
    PROVE  canonical(Op[1]) = {}
  <1>1. Op # <<>>
    BY InCode, MnemonicsDiffer DEF LInv, Audited
  <1>2. written_callee_saved(Code) = {}
    BY DEF LInv, Audited, Leaf
  <1>3. canonical(Code[pc].ops[1]) \subseteq written_callee_saved(Code)
    BY <1>1 DEF written_callee_saved, Op
  <1> QED BY <1>2, <1>3 DEF Op

LEMMA LStep == LInv /\ [Next]_vars => LInv'
  <1> SUFFICES ASSUME LInv, [Next]_vars PROVE LInv'
    OBVIOUS
  <1>1. Audited'
    BY AuditedStep DEF LInv
  <1>2. blocks' = blocks /\ way' = way
    BY DEF Next, vars, audit, ToolFails, Push, Pop, Unwinds, Compute, Jump,
           Returns, RunsOn
  <1>3. Leaf' = Leaf
    BY <1>2 DEF Leaf, Code
  <1>4. ASSUME Leaf PROVE regs' = regs
    <2>1. regs = Original
      BY <1>4 DEF LInv
    <2>2. CASE Pop
      <3>1. at = "running" /\ pc \in DOMAIN Code /\ Code[pc].m = "pop"
        BY <2>2 DEF Pop, Running
      <3>2. canonical(Op[1]) = {}
        BY <1>4, <3>1, LeafWritesNone, WritersPop
      <3>3. Op[1] \notin CALLEE_SAVED
        BY <3>2, Canonical
      <3> QED BY <2>1, <2>2, <3>3 DEF Pop, Original
    <2>3. CASE Compute
      <3>1. at = "running" /\ pc \in DOMAIN Code
        BY <2>3 DEF Compute, Running
      <3>2. ASSUME NEW op \in Targets(Code[pc]) PROVE canonical(op) = {}
        <4>1. canonical(op) # {} => op = Op[1] /\ Code[pc].m \in WRITE_FIRST_OPERAND
          BY <1>4, <3>1 DEF Leaf, LeafOnTrust, Op
        <4> QED BY <1>4, <3>1, <4>1, LeafWritesNone
      <3>3. \A r \in CALLEE_SAVED : r \notin Targets(Code[pc])
        BY <3>2, Canonical
      <3>4. regs' = [r \in CALLEE_SAVED |-> regs[r]]
        BY <2>3, <3>2, <3>3 DEF Compute
      <3> QED BY <2>1, <3>4 DEF Original
    <2>4. CASE ~Pop /\ ~Compute
      BY <2>4 DEF Next, vars, audit, ToolFails, Push, Unwinds, Jump, Returns, RunsOn
    <2> QED BY <2>2, <2>3, <2>4
  <1> QED BY <1>1, <1>3, <1>4 DEF LInv, Original

LEMMA LeafInvariant == Spec => []LInv
  <1>1. Init => LInv
    BY AuditedInit DEF Init, LInv
  <1> QED BY <1>1, LStep, PTL DEF Spec
-----------------------------------------------------------------------------
Covers == verdict = "ok" => way \in {"exempt", "data", "declared"} \/ "f" \in seen

(* The audit passes only over functions it has judged, where no C file     *)
(* declares an assembly function at the start of a line.                   *)
THEOREM AuditCovers ==
    ASSUME "declared" \notin Ways
    PROVE  Spec => []EveryExportIsAudited
  <1> DEFINE CInv == way \in Ways /\ Covers
  <1>1. Init => CInv
    BY DEF Init, Covers
  <1>2. ASSUME CInv, [Next]_vars PROVE CInv'
    <2>1. CASE audit
      <3>1. way' = way /\ seen' = Judged
        BY <2>1 DEF audit
      <3>2. ASSUME verdict' = "ok", way \notin {"exempt", "data", "declared"}
            PROVE  "f" \in Judged
        <4>1. unlinked = {} /\ uncovered = {}
          BY <2>1, <3>2 DEF audit
        <4>2. "f" \in audit_set
          BY <3>2, <4>1 DEF unlinked, assembly_exports, all_defined_symbols,
                            text_symbols, audit_set, c_defined_symbols, EXEMPT
        <4> QED BY <4>1, <4>2 DEF uncovered
      <3> QED BY <1>2, <3>1, <3>2 DEF Covers
    <2>2. CASE ~audit
      <3>1. UNCHANGED <<way, seen>> /\ (verdict' = verdict \/ verdict' = "refused")
        BY <1>2, <2>2 DEF Next, vars, ToolFails, Push, Pop, Unwinds, Compute,
                          Jump, Returns, RunsOn
      <3> QED BY <1>2, <3>1 DEF Covers
    <2> QED BY <2>1, <2>2
  <1>3. CInv => EveryExportIsAudited
    BY DEF Covers, EveryExportIsAudited, assembly_exports
  <1> HIDE DEF CInv
  <1> QED BY <1>1, <1>2, <1>3, PTL DEF Spec
-----------------------------------------------------------------------------
(* Short sequences.                                                        *)
LEMMA Seven ==
    ASSUME NEW X, NEW a \in X, NEW b \in X, NEW c \in X, NEW d \in X,
           NEW e \in X, NEW f \in X, NEW g \in X
    PROVE  <<a, b, c, d, e, f, g>> \in Seq(X) /\ Len(<<a, b, c, d, e, f, g>>) = 7
  OBVIOUS

LEMMA Eight ==
    ASSUME NEW X, NEW a \in X, NEW b \in X, NEW c \in X, NEW d \in X,
           NEW e \in X, NEW f \in X, NEW g \in X, NEW h \in X
    PROVE  <<a, b, c, d, e, f, g, h>> \in Seq(X) /\ Len(<<a, b, c, d, e, f, g, h>>) = 8
  OBVIOUS

(* What the two macros expand to.                                          *)
MacroEntries ==
    {push(r) : r \in CALLEE_SAVED} \cup {pop(r) : r \in CALLEE_SAVED}
      \cup {I("mov", <<"rbp", "rsp">>), I("sub", <<"rsp", "8">>), Unwind, Ret}

LEMMA EnterIs ==
    /\ EXPECTED_PROLOGUE \in Seq(MacroEntries) /\ Len(EXPECTED_PROLOGUE) = 7
    /\ AF_ENTER \in Seq(MacroEntries) /\ Len(AF_ENTER) = 8
    /\ \A j \in 1 .. 7 : AF_ENTER[j] = EXPECTED_PROLOGUE[j]
    /\ AF_ENTER[1] = push("rbp") /\ AF_ENTER[2] = I("mov", <<"rbp", "rsp">>)
    /\ AF_ENTER[3] = push("rbx") /\ AF_ENTER[4] = push("r12")
    /\ AF_ENTER[5] = push("r13") /\ AF_ENTER[6] = push("r14")
    /\ AF_ENTER[7] = push("r15") /\ AF_ENTER[8] = I("sub", <<"rsp", "8">>)
  <1>1. EXPECTED_PROLOGUE \in Seq(MacroEntries) /\ Len(EXPECTED_PROLOGUE) = 7
    <2>1. /\ push("rbp") \in MacroEntries /\ push("rbx") \in MacroEntries
          /\ push("r12") \in MacroEntries /\ push("r13") \in MacroEntries
          /\ push("r14") \in MacroEntries /\ push("r15") \in MacroEntries
          /\ I("mov", <<"rbp", "rsp">>) \in MacroEntries
      BY Zenon DEF MacroEntries, CALLEE_SAVED
    <2> QED BY <2>1, Seven DEF EXPECTED_PROLOGUE
  <1>2. I("sub", <<"rsp", "8">>) \in MacroEntries
    BY Zenon DEF MacroEntries
  <1>3. PICK p \in Seq(MacroEntries) : p = EXPECTED_PROLOGUE /\ Len(p) = 7
    BY <1>1
  <1>4. PICK i \in MacroEntries : i = I("sub", <<"rsp", "8">>)
    BY <1>2
  <1>5. /\ p[1] = push("rbp") /\ p[2] = I("mov", <<"rbp", "rsp">>)
        /\ p[3] = push("rbx") /\ p[4] = push("r12")
        /\ p[5] = push("r13") /\ p[6] = push("r14") /\ p[7] = push("r15")
    BY <1>3 DEF EXPECTED_PROLOGUE
  <1>6. AF_ENTER = Append(p, i)
    BY <1>3, <1>4 DEF AF_ENTER
  <1>7. /\ Append(p, i) \in Seq(MacroEntries) /\ Len(Append(p, i)) = 8
        /\ Append(p, i)[8] = i
        /\ \A j \in 1 .. 7 : Append(p, i)[j] = p[j]
    <2>1. /\ Append(p, i) \in Seq(MacroEntries) /\ Len(Append(p, i)) = Len(p) + 1
          /\ Append(p, i)[Len(p) + 1] = i
          /\ \A j \in 1 .. Len(p) : Append(p, i)[j] = p[j]
      OBVIOUS
    <2> QED BY <1>3, <2>1
  <1> QED BY <1>3, <1>4, <1>5, <1>6, <1>7

LEMMA LeaveIs ==
    /\ AF_LEAVE \in Seq(MacroEntries) /\ Len(AF_LEAVE) = 8
    /\ AF_LEAVE[1] = Unwind
    /\ AF_LEAVE[2] = pop("r15") /\ AF_LEAVE[3] = pop("r14")
    /\ AF_LEAVE[4] = pop("r13") /\ AF_LEAVE[5] = pop("r12")
    /\ AF_LEAVE[6] = pop("rbx") /\ AF_LEAVE[7] = pop("rbp")
    /\ AF_LEAVE[8] = Ret
  <1>1. /\ pop("rbp") \in MacroEntries /\ pop("rbx") \in MacroEntries
        /\ pop("r12") \in MacroEntries /\ pop("r13") \in MacroEntries
        /\ pop("r14") \in MacroEntries /\ pop("r15") \in MacroEntries
        /\ Ret \in MacroEntries /\ Unwind \in MacroEntries
    BY Zenon DEF MacroEntries, CALLEE_SAVED
  <1>2. AF_LEAVE \in Seq(MacroEntries) /\ Len(AF_LEAVE) = 8
    BY <1>1, Eight DEF AF_LEAVE
  <1> QED BY <1>2 DEF AF_LEAVE

(* The code of a function written with the macros has the prologue the     *)
(* audit asks for.                                                         *)
LEMMA MacroPrologue ==
    ASSUME blocks \in Bodies, UsesMacros
    PROVE  Code # <<>> /\ has_expected_prologue(Code)
  <1>1. 1 \in 1 .. Len(blocks) /\ blocks[1] = AF_ENTER /\ Code \in Seq(Instructions)
    BY FunctionType DEF UsesMacros
  <1>2. Before(0) = 0
    BY FunctionType, OffEnds
  <1>3. ASSUME NEW j \in 1 .. 8 PROVE j \in DOMAIN Code /\ Code[j] = AF_ENTER[j]
    <2>1. j \in 1 .. Len(blocks[1]) /\ Before(1 - 1) + j = j
      BY <1>1, <1>2, EnterIs
    <2> QED BY <1>1, <2>1, PlaceInCode
  <1>4. 8 \in DOMAIN Code /\ Len(Code) \in Nat /\ Len(Code) >= 8
    BY <1>1, <1>3
  <1>5. \A j \in 1 .. 7 : Code[j] = EXPECTED_PROLOGUE[j]
    BY <1>3, EnterIs
  <1>6. SubSeq(Code, 1, 7) = SubSeq(EXPECTED_PROLOGUE, 1, 7)
    BY <1>1, <1>4, <1>5, EnterIs
  <1> QED BY <1>4, <1>6, EnterIs DEF has_expected_prologue, IsPrefix

(* And before each of its returns the six pops.                            *)
LEMMA MacroEpilogue ==
    ASSUME blocks \in Bodies, UsesMacros
    PROVE  epilogue_is_complete(Code)
  <1> SUFFICES ASSUME NEW i \in DOMAIN Code, Code[i].m = "ret"
               PROVE  /\ i > 6
                      /\ \A j \in (i - 6)..(i - 1) : Code[j].m = "pop"
                      /\ {Code[j].ops[1] : j \in (i - 6)..(i - 1)} = CALLEE_SAVED
    BY DEF epilogue_is_complete, PopsAll
  <1>1. PICK k \in 1 .. Len(blocks) : \E j \in 1 .. Len(blocks[k]) :
               i = Before(k - 1) + j /\ Code[i] = blocks[k][j]
    BY AtPlace
  <1>2. PICK j \in 1 .. Len(blocks[k]) : i = Before(k - 1) + j /\ Code[i] = blocks[k][j]
    BY <1>1
  <1>3. /\ k \in DOMAIN blocks /\ j \in DOMAIN blocks[k]
        /\ blocks \in Seq(Seq(Instructions)) /\ k - 1 \in 0 .. Len(blocks)
    <2>1. blocks \in Seq(Seq(Instructions))
      BY FunctionType
    <2> QED BY <2>1
  <1>4. blocks[k] = AF_LEAVE
    BY <1>2, <1>3 DEF UsesMacros
  <1>5. j = 8
    <2>1. j \in 1 .. 8 /\ AF_LEAVE[j].m = "ret"
      BY <1>2, <1>4, LeaveIs
    <2> QED BY <2>1, LeaveIs DEF pop, I, Unwind
  <1>6. Before(k - 1) \in Nat
    BY <1>3, OffType, FunctionType
  <1> DEFINE o == Before(k - 1)
  <1>7. \A n \in 1 .. 8 : Code[o + n] = AF_LEAVE[n]
    BY <1>4, PlaceInCode, LeaveIs
  <1>8. o \in Nat /\ i = o + 8
    BY <1>2, <1>5, <1>6
  <1> HIDE DEF o
  <1>9. /\ Code[o + 2] = pop("r15") /\ Code[o + 3] = pop("r14")
         /\ Code[o + 4] = pop("r13") /\ Code[o + 5] = pop("r12")
         /\ Code[o + 6] = pop("rbx") /\ Code[o + 7] = pop("rbp")
    BY <1>7, LeaveIs
  <1>10. (i - 6)..(i - 1) = {o + 2, o + 3, o + 4, o + 5, o + 6, o + 7}
    BY <1>8
  <1>11. \A r : pop(r).m = "pop" /\ pop(r).ops[1] = r
    BY DEF pop, I
  <1>12. {Code[n].ops[1] : n \in (i - 6)..(i - 1)} = CALLEE_SAVED
    <2> DEFINE R(n) == Code[n].ops[1]
    <2>1. /\ R(o + 2) = "r15" /\ R(o + 3) = "r14" /\ R(o + 4) = "r13"
          /\ R(o + 5) = "r12" /\ R(o + 6) = "rbx" /\ R(o + 7) = "rbp"
      BY <1>9, <1>11
    <2> HIDE DEF R
    <2>2. {R(n) : n \in {o + 2, o + 3, o + 4, o + 5, o + 6, o + 7}} = CALLEE_SAVED
      BY <2>1 DEF CALLEE_SAVED
    <2> QED BY <1>10, <2>2 DEF R
  <1>13. \A n \in (i - 6)..(i - 1) : Code[n].m = "pop"
    BY <1>9, <1>10, <1>11
  <1>14. i > 6
    BY <1>8
  <1> QED BY <1>12, <1>13, <1>14

(* No false alarms, at any length: a function written with the macros is   *)
(* accepted whenever its code can be read, and one a C file declares is    *)
(* not even looked at.                                                     *)
THEOREM MacrosAccepted == Spec => MacroCodeIsAccepted
  <1>1. Init => blocks \in Bodies
    BY DEF Init
  <1>2. blocks \in Bodies /\ [Next]_vars => (blocks \in Bodies)'
    BY DEF Next, vars, audit, ToolFails, Push, Pop, Unwinds, Compute, Jump,
           Returns, RunsOn
  <1>3. ASSUME blocks \in Bodies, UsesMacros, way \in {"plain", "declared"}, audit
        PROVE  verdict' = "ok"
    <2>1. text_symbols = {"f"} /\ unlinked = {}
      BY <1>3 DEF text_symbols, unlinked, assembly_exports, all_defined_symbols
    <2>2. CASE way = "declared"
      <3>1. audit_set = {}
        BY <2>1, <2>2 DEF audit_set, c_defined_symbols
      <3> QED BY <1>3, <2>1, <3>1 DEF audit, problems, uncovered, Judged
    <2>3. CASE way = "plain"
      <3>1. parse_functions = Code
        BY <2>3 DEF parse_functions, Code
      <3>2. Code # <<>> /\ has_expected_prologue(Code) /\ epilogue_is_complete(Code)
        BY <1>3, MacroPrologue, MacroEpilogue
      <3>3. Judged = audit_set
        BY <3>1, <3>2 DEF Judged
      <3>4. problems = {} /\ uncovered = {}
        BY <3>1, <3>2, <3>3 DEF problems, uncovered
      <3> QED BY <1>3, <2>1, <3>4 DEF audit
    <2> QED BY <1>3, <2>2, <2>3
  <1>4. blocks \in Bodies /\ [Next]_vars
          => [UsesMacros /\ way \in {"plain", "declared"} /\ audit => verdict' = "ok"]_vars
    BY <1>3
  <1> QED BY <1>1, <1>2, <1>4, PTL DEF Spec, MacroCodeIsAccepted
-----------------------------------------------------------------------------
(***************************************************************************)
(* Functions with the prologue.  Sound code is what an accepted one is     *)
(* that deserves what the audit takes on trust; the macros write it        *)
(* whatever the audit says: "make invariants 3, 4, and 5 of AGENTS.md true *)
(* by construction rather than by per-function review" (include/abi.inc).  *)
(***************************************************************************)
Sound(c) == has_expected_prologue(c) /\ epilogue_is_complete(c) /\ FrameOnTrust(c)

(* In tidy code every exit has the whole of AF_LEAVE before it and no      *)
(* block begins inside.                                                    *)
Tidy ==
    \A e \in Exits(Code) :
      /\ e > 7 /\ Code[e - 7] = Unwind
      /\ \A k \in 1 .. Len(blocks) : 1 + Before(k) \notin (e - 6) .. e

(* The frame AF_ENTER builds, from the return address down, and the order  *)
(* in which AF_LEAVE takes it apart.  Nothing but a return address is one. *)
Held == {Callers(r) : r \in CALLEE_SAVED} \cup {Depth(n) : n \in Nat} \cup {Junk}

Saved ==
    << Return, Callers("rbp"), Callers("rbx"), Callers("r12"), Callers("r13"),
       Callers("r14"), Callers("r15") >>
PopOrder == << "r15", "r14", "r13", "r12", "rbx", "rbp" >>

Kept(n) == Len(stack) = n /\ \A i \in 1 .. n : stack[i] = Saved[i]

(* What holds before the i-th instruction of AF_ENTER; in the body, the    *)
(* frame and at least n entries on the stack; and after p pops of an exit. *)
(* An exit entered in the middle, or with more than the frame on the       *)
(* stack, leaves something above the return address.                       *)
Entering(i) ==
    IF i < 3 THEN Kept(i) /\ regs = Original
             ELSE Kept(i - 1) /\ regs = [Original EXCEPT !["rbp"] = Depth(2)]

Based(n) ==
    /\ Len(stack) >= n /\ \A i \in 1 .. 7 : stack[i] = Saved[i]
    /\ regs["rbp"] = Depth(2)

Taken(p) ==
    \/ Kept(7 - p) /\ \A n \in 1 .. p : regs[PopOrder[n]] = Callers(PopOrder[n])
    \/ ~Tidy /\ Len(stack) >= 8 - p

InBody(i) ==
    /\ \A e \in Exits(Code) : i \in (e - 5) .. e => Taken(i - (e - 6))
    /\ \A e \in Exits(Code) : i = e - 6 => Based(7) /\ (Tidy => Len(stack) = 7)
    /\ (\A e \in Exits(Code) : i \notin (e - 6) .. e) => Based(8)

FrameAt(i) == IF i < 9 THEN Entering(i) ELSE InBody(i)

Typed ==
    /\ regs \in [CALLEE_SAVED -> Held] /\ stack \in Seq(Held \cup {Return})
    /\ \A n \in 2 .. Len(stack) : stack[n] \in Held

InFrame ==
    /\ Typed
    /\ at \in {"audit", "running"} => FrameAt(pc)
    /\ at = "returned" => regs = Original
    /\ at = "crashed" /\ Tidy => pc \notin DOMAIN Code

FrameInv ==
    /\ blocks \in Bodies /\ pc \in Nat \ {0}
    /\ at \in {"audit", "running", "returned", "crashed"}
    /\ verdict = "none" => at = "audit"
    /\ Sound(Code) => InFrame
-----------------------------------------------------------------------------
LEMMA HeldHas ==
    /\ \A r \in CALLEE_SAVED : Callers(r) \in Held
    /\ \A n \in Nat : Depth(n) \in Held
    /\ Junk \in Held /\ Return \notin Held
  <1>1. \A r \in CALLEE_SAVED : Callers(r) \in Held
    BY Zenon DEF Held
  <1>2. \A n \in Nat : Depth(n) \in Held
    BY Zenon DEF Held
  <1>3. Junk \in Held
    BY Zenon DEF Held
  <1>4. Return \notin Held
    BY DEF Held, Return, Callers, Depth, Junk
  <1> QED BY <1>1, <1>2, <1>3, <1>4

LEMMA Fields ==
    /\ \A r : push(r).m = "push" /\ push(r).ops = <<r>> /\ pop(r).m = "pop" /\ pop(r).ops = <<r>>
    /\ Ret.m = "ret" /\ Unwind.m = "lea" /\ Unwind.ops = <<"rsp", "[rbp-40]">>
    /\ I("mov", <<"rbp", "rsp">>).m = "mov" /\ I("mov", <<"rbp", "rsp">>).ops = <<"rbp", "rsp">>
    /\ I("sub", <<"rsp", "8">>).m = "sub" /\ I("sub", <<"rsp", "8">>).ops = <<"rsp", "8">>
  BY DEF push, pop, Ret, Unwind, I

LEMMA PopsAre ==
    ASSUME NEW n \in 1 .. 6
    PROVE  /\ AF_LEAVE[n + 1] = pop(PopOrder[n]) /\ Saved[8 - n] = Callers(PopOrder[n])
           /\ PopOrder[n] \in CALLEE_SAVED
  <1>1. n = 1 \/ n = 2 \/ n = 3 \/ n = 4 \/ n = 5 \/ n = 6
    OBVIOUS
  <1> QED BY <1>1, LeaveIs DEF PopOrder, Saved, CALLEE_SAVED

LEMMA PopsEach == {PopOrder[n] : n \in 1 .. 6} = CALLEE_SAVED
  BY DEF PopOrder, CALLEE_SAVED

(* What sound code looks like, place by place.                             *)
LEMMA SoundCode ==
    ASSUME blocks \in Bodies, Sound(Code)
    PROVE  /\ Code \in Seq(Instructions) /\ Len(Code) >= 8
           /\ \A i \in 1 .. 8 : Code[i] = AF_ENTER[i]
           /\ \A e \in Exits(Code) : /\ e \in Nat /\ e > 6 /\ e \in DOMAIN Code
                                     /\ Code[e].m \in {"ret", "jmp"}
                                     /\ \A n \in 1 .. 6 : Code[e - 7 + n] = pop(PopOrder[n])
           /\ \A i \in DOMAIN Code :
                /\ i > 8 => \A op \in Targets(Code[i]) :
                              op \notin ToSet(Frame) /\ "rbp" \notin canonical(op)
                /\ Code[i].m = "pop" => \E e \in Exits(Code) : e \in (i + 1)..(i + 6)
                /\ Code[i] = Unwind => i + 7 \in Exits(Code)
  <1>1. Code \in Seq(Instructions)
    BY FunctionType
  <1>2. IsPrefix(AF_ENTER, Code)
    BY DEF Sound, FrameOnTrust
  <1>3. Len(Code) >= 8 /\ SubSeq(AF_ENTER, 1, 8) = SubSeq(Code, 1, 8)
    BY <1>2, EnterIs DEF IsPrefix
  <1>4. ASSUME NEW i \in 1 .. 8 PROVE Code[i] = AF_ENTER[i]
    <2>1. SubSeq(AF_ENTER, 1, 8)[i] = AF_ENTER[i]
      BY EnterIs
    <2>2. SubSeq(Code, 1, 8)[i] = Code[i]
      BY <1>1, <1>3
    <2> QED BY <1>3, <2>1, <2>2
  <1>5. ASSUME NEW e \in Exits(Code)
        PROVE  /\ e \in Nat /\ e > 6 /\ e \in DOMAIN Code /\ Code[e].m \in {"ret", "jmp"}
               /\ \A n \in 1 .. 6 : Code[e - 7 + n] = pop(PopOrder[n])
    <2>1. e \in DOMAIN Code /\ Code[e].m \in {"ret", "jmp"}
      BY DEF Exits
    <2>2. Restores(Code, e)
      BY <2>1 DEF Sound, FrameOnTrust, epilogue_is_complete
    <2>3. e \in Nat
      BY <1>1, <2>1
    <2> QED BY <2>1, <2>2, <2>3, PopsAre DEF Restores
  <1>6. \A i \in DOMAIN Code :
          /\ i > 8 => \A op \in Targets(Code[i]) :
                        op \notin ToSet(Frame) /\ "rbp" \notin canonical(op)
          /\ Code[i].m = "pop" => \E e \in Exits(Code) : e \in (i + 1)..(i + 6)
          /\ Code[i] = Unwind => i + 7 \in Exits(Code)
    BY DEF Sound, FrameOnTrust
  <1> QED BY <1>1, <1>3, <1>4, <1>5, <1>6

(* The places before an exit hold pops, and the exits do not overlap.      *)
LEMMA ExitPops ==
    ASSUME blocks \in Bodies, Sound(Code), NEW e \in Exits(Code), NEW i \in (e - 6) .. (e - 1)
    PROVE  /\ Code[i] = pop(PopOrder[i - (e - 7)]) /\ i - (e - 7) \in 1 .. 6
           /\ Code[i].m = "pop"
  <1>1. e \in Nat /\ e > 6
    BY SoundCode
  <1>2. PICK n \in 1 .. 6 : n = i - (e - 7) /\ e - 7 + n = i
    BY <1>1
  <1>3. Code[e - 7 + n] = pop(PopOrder[n])
    BY SoundCode
  <1> QED BY <1>2, <1>3, Fields

LEMMA ExitsApart ==
    ASSUME blocks \in Bodies, Sound(Code), NEW e \in Exits(Code), NEW f \in Exits(Code),
           NEW i \in (e - 6) .. e, i \in (f - 6) .. f
    PROVE  e = f
  <1>1. e \in Nat /\ f \in Nat /\ Code[e].m \in {"ret", "jmp"} /\ Code[f].m \in {"ret", "jmp"}
    BY SoundCode
  <1>2. CASE e < f
    <2>1. e \in (f - 6) .. (f - 1)
      BY <1>1, <1>2
    <2> QED BY <1>1, <2>1, ExitPops
  <1>3. CASE f < e
    <2>1. f \in (e - 6) .. (e - 1)
      BY <1>1, <1>3
    <2> QED BY <1>1, <2>1, ExitPops
  <1> QED BY <1>1, <1>2, <1>3

(* An instruction of the body that is no pop and no exit stands outside    *)
(* every exit, and so the whole frame is there.                            *)
LEMMA Outside ==
    ASSUME blocks \in Bodies, Sound(Code), NEW i \in DOMAIN Code,
           Code[i].m \notin {"pop", "ret", "jmp"}, NEW e \in Exits(Code)
    PROVE  i \notin (e - 6) .. e /\ i + 1 \notin (e - 5) .. e
  <1>0. Code \in Seq(Instructions)
    BY SoundCode
  <1>1. e \in Nat /\ Code[e].m \in {"ret", "jmp"} /\ i \in Nat
    <2>1. i \in Nat
      BY <1>0
    <2> QED BY <2>1, SoundCode
  <1>2. i # e
    BY <1>1
  <1>3. i \notin (e - 6) .. (e - 1)
    BY ExitPops
  <1> QED BY <1>1, <1>2, <1>3

(* Such an instruction with the whole frame there leaves it so for the     *)
(* next: only after the lea may a tidy exit begin.                         *)
LEMMA Onward ==
    ASSUME blocks \in Bodies, Sound(Code), pc \in DOMAIN Code, pc >= 8,
           Code[pc].m \notin {"pop", "ret", "jmp"}, Code[pc] # Unwind,
           blocks' = blocks, pc' = pc + 1, Based(8)'
    PROVE  FrameAt(pc)'
  <1>1. pc \in Nat /\ Code' = Code /\ Tidy' = Tidy
    <2>1. Code \in Seq(Instructions)
      BY SoundCode
    <2> QED BY <2>1 DEF Code, Tidy, Before
  <1>2. Based(7)'
    BY DEF Based
  <1>3. ASSUME NEW e \in Exits(Code)
        PROVE  /\ pc + 1 \notin (e - 5) .. e
               /\ pc + 1 = e - 6 => ~Tidy
    <2>1. e \in Nat
      BY SoundCode
    <2>2. pc + 1 \notin (e - 5) .. e
      BY Outside
    <2>3. pc + 1 = e - 6 => pc = e - 7
      BY <1>1, <2>1
    <2> QED BY <2>2, <2>3 DEF Tidy
  <1>4. InBody(pc)'
    BY <1>1, <1>2, <1>3 DEF InBody
  <1>5. ~(pc + 1 < 9)
    BY <1>1
  <1> QED BY <1>4, <1>5 DEF FrameAt

(* What an invariant of the frame gives of a running function.             *)
LEMMA WhileRunning ==
    ASSUME FrameInv, Sound(Code), at = "running", pc \in DOMAIN Code
    PROVE  /\ blocks \in Bodies /\ Typed /\ pc \in Nat \ {0}
           /\ pc < 9 => Entering(pc) /\ Code[pc] = AF_ENTER[pc] /\ pc \in 1 .. 8
           /\ pc >= 9 => InBody(pc)
  <1>1. blocks \in Bodies /\ pc \in Nat \ {0} /\ Typed /\ FrameAt(pc)
    BY DEF FrameInv, InFrame
  <1>2. pc < 9 => pc \in 1 .. 8 /\ Code[pc] = AF_ENTER[pc]
    BY <1>1, SoundCode
  <1> QED BY <1>1, <1>2 DEF FrameAt

LEMMA BodyBased ==
    ASSUME FrameInv, Sound(Code), at = "running", pc \in DOMAIN Code, pc >= 9,
           Code[pc].m \notin {"pop", "ret", "jmp"}
    PROVE  Based(8)
  BY WhileRunning, Outside DEF InBody

(* The stack grows: one more entry above the frame, or one more of it.     *)
LEMMA TypedPush ==
    ASSUME Typed, NEW v \in Held, stack' = Append(stack, v), stack # <<>>
    PROVE  /\ stack' \in Seq(Held \cup {Return}) /\ Len(stack') = Len(stack) + 1
           /\ \A n \in 2 .. Len(stack') : stack'[n] \in Held
           /\ \A n \in 1 .. Len(stack) : stack'[n] = stack[n]
           /\ stack'[Len(stack) + 1] = v /\ Len(stack) \in Nat
  <1>1. stack \in Seq(Held \cup {Return}) /\ \A n \in 2 .. Len(stack) : stack[n] \in Held
    BY DEF Typed
  <1>2. /\ stack' \in Seq(Held \cup {Return}) /\ Len(stack') = Len(stack) + 1
        /\ \A n \in 1 .. Len(stack) : stack'[n] = stack[n]
        /\ stack'[Len(stack) + 1] = v /\ Len(stack) \in Nat
    BY <1>1
  <1>3. ASSUME NEW n \in 2 .. Len(stack') PROVE stack'[n] \in Held
    <2>1. CASE n = Len(stack) + 1
      BY <1>2, <2>1
    <2>2. CASE n # Len(stack) + 1
      <3>1. n \in 2 .. Len(stack) /\ n \in 1 .. Len(stack)
        BY <1>2, <2>2
      <3> QED BY <1>1, <1>2, <3>1
    <2> QED BY <2>1, <2>2
  <1> QED BY <1>2, <1>3

LEMMA BasedPush ==
    ASSUME Typed, Based(8), NEW v \in Held, stack' = Append(stack, v),
           regs'["rbp"] = regs["rbp"]
    PROVE  Based(8)' /\ Len(stack) \in Nat /\ stack # <<>>
  <1>1. stack \in Seq(Held \cup {Return}) /\ Len(stack) >= 8
    BY DEF Typed, Based
  <1>2. stack # <<>> /\ Len(stack) \in Nat
    BY <1>1
  <1>3. Len(stack') = Len(stack) + 1 /\ \A n \in 1 .. Len(stack) : stack'[n] = stack[n]
    BY <1>2, TypedPush
  <1> QED BY <1>1, <1>2, <1>3 DEF Based

LEMMA KeptPush ==
    ASSUME Typed, NEW n \in 1 .. 6, Kept(n), NEW v \in Held, v = Saved[n + 1],
           stack' = Append(stack, v)
    PROVE  Kept(n + 1)' /\ stack # <<>>
  <1>1. Len(stack) = n
    BY DEF Kept
  <1>2. stack # <<>>
    BY <1>1
  <1>3. /\ Len(stack') = n + 1 /\ \A i \in 1 .. n : stack'[i] = stack[i]
        /\ stack'[n + 1] = v
    BY <1>1, <1>2, TypedPush
  <1> QED BY <1>2, <1>3 DEF Kept

(* What an operand holds is never a return address.                        *)
LEMMA ValueHeld ==
    ASSUME Typed, NEW op
    PROVE  Value(op) \in Held
  <1>1. Len(stack) \in Nat /\ regs \in [CALLEE_SAVED -> Held]
    BY DEF Typed
  <1> QED BY <1>1, HeldHas DEF Value

(* Push: one more of the caller's registers in AF_ENTER, or deeper in the  *)
(* body.                                                                   *)
LEMMA PushFrame ==
    ASSUME FrameInv, Sound(Code), Push
    PROVE  Typed' /\ FrameAt(pc)' /\ pc' = pc + 1 /\ at' = "running"
  <1>1. /\ at = "running" /\ pc \in DOMAIN Code /\ Code[pc].m = "push" /\ pc' = pc + 1
        /\ stack' = Append(stack, Value(Op[1])) /\ regs' = regs /\ blocks' = blocks
        /\ at' = "running"
    BY DEF Push, Running
  <1>2. /\ blocks \in Bodies /\ Typed /\ pc \in Nat \ {0} /\ regs \in [CALLEE_SAVED -> Held]
        /\ Value(Op[1]) \in Held
    BY <1>1, WhileRunning, ValueHeld DEF Typed
  <1>3. CASE pc < 9
    <2>1. Entering(pc) /\ Code[pc] = AF_ENTER[pc] /\ pc \in 1 .. 8
      BY <1>1, <1>3, WhileRunning
    <2>2. pc \in {1, 3, 4, 5, 6, 7}
      BY <1>1, <2>1, EnterIs, Fields
    <2>3. CASE pc = 1
      <3>1. Op[1] = "rbp" /\ regs = Original /\ Kept(1)
        BY <2>1, <2>3, EnterIs, Fields DEF Entering, Op
      <3>2. Value(Op[1]) = Saved[1 + 1]
        BY <3>1 DEF Value, Original, Saved, CALLEE_SAVED
      <3>3. Kept(1 + 1)' /\ stack # <<>>
        BY <1>1, <1>2, <3>1, <3>2, KeptPush
      <3>4. FrameAt(pc)'
        BY <1>1, <2>3, <3>1, <3>3 DEF FrameAt, Entering, Original
      <3> QED BY <1>1, <1>2, <3>3, <3>4, TypedPush DEF Typed
    <2>4. CASE pc \in {3, 4, 5, 6, 7}
      <3>1. /\ Kept(pc - 1) /\ regs = [Original EXCEPT !["rbp"] = Depth(2)]
            /\ pc = 3 => Op[1] = "rbx"
            /\ pc = 4 => Op[1] = "r12"
            /\ pc = 5 => Op[1] = "r13"
            /\ pc = 6 => Op[1] = "r14"
            /\ pc = 7 => Op[1] = "r15"
        BY <2>1, <2>4, EnterIs, Fields DEF Entering, Op
      <3>2. \A r \in CALLEE_SAVED \ {"rbp"} : regs[r] = Callers(r)
        BY <3>1 DEF Original
      <3>3. /\ Saved[3] = Callers("rbx") /\ Saved[4] = Callers("r12")
            /\ Saved[5] = Callers("r13") /\ Saved[6] = Callers("r14")
            /\ Saved[7] = Callers("r15")
        BY DEF Saved
      <3>4. Op[1] \in CALLEE_SAVED \ {"rbp"} /\ Saved[pc] = Callers(Op[1])
        BY <2>4, <3>1, <3>3 DEF CALLEE_SAVED
      <3>5. pc - 1 \in 1 .. 6 /\ (pc - 1) + 1 = pc
        BY <2>4
      <3>6. Value(Op[1]) = Saved[(pc - 1) + 1]
        BY <3>2, <3>4, <3>5 DEF Value
      <3>7. Len(stack') = pc /\ (\A i \in 1 .. pc : stack'[i] = Saved[i]) /\ stack # <<>>
        <4> DEFINE n == pc - 1
        <4>1. n \in 1 .. 6 /\ Kept(n) /\ Value(Op[1]) = Saved[n + 1]
          BY <3>1, <3>5, <3>6
        <4> HIDE DEF n
        <4>2. Len(stack) = n /\ \A i \in 1 .. n : stack[i] = Saved[i]
          BY <4>1 DEF Kept
        <4>3. stack # <<>>
          BY <4>1, <4>2
        <4>4. /\ Len(stack') = n + 1 /\ \A i \in 1 .. n : stack'[i] = stack[i]
              /\ stack'[n + 1] = Value(Op[1])
          BY <1>1, <1>2, <4>2, <4>3, TypedPush
        <4>5. n + 1 = pc
          BY <3>5 DEF n
        <4> QED BY <4>1, <4>2, <4>3, <4>4, <4>5
      <3> QED BY <1>1, <1>2, <2>4, <3>1, <3>7, TypedPush DEF Typed, FrameAt, Entering, Kept, Original
    <2> QED BY <2>2, <2>3, <2>4
  <1>4. CASE pc >= 9
    <2>1. Based(8)
      BY <1>1, <1>4, BodyBased
    <2>2. Based(8)' /\ stack # <<>>
      BY <1>1, <1>2, <2>1, BasedPush
    <2>3. FrameAt(pc)'
      BY <1>1, <1>2, <1>4, <2>2, Onward, Fields
    <2> QED BY <1>1, <1>2, <2>2, <2>3, TypedPush DEF Typed
  <1> QED BY <1>2, <1>3, <1>4

(* Anything else that computes: AF_ENTER sets rbp and makes room, the body *)
(* leaves rbp and the frame alone and stores at most on top of the stack.  *)
LEMMA GivenHeld ==
    ASSUME Typed, NEW op
    PROVE  Given(op) \in Held
  BY ValueHeld, HeldHas DEF Given

LEMMA SlotOutside ==
    ASSUME NEW op, op \notin ToSet(Frame), NEW n \in Slot(op)
    PROVE  n = Len(stack) /\ op = "[rsp+0]"
  BY DEF Slot, ToSet

LEMMA FrameNames == "rbp" \notin ToSet(Frame) /\ "rsp" \notin ToSet(Frame)
  <1>1. \A k \in DOMAIN Frame : Frame[k] # "rbp" /\ Frame[k] # "rsp"
    BY DEF Frame
  <1> QED BY <1>1 DEF ToSet

LEMMA ComputeFrame ==
    ASSUME FrameInv, Sound(Code), Compute
    PROVE  Typed' /\ FrameAt(pc)' /\ pc' = pc + 1 /\ at' = "running"
  <1> DEFINE written == Targets(Code[pc])
  <1>1. /\ at = "running" /\ pc \in DOMAIN Code /\ Code[pc].m \in Writers /\ Code[pc] # Unwind
        /\ blocks' = blocks /\ pc' = pc + 1 /\ at' = "running"
        /\ regs' = [r \in CALLEE_SAVED |->
                      IF r \in written THEN Given(r)
                      ELSE IF \E op \in written : r \in canonical(op) THEN Junk
                      ELSE regs[r]]
        /\ stack' = IF "rsp" \in written THEN Append(stack, Junk) ELSE
                      [n \in DOMAIN stack |->
                         IF \E op \in written : n \in Slot(op)
                           THEN Given(CHOOSE op \in written : n \in Slot(op))
                           ELSE stack[n]]
    BY DEF Compute, Running
  <1>2. /\ blocks \in Bodies /\ Typed /\ pc \in Nat \ {0} /\ regs \in [CALLEE_SAVED -> Held]
        /\ stack \in Seq(Held \cup {Return})
    BY <1>1, WhileRunning DEF Typed
  <1>3. \A op : Given(op) \in Held
    BY <1>2, GivenHeld
  <1> HIDE DEF written
  <1>4. regs' \in [CALLEE_SAVED -> Held]
    BY <1>1, <1>2, <1>3, HeldHas
  <1>5. CASE pc < 9
    <2>1. Entering(pc) /\ Code[pc] = AF_ENTER[pc] /\ pc \in 1 .. 8
      BY <1>1, <1>5, WhileRunning
    <2>2. pc \in {2, 8}
      BY <1>1, <2>1, EnterIs, Fields, MnemonicsDiffer
    <2>3. CASE pc = 2
      <3>1. Code[pc] = I("mov", <<"rbp", "rsp">>) /\ Kept(2) /\ regs = Original
        BY <2>1, <2>3, EnterIs DEF Entering
      <3>2. Code[pc].m = "mov" /\ Op[1] = "rbp" /\ Op[2] = "rsp"
        BY <3>1, Fields DEF Op
      <3>3. written = {"rbp"} /\ "rsp" \notin written
        BY <3>2 DEF written, Targets, Op, Writers, WRITE_FIRST_OPERAND
      <3>4. Given("rbp") = Depth(2)
        BY <3>1, <3>2 DEF Given, Value, Kept, CALLEE_SAVED
      <3>5. Slot("rbp") = {}
        <4>1. ASSUME NEW n \in Slot("rbp") PROVE FALSE
          BY SlotOutside, FrameNames
        <4> QED BY <4>1
      <3>6. stack' = stack
        <4>1. stack' = [n \in DOMAIN stack |-> stack[n]]
          BY <1>1, <3>3, <3>5
        <4> QED BY <1>2, <4>1
      <3>7. regs' = [Original EXCEPT !["rbp"] = Depth(2)]
        <4>1. \A r \in CALLEE_SAVED : (\E op \in written : r \in canonical(op)) => r = "rbp"
          BY <3>3, Canonical DEF CALLEE_SAVED
        <4>2. regs' = [r \in CALLEE_SAVED |-> IF r = "rbp" THEN Depth(2) ELSE regs[r]]
          BY <1>1, <3>3, <3>4, <4>1
        <4> QED BY <3>1, <4>2 DEF Original
      <3>8. FrameAt(pc)'
        BY <1>1, <2>3, <3>1, <3>6, <3>7 DEF FrameAt, Entering, Kept, Original
      <3> QED BY <1>1, <1>2, <1>4, <3>6, <3>8 DEF Typed
    <2>4. CASE pc = 8
      <3>1. /\ Code[pc] = I("sub", <<"rsp", "8">>) /\ Kept(7)
            /\ regs = [Original EXCEPT !["rbp"] = Depth(2)]
        BY <2>1, <2>4, EnterIs DEF Entering
      <3>2. written = {"rsp"} /\ Code[pc].m = "sub"
        BY <3>1, Fields DEF written, Targets, Writers, WRITE_FIRST_OPERAND
      <3>3. stack' = Append(stack, Junk) /\ regs'["rbp"] = regs["rbp"]
        BY <1>1, <3>2, Canonical DEF CALLEE_SAVED
      <3>4. Len(stack) = 7 /\ stack # <<>>
        <4>1. Len(stack) = 7
          BY <3>1 DEF Kept
        <4> QED BY <4>1
      <3>5. /\ Len(stack') = 8 /\ \A n \in 1 .. 7 : stack'[n] = stack[n]
        BY <1>2, <3>3, <3>4, TypedPush, HeldHas
      <3>6. Based(8)'
        <4>1. regs["rbp"] = Depth(2)
          BY <3>1 DEF Original, CALLEE_SAVED
        <4> QED BY <3>1, <3>3, <3>5, <4>1 DEF Based, Kept
      <3>7. FrameAt(pc)'
        BY <1>1, <1>2, <2>4, <3>2, <3>6, Onward
      <3> QED BY <1>1, <1>2, <1>4, <3>3, <3>4, <3>7, TypedPush, HeldHas DEF Typed
    <2> QED BY <2>2, <2>3, <2>4
  <1>6. CASE pc >= 9
    <2>1. Code[pc].m \notin {"pop", "ret", "jmp"}
      BY <1>1, MnemonicsDiffer, WritersPop
    <2>2. Based(8)
      BY <1>1, <1>6, <2>1, BodyBased
    <2>3. Len(stack) \in Nat /\ Len(stack) >= 8 /\ stack # <<>>
      <3>1. Len(stack) \in Nat /\ Len(stack) >= 8
        BY <1>2, <2>2 DEF Based
      <3> QED BY <3>1
    <2>4. ASSUME NEW op \in written PROVE op \notin ToSet(Frame) /\ "rbp" \notin canonical(op)
      <3>1. pc > 8 /\ op \in Targets(Code[pc])
        BY <1>2, <1>6 DEF written
      <3> QED BY <1>1, <1>2, <3>1, SoundCode
    <2>5. regs'["rbp"] = regs["rbp"]
      <3>1. "rbp" \in CALLEE_SAVED
        BY DEF CALLEE_SAVED
      <3>2. "rbp" \notin written
        BY <2>4, <3>1, Canonical
      <3> QED BY <1>1, <2>4, <3>1, <3>2
    <2>6. Based(8)' /\ stack' \in Seq(Held \cup {Return}) /\ \A n \in 2 .. Len(stack') : stack'[n] \in Held
      <3>1. CASE "rsp" \in written
        <4>1. stack' = Append(stack, Junk)
          BY <1>1, <3>1
        <4> QED BY <1>2, <2>2, <2>3, <2>5, <4>1, BasedPush, TypedPush, HeldHas
      <3>2. CASE "rsp" \notin written
        <4> DEFINE v(n) == IF \E op \in written : n \in Slot(op)
                             THEN Given(CHOOSE op \in written : n \in Slot(op))
                             ELSE stack[n]
        <4>1. stack' = [n \in DOMAIN stack |-> v(n)]
          BY <1>1, <3>2
        <4>2. \A n : v(n) \in Held \/ v(n) = stack[n]
          BY <1>3
        <4>3. ASSUME NEW n \in 1 .. 7 PROVE v(n) = stack[n]
          <5>1. n # Len(stack)
            BY <2>3
          <5> QED BY <2>4, <5>1, SlotOutside
        <4> HIDE DEF v
        <4>4. DOMAIN stack = 1 .. Len(stack) /\ \A n \in 1 .. Len(stack) : stack[n] \in Held \cup {Return}
          BY <1>2
        <4>5. \A n \in 1 .. Len(stack) : v(n) \in Held \cup {Return}
          BY <4>2, <4>4
        <4>6. stack' \in Seq(Held \cup {Return}) /\ Len(stack') = Len(stack)
          BY <2>3, <4>1, <4>4, <4>5
        <4>7. \A n \in 1 .. Len(stack) : stack'[n] = v(n)
          BY <4>1, <4>4
        <4>8. \A n \in 2 .. Len(stack') : stack'[n] \in Held
          <5>1. \A n \in 2 .. Len(stack) : stack[n] \in Held
            BY <1>2 DEF Typed
          <5> QED BY <2>3, <4>2, <4>6, <4>7, <5>1
        <4>9. \A n \in 1 .. 7 : stack'[n] = stack[n]
          BY <2>3, <4>3, <4>7
        <4>10. Based(8)'
          BY <2>2, <2>3, <2>5, <4>6, <4>9 DEF Based
        <4> QED BY <4>6, <4>8, <4>10
      <3> QED BY <3>1, <3>2
    <2>7. FrameAt(pc)'
      BY <1>1, <1>2, <1>6, <2>1, <2>6, Onward
    <2> QED BY <1>1, <1>4, <2>6, <2>7 DEF Typed
  <1> QED BY <1>2, <1>5, <1>6

(* The lea: back to the five registers saved under rbp, from wherever the  *)
(* body has left the stack pointer.                                        *)
LEMMA UnwindFrame ==
    ASSUME FrameInv, Sound(Code), Unwinds
    PROVE  Typed' /\ FrameAt(pc)' /\ pc' = pc + 1 /\ at' = "running"
  <1>1. /\ at = "running" /\ pc \in DOMAIN Code /\ Code[pc] = Unwind
        /\ blocks' = blocks /\ regs' = regs
    BY DEF Unwinds, Running
  <1>2. /\ blocks \in Bodies /\ Typed /\ pc \in Nat \ {0} /\ regs \in [CALLEE_SAVED -> Held]
        /\ stack \in Seq(Held \cup {Return})
    BY <1>1, WhileRunning DEF Typed
  <1>3. pc >= 9
    <2>1. CASE pc < 9
      <3>1. pc \in 1 .. 8 /\ Unwind = AF_ENTER[pc]
        BY <1>1, <2>1, WhileRunning
      <3> QED BY <3>1, EnterIs, Fields
    <2> QED BY <1>2, <2>1
  <1>4. Based(8)
    BY <1>1, <1>3, BodyBased, Fields
  <1>5. Len(stack) \in Nat /\ Len(stack) >= 8 /\ regs["rbp"] = Depth(2)
    BY <1>2, <1>4 DEF Based
  <1>6. regs["rbp"][1] = "depth" /\ regs["rbp"][2] = 2
    BY <1>5 DEF Depth
  <1>7. stack' = SubSeq(stack, 1, 7) /\ pc' = pc + 1 /\ at' = "running"
    <2>1. regs["rbp"][1] = "depth" /\ regs["rbp"][2] + 5 <= Len(stack)
          /\ regs["rbp"][2] + 5 = 7
      BY <1>5, <1>6
    <2> QED BY <1>1, <2>1 DEF Unwinds
  <1>8. /\ stack' \in Seq(Held \cup {Return}) /\ Len(stack') = 7
        /\ \A n \in 1 .. 7 : stack'[n] = stack[n]
    BY <1>2, <1>5, <1>7
  <1>9. \A n \in 2 .. Len(stack') : stack'[n] \in Held
    <2>1. \A n \in 2 .. 7 : n \in 2 .. Len(stack) /\ n \in 1 .. 7
      BY <1>5
    <2> QED BY <1>2, <1>8, <2>1 DEF Typed
  <1>10. Based(7)' /\ Len(stack') = 7
    BY <1>1, <1>4, <1>8 DEF Based
  <1>11. PICK e \in Exits(Code) : e = pc + 7
    BY <1>1, <1>2, SoundCode
  <1>12. e \in Nat /\ pc + 1 = e - 6 /\ pc + 1 \in (e - 6) .. e /\ pc + 1 \notin (e - 5) .. e
    BY <1>2, <1>11
  <1>13. \A f \in Exits(Code) : pc + 1 \in (f - 6) .. f => f = e
    BY <1>2, <1>12, ExitsApart
  <1>14. ASSUME NEW f \in Exits(Code), pc + 1 \in (f - 5) .. f PROVE FALSE
    <2>1. f \in Nat
      BY <1>2, SoundCode
    <2>2. pc + 1 \in (f - 6) .. f
      BY <1>2, <1>14, <2>1
    <2> QED BY <1>12, <1>13, <1>14, <2>2
  <1>15. InBody(pc)'
    <2>1. Code' = Code
      BY <1>1 DEF Code
    <2> QED BY <1>7, <1>10, <1>12, <1>14, <2>1 DEF InBody
  <1>16. ~(pc + 1 < 9)
    BY <1>2, <1>3
  <1> QED BY <1>1, <1>2, <1>7, <1>8, <1>9, <1>15, <1>16 DEF Typed, FrameAt

(* Pop: only on the way out, and each register gets back what was saved,   *)
(* unless something has been left above the frame.                         *)
LEMMA PopTakes ==
    ASSUME Typed, Len(stack) >= 2, NEW r \in CALLEE_SAVED, Pop, Op = <<r>>
    PROVE  /\ Typed' /\ pc' = pc + 1 /\ at' = at /\ blocks' = blocks
           /\ Len(stack') = Len(stack) - 1 /\ Len(stack) \in Nat
           /\ \A n \in 1 .. Len(stack) - 1 : stack'[n] = stack[n]
           /\ regs' = [q \in CALLEE_SAVED |-> IF q = r THEN stack[Len(stack)] ELSE regs[q]]
  <1>1. /\ stack \in Seq(Held \cup {Return}) /\ regs \in [CALLEE_SAVED -> Held]
        /\ \A n \in 2 .. Len(stack) : stack[n] \in Held
    BY DEF Typed
  <1>2. Len(stack) \in Nat /\ stack # <<>> /\ Last(stack) = stack[Len(stack)]
    BY <1>1 DEF Last
  <1>3. /\ pc' = pc + 1 /\ at' = at /\ blocks' = blocks /\ stack' = Front(stack)
        /\ regs' = [q \in CALLEE_SAVED |-> IF q = r THEN Last(stack) ELSE regs[q]]
    BY <1>2 DEF Pop
  <1>4. /\ stack' \in Seq(Held \cup {Return}) /\ Len(stack') = Len(stack) - 1
        /\ \A n \in 1 .. Len(stack) - 1 : stack'[n] = stack[n]
    BY <1>1, <1>2, <1>3 DEF Front
  <1>5. regs' \in [CALLEE_SAVED -> Held]
    BY <1>1, <1>2, <1>3
  <1>6. \A n \in 2 .. Len(stack') : stack'[n] \in Held
    <2>1. \A n \in 2 .. Len(stack') : n \in 2 .. Len(stack) /\ n \in 1 .. Len(stack) - 1
      BY <1>2, <1>4
    <2> QED BY <1>1, <1>4, <2>1
  <1> QED BY <1>2, <1>3, <1>4, <1>5, <1>6 DEF Typed

(* One more pop of an exit.                                                *)
LEMMA TakenPop ==
    ASSUME Typed, NEW p \in 0 .. 5, Taken(p), Pop, Op = <<PopOrder[p + 1]>>
    PROVE  Typed' /\ Taken(p + 1)' /\ pc' = pc + 1 /\ at' = at /\ blocks' = blocks
  <1>1. p + 1 \in 1 .. 6 /\ 8 - (p + 1) = 7 - p /\ p \in Nat
    OBVIOUS
  <1>2. PICK r \in CALLEE_SAVED : r = PopOrder[p + 1] /\ Saved[7 - p] = Callers(r) /\ Op = <<r>>
    BY <1>1, PopsAre
  <1>3. Len(stack) >= 2 /\ Len(stack) \in Nat
    BY <1>1 DEF Taken, Kept, Typed
  <1>4. /\ Typed' /\ pc' = pc + 1 /\ at' = at /\ blocks' = blocks
        /\ Len(stack') = Len(stack) - 1 /\ Len(stack) \in Nat
        /\ \A n \in 1 .. Len(stack) - 1 : stack'[n] = stack[n]
        /\ regs' = [q \in CALLEE_SAVED |-> IF q = r THEN stack[Len(stack)] ELSE regs[q]]
    BY <1>2, <1>3, PopTakes
  <1>5. CASE Kept(7 - p) /\ \A n \in 1 .. p : regs[PopOrder[n]] = Callers(PopOrder[n])
    <2>1. Len(stack) = 7 - p /\ \A n \in 1 .. 7 - p : stack[n] = Saved[n]
      BY <1>5 DEF Kept
    <2>2. stack[Len(stack)] = Callers(r) /\ 7 - p \in 1 .. 7 - p
      BY <1>1, <1>2, <2>1
    <2>3. Len(stack') = 7 - (p + 1) /\ \A n \in 1 .. 7 - (p + 1) : stack'[n] = Saved[n]
      BY <1>1, <1>4, <2>1
    <2>4. ASSUME NEW n \in 1 .. p + 1 PROVE regs'[PopOrder[n]] = Callers(PopOrder[n])
      <3>1. n \in 1 .. 6 /\ PopOrder[n] \in CALLEE_SAVED
        <4>1. n \in 1 .. 6
          OBVIOUS
        <4> QED BY <4>1, PopsAre
      <3>2. CASE PopOrder[n] = r
        BY <1>4, <2>2, <3>1, <3>2
      <3>3. CASE PopOrder[n] # r
        <4>1. n \in 1 .. p
          BY <1>2, <3>3
        <4> QED BY <1>4, <1>5, <3>1, <3>3, <4>1
      <3> QED BY <3>2, <3>3
    <2> QED BY <1>4, <2>3, <2>4 DEF Taken, Kept
  <1>6. CASE ~Tidy /\ Len(stack) >= 8 - p
    <2>1. ~Tidy'
      BY <1>4, <1>6 DEF Tidy, Code, Before
    <2>2. Len(stack') >= 8 - (p + 1)
      BY <1>1, <1>4, <1>6
    <2> QED BY <1>4, <2>1, <2>2 DEF Taken
  <1> QED BY <1>5, <1>6 DEF Taken

LEMMA PopFrame ==
    ASSUME FrameInv, Sound(Code), Pop
    PROVE  Typed' /\ FrameAt(pc)' /\ pc' = pc + 1 /\ at' = "running"
  <1>1. at = "running" /\ pc \in DOMAIN Code /\ Code[pc].m = "pop"
    BY DEF Pop, Running
  <1>2. blocks \in Bodies /\ Typed /\ pc \in Nat \ {0} /\ Len(stack) \in Nat
    BY <1>1, WhileRunning DEF Typed
  <1>3. pc >= 9
    <2>1. CASE pc < 9
      <3>1. pc \in 1 .. 8 /\ AF_ENTER[pc].m = "pop"
        BY <1>1, <2>1, WhileRunning
      <3> QED BY <3>1, EnterIs, Fields
    <2> QED BY <1>2, <2>1
  <1>4. InBody(pc)
    BY <1>1, <1>3, WhileRunning
  <1>5. PICK e \in Exits(Code) : e \in (pc + 1) .. (pc + 6)
    BY <1>1, <1>2, SoundCode
  <1>6. e \in Nat /\ pc \in (e - 6) .. (e - 1)
    BY <1>2, <1>5
  <1>7. PICK p \in 0 .. 5 : p = pc - (e - 6)
    BY <1>2, <1>6
  <1>8. Op = <<PopOrder[p + 1]>>
    <2>1. Code[pc] = pop(PopOrder[pc - (e - 7)])
      BY <1>2, <1>6, ExitPops
    <2>2. pc - (e - 7) = p + 1
      BY <1>2, <1>6, <1>7
    <2> QED BY <2>1, <2>2, Fields DEF Op
  <1>9. Taken(p)
    <2>1. CASE p = 0
      <3>1. Based(7) /\ (Tidy => Len(stack) = 7)
        <4>1. pc = e - 6
          BY <1>2, <1>6, <1>7, <2>1
        <4> QED BY <1>4, <4>1 DEF InBody
      <3>2. CASE Len(stack) = 7
        <4>1. Kept(7 - p) /\ 1 .. p = {}
          BY <2>1, <3>1, <3>2 DEF Kept, Based
        <4> QED BY <4>1 DEF Taken
      <3>3. CASE Len(stack) # 7
        <4>1. ~Tidy
          BY <3>1, <3>3
        <4>2. Len(stack) >= 7
          BY <3>1 DEF Based
        <4>3. Len(stack) >= 8 - p
          <5>1. PICK l \in Nat : l = Len(stack)
            BY <1>2
          <5>2. l >= 8
            BY <3>3, <4>2, <5>1
          <5> QED BY <2>1, <5>1, <5>2
        <4> QED BY <4>1, <4>3 DEF Taken
      <3> QED BY <3>2, <3>3
    <2>2. CASE p # 0
      <3>1. pc \in (e - 5) .. e
        BY <1>2, <1>6, <1>7, <2>2
      <3> QED BY <1>4, <1>7, <3>1 DEF InBody
    <2> QED BY <2>1, <2>2
  <1>10. Typed' /\ Taken(p + 1)' /\ pc' = pc + 1 /\ at' = at /\ blocks' = blocks
    BY <1>2, <1>8, <1>9, TakenPop
  <1>11. /\ pc + 1 \in (e - 6) .. e /\ pc + 1 \in (e - 5) .. e /\ pc + 1 - (e - 6) = p + 1
    BY <1>2, <1>6, <1>7
  <1>12. \A f \in Exits(Code) : pc + 1 \in (f - 6) .. f => f = e
    BY <1>2, <1>11, ExitsApart
  <1>13. ASSUME NEW f \in Exits(Code)
         PROVE  /\ pc + 1 \in (f - 5) .. f => f = e
                /\ pc + 1 # f - 6
    <2>1. f \in Nat
      BY <1>2, SoundCode
    <2>2. pc + 1 \in (f - 5) .. f => pc + 1 \in (f - 6) .. f
      BY <1>2, <2>1
    <2>3. pc + 1 = f - 6 => pc + 1 \in (f - 6) .. f /\ f # e
      BY <1>2, <1>6, <1>11, <2>1
    <2> QED BY <1>12, <2>2, <2>3
  <1>14. InBody(pc)'
    <2>1. Code' = Code
      BY <1>10 DEF Code
    <2>2. ASSUME NEW f \in Exits(Code), pc' \in (f - 5) .. f PROVE Taken(pc - (f - 6))'
      <3>1. f = e /\ pc' - (f - 6) = p + 1
        <4>1. pc' = pc + 1
          BY <1>10
        <4>2. f = e
          BY <1>13, <2>2, <4>1
        <4>3. pc' - (e - 6) = p + 1
          BY <1>2, <1>6, <1>7, <4>1
        <4> QED BY <4>2, <4>3
      <3>2. \/ Len(stack') = 7 - (p + 1) /\ (\A n \in 1 .. 7 - (p + 1) : stack'[n] = Saved[n])
               /\ \A n \in 1 .. p + 1 : regs'[PopOrder[n]] = Callers(PopOrder[n])
            \/ ~Tidy' /\ Len(stack') >= 8 - (p + 1)
        BY <1>10 DEF Taken, Kept
      <3> QED BY <3>1, <3>2 DEF Taken, Kept
    <2>3. \A f \in Exits(Code) : pc' # f - 6
      BY <1>10, <1>13
    <2>4. pc' \in (e - 6) .. e
      BY <1>10, <1>11
    <2> QED BY <2>1, <2>2, <2>3, <2>4 DEF InBody
  <1>15. ~(pc + 1 < 9)
    BY <1>2, <1>3
  <1> QED BY <1>1, <1>10, <1>14, <1>15 DEF FrameAt

(* Jump: only forward, and only to where a block begins, which in tidy     *)
(* code is nowhere between the lea and the return.                         *)
LEMMA BeyondLater ==
    ASSUME blocks \in Bodies, pc \in DOMAIN Code
    PROVE  \E m \in 1 .. Len(blocks) : Beyond = 1 + Before(m) /\ Beyond \in Nat /\ Beyond > pc
  <1>1. PICK k \in 1 .. Len(blocks) : \E j \in 1 .. Len(blocks[k]) :
               pc = Before(k - 1) + j /\ Code[pc] = blocks[k][j]
    BY AtPlace
  <1>2. PICK j \in 1 .. Len(blocks[k]) : pc = Before(k - 1) + j
    BY <1>1
  <1>3. blocks \in Seq(Seq(Instructions)) /\ Len(blocks) \in Nat /\ \A n : Before(n) = Off(blocks, n)
    BY FunctionType
  <1>4. /\ Before(k) = Before(k - 1) + Len(blocks[k]) /\ Len(blocks[k]) \in Nat
        /\ Before(k - 1) \in Nat /\ Before(k) \in Nat
    BY <1>3, OffStep
  <1>5. k \in DOMAIN blocks /\ Before(k - 1) < pc /\ pc <= Before(k)
    BY <1>2, <1>3, <1>4
  <1>6. Here \in DOMAIN blocks /\ Before(Here - 1) < pc /\ pc <= Before(Here)
    <2>1. \E n \in DOMAIN blocks : Before(n - 1) < pc /\ pc <= Before(n)
      BY <1>5
    <2> QED BY <2>1 DEF Here
  <1>7. PICK h \in 1 .. Len(blocks) : h = Here
    BY <1>3, <1>6
  <1>8. PICK m \in h .. Len(blocks) : Beyond = 1 + Before(m)
    <2>1. CASE h < Len(blocks)
      <3>1. h + 1 \in h .. Len(blocks) /\ Beyond = 1 + Before(h + 1)
        BY <1>3, <1>7, <2>1 DEF Beyond
      <3> QED BY <3>1
    <2>2. CASE ~(h < Len(blocks))
      <3>1. h \in h .. Len(blocks) /\ Beyond = 1 + Before(h)
        BY <1>3, <1>7, <2>2 DEF Beyond
      <3> QED BY <3>1
    <2> QED BY <2>1, <2>2
  <1>9. h \in 0 .. Len(blocks) /\ m \in 1 .. Len(blocks) /\ m \in 0 .. Len(blocks)
    BY <1>3
  <1>10. Before(h) <= Before(m) /\ Before(h) \in Nat /\ Before(m) \in Nat
    <2>1. Off(blocks, h) <= Off(blocks, m)
      BY <1>3, <1>9, PreExtends
    <2>2. Off(blocks, h) \in Nat /\ Off(blocks, m) \in Nat
      BY <1>3, <1>9, OffType
    <2> QED BY <1>3, <2>1, <2>2
  <1>11. pc \in Nat /\ pc <= Before(h)
    BY <1>2, <1>4, <1>6, <1>7
  <1>12. Beyond \in Nat /\ Beyond > pc
    BY <1>8, <1>10, <1>11
  <1> QED BY <1>8, <1>9, <1>12

LEMMA JumpFrame ==
    ASSUME FrameInv, Sound(Code), Jump
    PROVE  Typed' /\ FrameAt(pc)' /\ pc' \in Nat \ {0} /\ at' = "running"
  <1>1. /\ at = "running" /\ pc \in DOMAIN Code /\ Code[pc].m = "jz" /\ pc' \in {pc + 1, Beyond}
        /\ blocks' = blocks /\ at' = "running" /\ stack' = stack /\ regs' = regs
    BY DEF Jump, Running
  <1>2. blocks \in Bodies /\ Typed /\ pc \in Nat \ {0} /\ Len(stack) \in Nat
    BY <1>1, WhileRunning DEF Typed
  <1>3. pc >= 9
    <2>1. CASE pc < 9
      <3>1. pc \in 1 .. 8 /\ AF_ENTER[pc].m = "jz"
        BY <1>1, <2>1, WhileRunning
      <3> QED BY <3>1, EnterIs, Fields
    <2> QED BY <1>2, <2>1
  <1>4. Based(8) /\ Based(8)' /\ Typed'
    <2>1. Based(8)
      BY <1>1, <1>3, BodyBased
    <2> QED BY <1>1, <1>2, <2>1 DEF Based, Typed
  <1>5. CASE pc' = pc + 1
    <2>1. FrameAt(pc)'
      BY <1>1, <1>2, <1>3, <1>4, <1>5, Onward, Fields
    <2> QED BY <1>1, <1>2, <1>4, <1>5, <2>1
  <1>6. CASE pc' = Beyond
    <2>1. PICK m \in 1 .. Len(blocks) : pc' = 1 + Before(m) /\ pc' \in Nat /\ pc' > pc
      BY <1>1, <1>2, <1>6, BeyondLater
    <2>2. Code' = Code /\ Tidy' = Tidy
      BY <1>1 DEF Code, Tidy, Before
    <2>3. ASSUME NEW e \in Exits(Code), pc' \in (e - 6) .. e PROVE ~Tidy
      BY <2>1, <2>3 DEF Tidy
    <2>4. ASSUME NEW e \in Exits(Code), pc' \in (e - 5) .. e PROVE Taken(pc - (e - 6))'
      <3>1. e \in Nat /\ pc' \in (e - 6) .. e /\ pc' - (e - 6) \in 0 .. 6
        <4>1. e \in Nat
          BY <1>2, SoundCode
        <4> QED BY <2>1, <2>4, <4>1
      <3>2. ~Tidy' /\ Len(stack') >= 8 - (pc' - (e - 6))
        BY <1>1, <1>2, <1>4, <2>2, <2>3, <3>1 DEF Based
      <3> QED BY <3>2 DEF Taken
    <2>5. ASSUME NEW e \in Exits(Code), pc' = e - 6 PROVE Based(7)' /\ ~Tidy'
      <3>1. e \in Nat /\ pc' \in (e - 6) .. e
        <4>1. e \in Nat
          BY <1>2, SoundCode
        <4> QED BY <2>1, <2>5, <4>1
      <3> QED BY <1>1, <1>2, <1>4, <2>2, <2>3, <3>1 DEF Based
    <2>6. InBody(pc)'
      BY <1>4, <2>2, <2>4, <2>5 DEF InBody
    <2>7. ~(pc' < 9) /\ pc' \in Nat \ {0}
      BY <1>2, <1>3, <2>1
    <2> QED BY <1>1, <1>4, <2>6, <2>7 DEF FrameAt
  <1> QED BY <1>1, <1>5, <1>6

(* Returns: to the caller, with its registers.                             *)
LEMMA ReturnFrame ==
    ASSUME FrameInv, Sound(Code), Returns
    PROVE  /\ Typed' /\ at' \in {"returned", "crashed"} /\ blocks' = blocks /\ pc' = pc
           /\ at' = "returned" => regs' = Original
           /\ at' = "crashed" => ~Tidy'
  <1>1. /\ at = "running" /\ pc \in DOMAIN Code /\ Code[pc].m \in {"ret", "jmp"}
        /\ blocks' = blocks /\ pc' = pc /\ stack' = stack /\ regs' = regs
        /\ at' = IF stack # <<>> /\ Last(stack) = Return THEN "returned" ELSE "crashed"
    BY DEF Returns, Running
  <1>2. /\ blocks \in Bodies /\ Typed /\ pc \in Nat \ {0} /\ Len(stack) \in Nat
        /\ stack \in Seq(Held \cup {Return}) /\ regs \in [CALLEE_SAVED -> Held]
        /\ \A n \in 2 .. Len(stack) : stack[n] \in Held
    BY <1>1, WhileRunning DEF Typed
  <1>3. pc >= 9
    <2>1. CASE pc < 9
      <3>1. pc \in 1 .. 8 /\ AF_ENTER[pc].m \in {"ret", "jmp"}
        BY <1>1, <2>1, WhileRunning
      <3> QED BY <3>1, EnterIs, Fields
    <2> QED BY <1>2, <2>1
  <1>4. pc \in Exits(Code) /\ pc \in (pc - 5) .. pc /\ pc - (pc - 6) = 6
    BY <1>1, <1>2 DEF Exits
  <1>5. Taken(6)
    BY <1>1, <1>3, <1>4, WhileRunning DEF InBody
  <1>6. Tidy' = Tidy
    BY <1>1 DEF Code, Tidy, Before
  <1>7. CASE Kept(7 - 6) /\ \A n \in 1 .. 6 : regs[PopOrder[n]] = Callers(PopOrder[n])
    <2>1. Len(stack) = 1 /\ stack[1] = Return
      BY <1>7 DEF Kept, Saved
    <2>2. stack # <<>> /\ Last(stack) = Return
      BY <2>1 DEF Last
    <2>3. \A r \in CALLEE_SAVED : regs[r] = Callers(r)
      BY <1>7, PopsEach
    <2>4. regs = Original
      BY <1>2, <2>3 DEF Original
    <2> QED BY <1>1, <1>2, <2>2, <2>4 DEF Typed
  <1>8. CASE ~Tidy /\ Len(stack) >= 8 - 6
    <2>1. Len(stack) \in 2 .. Len(stack)
      BY <1>2, <1>8
    <2>2. Last(stack) # Return
      BY <1>2, <2>1, HeldHas DEF Last
    <2> QED BY <1>1, <1>2, <1>6, <1>8, <2>2 DEF Typed
  <1> QED BY <1>5, <1>7, <1>8 DEF Taken

LEMMA FrameInit == Init => FrameInv
  <1> SUFFICES ASSUME Init PROVE FrameInv
    OBVIOUS
  <1>1. /\ blocks \in Bodies /\ pc = 1 /\ at = "audit" /\ verdict = "none"
        /\ regs = Original /\ stack = <<Return>>
    BY DEF Init
  <1>2. Typed
    <2>1. regs \in [CALLEE_SAVED -> Held]
      BY <1>1, HeldHas DEF Original
    <2>2. stack \in Seq(Held \cup {Return}) /\ Len(stack) = 1
      BY <1>1
    <2> QED BY <2>1, <2>2 DEF Typed
  <1>3. FrameAt(pc)
    BY <1>1 DEF FrameAt, Entering, Kept, Saved
  <1> QED BY <1>1, <1>2, <1>3 DEF FrameInv, InFrame

LEMMA FrameStep == FrameInv /\ [Next]_vars => FrameInv'
  <1> SUFFICES ASSUME FrameInv, [Next]_vars PROVE FrameInv'
    OBVIOUS
  <1>1. blocks' = blocks /\ Code' = Code /\ Sound(Code)' = Sound(Code) /\ Tidy' = Tidy
    <2>1. blocks' = blocks
      BY DEF Next, vars, audit, ToolFails, Push, Pop, Unwinds, Compute, Jump,
             Returns, RunsOn
    <2>2. Code' = Code
      BY <2>1 DEF Code
    <2> QED BY <2>1, <2>2 DEF Tidy, Before
  <1>2. blocks' \in Bodies
    BY <1>1 DEF FrameInv
  <1>3. /\ pc' \in Nat \ {0} /\ at' \in {"audit", "running", "returned", "crashed"}
        /\ verdict' = "none" => at' = "audit"
    <2>1. pc \in Nat \ {0} /\ at \in {"audit", "running", "returned", "crashed"}
          /\ (verdict = "none" => at = "audit") /\ blocks \in Bodies
      BY DEF FrameInv
    <2>2. CASE Jump
      <3>1. pc \in DOMAIN Code /\ at = "running" /\ pc' \in {pc + 1, Beyond}
            /\ at' = at /\ verdict' = verdict
        BY <2>2 DEF Jump, Running
      <3>2. pc' \in Nat \ {0}
        BY <2>1, <3>1, BeyondLater
      <3> QED BY <2>1, <3>1, <3>2
    <2>3. CASE ~Jump
      BY <2>1, <2>3 DEF Next, vars, audit, ToolFails, Push, Pop, Unwinds, Compute,
             Returns, RunsOn, Running
    <2> QED BY <2>2, <2>3
  <1>4. ASSUME Sound(Code) PROVE InFrame'
    <2>0. InFrame
      BY <1>4 DEF FrameInv
    <2>1. CASE Push
      BY <1>4, <2>1, PushFrame DEF InFrame
    <2>2. CASE Pop
      BY <1>4, <2>2, PopFrame DEF InFrame
    <2>3. CASE Unwinds
      BY <1>4, <2>3, UnwindFrame DEF InFrame
    <2>4. CASE Compute
      BY <1>4, <2>4, ComputeFrame DEF InFrame
    <2>5. CASE Jump
      BY <1>4, <2>5, JumpFrame DEF InFrame
    <2>6. CASE Returns
      BY <1>4, <2>6, ReturnFrame DEF InFrame
    <2>7. CASE ~(Push \/ Pop \/ Unwinds \/ Compute \/ Jump \/ Returns)
      <3>1. pc' = pc /\ regs' = regs /\ stack' = stack
        BY <2>7 DEF Next, vars, audit, ToolFails, RunsOn
      <3>2. \/ at' = at
            \/ at = "audit" /\ at' = "running"
            \/ at' = "crashed" /\ pc \notin DOMAIN Code
        BY <2>7 DEF Next, vars, audit, ToolFails, RunsOn, FrameInv
      <3>3. Typed' = Typed /\ FrameAt(pc)' = FrameAt(pc)
        BY <1>1, <3>1 DEF Typed, FrameAt, Entering, InBody, Kept, Based, Taken
      <3> QED BY <1>1, <2>0, <3>1, <3>2, <3>3 DEF InFrame
    <2> QED BY <2>1, <2>2, <2>3, <2>4, <2>5, <2>6, <2>7
  <1> QED BY <1>1, <1>2, <1>3, <1>4 DEF FrameInv

LEMMA FrameInvariant == Spec => []FrameInv
  BY FrameInit, FrameStep, PTL DEF Spec

(* What the audit is for, at any length: where no C file declares an       *)
(* assembly function, one it passed, and that deserves what it takes on    *)
(* trust, gives its caller back every callee-saved register.               *)
THEOREM AcceptedPreserve ==
    ASSUME "declared" \notin Ways
    PROVE  Spec => []AcceptedPreserves
  <1>1. ASSUME LInv, FrameInv PROVE AcceptedPreserves
    <2> SUFFICES ASSUME verdict = "ok", at = "returned", way # "exempt", OnTrust(Code)
                 PROVE  regs = Original
      BY DEF AcceptedPreserves
    <2>1. way = "plain"
      BY <1>1, AuditAssumption DEF LInv, Audited, FileWays
    <2>2. CASE has_expected_prologue(Code)
      <3>1. Sound(Code)
        BY <1>1, <2>1, <2>2 DEF Sound, OnTrust, LInv, Audited
      <3> QED BY <1>1, <3>1 DEF FrameInv, InFrame
    <2>3. CASE ~has_expected_prologue(Code)
      BY <1>1, <2>1, <2>3 DEF OnTrust, Leaf, LInv
    <2> QED BY <2>2, <2>3
  <1> QED BY <1>1, LeafInvariant, FrameInvariant, PTL

(* The frame the macros build, whoever audits it: code that opens with     *)
(* AF_ENTER, keeps out of its frame and restores in order before every     *)
(* exit never returns a register changed; if the whole of AF_LEAVE stands  *)
(* before every exit and nothing jumps into it, it crashes only by running *)
(* past its end.                                                           *)
THEOREM FramedReturn ==
    Spec => [](Sound(Code) => /\ at = "returned" => regs = Original
                              /\ at = "crashed" /\ Tidy => pc \notin DOMAIN Code)
  <1>1. FrameInv => (Sound(Code) => /\ at = "returned" => regs = Original
                                    /\ at = "crashed" /\ Tidy => pc \notin DOMAIN Code)
    BY DEF FrameInv, InFrame
  <1> QED BY <1>1, FrameInvariant, PTL
=============================================================================
