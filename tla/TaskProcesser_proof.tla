------------------------- MODULE TaskProcesser_proof -------------------------
(***************************************************************************)
(* The texts a player gets are the ones of the row as they shall be shown, *)
(* for texts of any length, any number of them, and any flag that          *)
(* appendReplacement takes as it is.                                       *)
(***************************************************************************)
EXTENDS TaskProcesser, WellFoundedInduction, FiniteSetTheorems, SequenceTheorems, TLAPS

-----------------------------------------------------------------------------
(* Induction, over a set of numbers: of the intervals 0..n, ordered by      *)
(* inclusion, one outside the set is minimal.                               *)

LEMMA NumbersFrom0 ==
  ASSUME NEW P, 0 \in P, NEW n \in Nat, \A k \in 0..(n - 1) : k \in P => k + 1 \in P
  PROVE  \A k \in 0..n : k \in P
<1> DEFINE S == {k \in 0..n : k \notin P}
           intervals == {0..k : k \in S}
<1> SUFFICES ASSUME S # {} PROVE FALSE
  OBVIOUS
<1>1. intervals \subseteq FiniteSubsetsOf(Nat) /\ intervals # {}
  <2>1. \A k \in S : 0..k \in SUBSET Nat /\ IsFiniteSet(0..k)
    BY FS_Interval
  <2>2. \A k \in S : 0..k \in FiniteSubsetsOf(Nat)
    BY <2>1 DEF FiniteSubsetsOf
  <2> QED
    BY <2>2
<1>2. PICK X \in intervals : \A Y \in intervals : <<Y, X>> \notin StrictSubsetOrdering(Nat)
  BY <1>1, FS_StrictSubsetOrderingWellFounded, WFMin
<1>3. PICK m \in S : X = 0..m
  OBVIOUS
<1>4. ASSUME NEW k \in S, k < m PROVE FALSE
  <2>1. 0..k \in SUBSET Nat /\ 0..m \in SUBSET Nat /\ 0..k \subseteq 0..m /\ m \notin 0..k
    BY <1>4
  <2>2. <<0..k, 0..m>> \in StrictSubsetOrdering(Nat)
    BY <2>1 DEF StrictSubsetOrdering
  <2> QED
    BY <1>2, <1>3, <2>2
<1>5. m # 0 /\ m - 1 \in 0..(n - 1) /\ (m - 1) + 1 = m /\ m - 1 < m /\ m - 1 \in 0..n
  OBVIOUS
<1>6. m - 1 \in P
  BY <1>4, <1>5
<1>7. m \in P
  BY <1>5, <1>6
<1> QED
  BY <1>7

LEMMA MaxIs ==
  ASSUME NEW S, NEW n \in S, S \subseteq 1..n, n \in Nat
  PROVE  Max(S) = n
<1>1. \A y \in S : n >= y
  OBVIOUS
<1>2. \A x \in S : (\A y \in S : x >= y) => x = n
  <2>1. \A x \in S : x \in Nat /\ n \in Nat /\ n >= x
    BY <1>1
  <2>2. \A x \in Nat : n >= x /\ x >= n => x = n
    OBVIOUS
  <2> QED
    BY <2>1, <2>2
<1> QED
  BY <1>1, <1>2 DEF Max

-----------------------------------------------------------------------------
(* FlattenSeq: the function it is defined by exists, and is the only one.    *)

\* What that function makes of its value before, for the first n sequences.
Flattening(ss, n, f) ==
    \A i \in 1..n : f[i] = IF i = 1 THEN ss[i] ELSE f[i - 1] \o ss[i]

LEMMA FlatteningExists ==
  ASSUME NEW ss, NEW n \in Nat
  PROVE  \E f : f = [i \in 1..n |-> IF i = 1 THEN ss[i] ELSE f[i - 1] \o ss[i]]
<1> DEFINE P == {k \in Nat : \E f : DOMAIN f = 1..k /\ Flattening(ss, k, f)}
<1>1. 0 \in P
  <2>1. \E f : DOMAIN f = 1..0
    <3> DEFINE f == [i \in 1..0 |-> i]
    <3>1. DOMAIN f = 1..0
      OBVIOUS
    <3> QED
      BY <3>1
  <2> QED
    BY <2>1 DEF Flattening
<1>2. ASSUME NEW k \in 0..(n - 1), k \in P PROVE k + 1 \in P
  <2>1. PICK f : DOMAIN f = 1..k /\ Flattening(ss, k, f)
    BY <1>2
  <2> DEFINE next == IF k + 1 = 1 THEN ss[k + 1] ELSE f[k] \o ss[k + 1]
             g == [i \in 1..(k + 1) |-> IF i = k + 1 THEN next ELSE f[i]]
  <2>0. k + 1 \in 1..(k + 1) /\ \A i \in 1..k : i \in 1..(k + 1) /\ i # k + 1
    OBVIOUS
  <2> HIDE DEF next
  <2>2. /\ DOMAIN g = 1..(k + 1) /\ g[k + 1] = next
        /\ \A i \in 1..k : g[i] = f[i]
    BY <2>0
  <2> HIDE DEF g
  <2>3. ASSUME NEW i \in 1..(k + 1)
        PROVE  g[i] = IF i = 1 THEN ss[i] ELSE g[i - 1] \o ss[i]
    <3>1. CASE i = k + 1
      <4>1. i # 1 => k \in 1..k /\ i - 1 = k
        BY <3>1
      <4> QED
        BY <2>2, <3>1, <4>1 DEF next
    <3>2. CASE i # k + 1
      <4>1. i \in 1..k /\ (i # 1 => i - 1 \in 1..k)
        BY <3>2
      <4> QED
        BY <2>1, <2>2, <4>1 DEF Flattening
    <3> QED
      BY <3>1, <3>2
  <2>4. k + 1 \in Nat
    OBVIOUS
  <2> QED
    BY <2>2, <2>3, <2>4 DEF Flattening
<1>3. n \in P
  <2> HIDE DEF P
  <2> QED
    BY <1>1, <1>2, NumbersFrom0
<1>4. PICK f : DOMAIN f = 1..n /\ Flattening(ss, n, f)
  BY <1>3
<1> DEFINE h == [i \in 1..n |-> f[i]]
<1>5. DOMAIN h = 1..n /\ \A i \in 1..n : h[i] = f[i]
  OBVIOUS
<1> HIDE DEF h
<1>6. ASSUME NEW i \in 1..n PROVE h[i] = IF i = 1 THEN ss[i] ELSE h[i - 1] \o ss[i]
  <2>1. i # 1 => i - 1 \in 1..n
    OBVIOUS
  <2> QED
    BY <1>4, <1>5, <2>1 DEF Flattening
<1> DEFINE H == [i \in 1..n |-> IF i = 1 THEN ss[i] ELSE h[i - 1] \o ss[i]]
<1>7. h = H
  <2>1. DOMAIN H = 1..n /\ \A i \in 1..n : H[i] = h[i]
    BY <1>6
  <2>2. h = [i \in 1..n |-> h[i]] /\ H = [i \in 1..n |-> H[i]]
    BY <1>5 DEF h
  <2> HIDE DEF H
  <2> QED
    BY <2>1, <2>2
<1> QED
  BY <1>7

\* What FlattenSeq gives of every beginning of a sequence.
LEMMA FlattenIs ==
  ASSUME NEW S, NEW ss \in Seq(Seq(S)), NEW f,
         DOMAIN f = 0..Len(ss), f[0] = <<>>,
         \A i \in 1..Len(ss) : f[i] = f[i - 1] \o ss[i]
  PROVE  \A k \in 0..Len(ss) : f[k] \in Seq(S) /\ FlattenSeq([i \in 1..k |-> ss[i]]) = f[k]
<1> DEFINE n == Len(ss)
           P == {k \in Nat : f[k] \in Seq(S)}
<1>0. n \in Nat
  OBVIOUS
<1>1. 0 \in P /\ \A k \in 0..(n - 1) : k \in P => k + 1 \in P
  <2>1. 0 \in P
    BY EmptySeq
  <2>2. ASSUME NEW k \in 0..(n - 1), k \in P PROVE k + 1 \in P
    <3>1. k + 1 \in 1..n /\ (k + 1) - 1 = k /\ k + 1 \in Nat
      BY <1>0
    <3>2. f[k + 1] = f[(k + 1) - 1] \o ss[k + 1]
      BY <3>1
    <3>3. ss[k + 1] \in Seq(S) /\ f[k] \in Seq(S)
      BY <2>2, <3>1, ElementOfSeq
    <3>4. f[k + 1] = f[k] \o ss[k + 1]
      BY <3>1, <3>2
    <3>5. f[k + 1] \in Seq(S)
      BY <3>3, <3>4, ConcatProperties
    <3> QED
      BY <3>1, <3>5
  <2> QED
    BY <2>1, <2>2
<1>2. \A k \in 0..n : k \in P
  <2> HIDE DEF P
  <2> QED
    BY <1>0, <1>1, NumbersFrom0
<1>3. ASSUME NEW k \in 0..n PROVE FlattenSeq([i \in 1..k |-> ss[i]]) = f[k]
  <2> DEFINE t == [i \in 1..k |-> ss[i]]
  <2>1. /\ t \in Seq(Seq(S)) /\ Len(t) = k /\ k \in Nat
        /\ \A i \in 1..k : t[i] = ss[i] /\ i \in 1..n
    BY <1>0
  <2> HIDE DEF t
  <2>2. CASE k = 0
    <3>1. t = <<>>
      BY <2>1, <2>2
    <3> QED
      BY <2>1, <2>2, <3>1 DEF FlattenSeq, t
  <2>3. CASE k # 0
    <3> DEFINE Next1(g) == [i \in 1..Len(t) |-> IF i = 1 THEN t[i] ELSE g[i - 1] \o t[i]]
               g == CHOOSE h : h = Next1(h)
    <3>1. FlattenSeq(t) = g[k]
      BY <2>1, <2>3 DEF FlattenSeq
    <3>2. \E h : h = Next1(h)
      BY <2>1, FlatteningExists
    <3>3. g = Next1(g)
      BY <3>2
    <3> HIDE DEF g
    <3>4. \A i \in 1..k : g[i] = IF i = 1 THEN t[i] ELSE g[i - 1] \o t[i]
      BY <2>1, <3>3
    <3>5. ASSUME NEW i \in 1..k PROVE f[i] = f[i - 1] \o t[i] /\ t[i] \in Seq(S)
      <4>1. t[i] = ss[i] /\ i \in 1..n
        BY <2>1
      <4>2. ss[i] \in Seq(S)
        BY <4>1, ElementOfSeq
      <4> QED
        BY <4>1, <4>2
    <3> DEFINE Q == {i \in Nat : i >= 1 => g[i] = f[i]}
    <3>6. ASSUME NEW i \in 0..(k - 1), i \in Q PROVE i + 1 \in Q
      <4>1. i + 1 \in 1..k /\ (i + 1) - 1 = i /\ i + 1 \in Nat
        BY <2>1
      <4>2. f[i + 1] = f[(i + 1) - 1] \o t[i + 1] /\ t[i + 1] \in Seq(S)
        BY <3>5, <4>1
      <4>3. g[i + 1] = IF i + 1 = 1 THEN t[i + 1] ELSE g[(i + 1) - 1] \o t[i + 1]
        BY <3>4, <4>1
      <4>4. f[i + 1] = g[i + 1]
        <5>1. CASE i = 0
          <6>1. i + 1 = 1 /\ f[(i + 1) - 1] = <<>>
            BY <4>1, <5>1
          <6>2. g[i + 1] = t[i + 1] /\ f[i + 1] = <<>> \o t[i + 1]
            BY <4>2, <4>3, <6>1
          <6> QED
            BY <4>2, <6>2, ConcatEmptySeq
        <5>2. CASE i # 0
          <6>1. g[i] = f[i] /\ i + 1 # 1
            BY <3>6, <5>2
          <6> QED
            BY <4>1, <4>2, <4>3, <6>1
        <5> QED
          BY <5>1, <5>2
      <4> QED
        BY <4>1, <4>4
    <3>7. k \in Q
      <4>1. 0 \in Q /\ k \in 0..k
        BY <2>1
      <4> HIDE DEF Q
      <4> QED
        BY <2>1, <3>6, <4>1, NumbersFrom0
    <3>8. g[k] = f[k]
      BY <2>1, <2>3, <3>7
    <3> QED
      BY <3>1, <3>8 DEF t
  <2> QED
    BY <2>2, <2>3
<1> QED
  BY <1>2, <1>3

\* What the first k sequences are together.
Flat(ss, k) == FlattenSeq([i \in 1..k |-> ss[i]])

LEMMA FlatSteps ==
  ASSUME NEW S, NEW ss \in Seq(Seq(S))
  PROVE  /\ Flat(ss, 0) = <<>> /\ Flat(ss, Len(ss)) = FlattenSeq(ss)
         /\ \A k \in 0..Len(ss) : Flat(ss, k) \in Seq(S)
         /\ \A k \in 1..Len(ss) : Flat(ss, k) = Flat(ss, k - 1) \o ss[k]
<1> DEFINE n == Len(ss)
           Next1(g) == [i \in 1..n |-> IF i = 1 THEN ss[i] ELSE g[i - 1] \o ss[i]]
<1>0. n \in Nat
  OBVIOUS
<1>1. PICK g : g = Next1(g)
  BY <1>0, FlatteningExists
<1> DEFINE h == [k \in 0..n |-> IF k = 0 THEN <<>> ELSE g[k]]
<1>2. DOMAIN h = 0..n /\ h[0] = <<>> /\ \A k \in 1..n : h[k] = g[k]
  <2>1. 0 \in 0..n /\ \A k \in 1..n : k \in 0..n /\ k # 0
    BY <1>0
  <2> QED
    BY <2>1
<1> HIDE DEF h
<1>3. \A k \in 1..n : g[k] = IF k = 1 THEN ss[k] ELSE g[k - 1] \o ss[k]
  BY <1>1
<1>4. ASSUME NEW k \in 1..n PROVE h[k] = h[k - 1] \o ss[k]
  <2>1. CASE k = 1
    <3>1. h[k] = ss[k] /\ k - 1 = 0 /\ ss[k] \in Seq(S)
      BY <1>2, <1>3, <2>1, ElementOfSeq
    <3> QED
      BY <1>2, <3>1, ConcatEmptySeq
  <2>2. CASE k # 1
    <3>1. k - 1 \in 1..n
      BY <1>0, <2>2
    <3> QED
      BY <1>2, <1>3, <2>2, <3>1
  <2> QED
    BY <2>1, <2>2
<1>5. \A k \in 0..n : h[k] \in Seq(S) /\ FlattenSeq([i \in 1..k |-> ss[i]]) = h[k]
  BY <1>2, <1>4, FlattenIs
<1>6. \A k \in 0..n : Flat(ss, k) = h[k]
  BY <1>5 DEF Flat
<1>7. Flat(ss, n) = FlattenSeq(ss) /\ 0 \in 0..n
  <2>1. [i \in 1..n |-> ss[i]] = ss
    BY LenProperties
  <2>2. Flat(ss, n) = FlattenSeq([i \in 1..n |-> ss[i]])
    BY DEF Flat
  <2>3. 0 \in 0..n
    BY <1>0
  <2> QED
    BY <2>1, <2>2, <2>3
<1>8. ASSUME NEW k \in 1..n PROVE Flat(ss, k) = Flat(ss, k - 1) \o ss[k]
  <2>1. k \in 0..n /\ k - 1 \in 0..n
    BY <1>0
  <2> QED
    BY <1>4, <1>6, <2>1
<1>9. Flat(ss, 0) = <<>> /\ \A k \in 0..n : Flat(ss, k) \in Seq(S)
  BY <1>2, <1>5, <1>6, <1>7
<1> QED
  BY <1>7, <1>8, <1>9

\* Where the pieces of a sequence are in the whole.
LEMMA FlatPlaces ==
  ASSUME NEW S, NEW ss \in Seq(Seq(S)), NEW k \in 1..Len(ss)
  PROVE  /\ ss[k] \in Seq(S)
         /\ Len(Flat(ss, k)) = Len(Flat(ss, k - 1)) + Len(ss[k])
         /\ Len(Flat(ss, k)) <= Len(FlattenSeq(ss))
         /\ \A p \in 1..Len(ss[k]) :
              FlattenSeq(ss)[Len(Flat(ss, k - 1)) + p] = ss[k][p]
<1> DEFINE n == Len(ss)
           Starts(s, u) == Len(s) <= Len(u) /\ \A j \in 1..Len(s) : u[j] = s[j]
<1>0. n \in Nat /\ k \in Nat /\ k - 1 \in 0..n /\ k \in 0..n
  OBVIOUS
<1>1. /\ \A i \in 0..n : Flat(ss, i) \in Seq(S)
      /\ \A i \in 1..n : Flat(ss, i) = Flat(ss, i - 1) \o ss[i]
      /\ Flat(ss, n) = FlattenSeq(ss)
  BY FlatSteps
<1>2. \A i \in 1..n : ss[i] \in Seq(S)
  BY ElementOfSeq
<1>3. ASSUME NEW s \in Seq(S), NEW u \in Seq(S) PROVE Starts(s, s \o u)
  <2>1. Len(s) \in Nat /\ Len(u) \in Nat
    OBVIOUS
  <2> QED
    BY <2>1, ConcatProperties
<1>4. ASSUME NEW s \in Seq(S), NEW u \in Seq(S), NEW v \in Seq(S), Starts(s, u), Starts(u, v)
      PROVE  Starts(s, v)
  <2>1. Len(s) \in Nat /\ Len(u) \in Nat /\ Len(v) \in Nat
    OBVIOUS
  <2> QED
    BY <1>4, <2>1
<1> HIDE DEF Starts
<1> DEFINE P == {d \in Nat : k + d <= n => Starts(Flat(ss, k), Flat(ss, k + d))}
<1>5. 0 \in P
  <2>1. k + 0 = k /\ Flat(ss, k) \in Seq(S)
    BY <1>0, <1>1
  <2>2. Starts(Flat(ss, k), Flat(ss, k))
    BY <2>1 DEF Starts
  <2> QED
    BY <2>1, <2>2
<1>6. ASSUME NEW d \in 0..(n - k - 1), d \in P PROVE d + 1 \in P
  <2>1. /\ k + (d + 1) \in 1..n /\ (k + (d + 1)) - 1 = k + d /\ k + d \in 0..n
        /\ d + 1 \in Nat /\ k + d <= n
    BY <1>0
  <2>2. Flat(ss, k + (d + 1)) = Flat(ss, k + d) \o ss[k + (d + 1)]
    BY <1>1, <2>1
  <2>3. Starts(Flat(ss, k), Flat(ss, k + d))
    BY <1>6, <2>1
  <2>4. /\ Flat(ss, k + d) \in Seq(S) /\ ss[k + (d + 1)] \in Seq(S)
        /\ Flat(ss, k + (d + 1)) \in Seq(S) /\ Flat(ss, k) \in Seq(S)
    BY <1>0, <1>1, <1>2, <2>1
  <2>5. Starts(Flat(ss, k + d), Flat(ss, k + (d + 1)))
    BY <1>3, <2>2, <2>4
  <2>6. Starts(Flat(ss, k), Flat(ss, k + (d + 1)))
    BY <1>4, <2>3, <2>4, <2>5
  <2> QED
    BY <2>1, <2>6
<1>7. n - k \in P
  <2>1. n - k \in Nat /\ n - k \in 0..(n - k)
    BY <1>0
  <2> HIDE DEF P
  <2> QED
    BY <1>5, <1>6, <2>1, NumbersFrom0
<1>8. Starts(Flat(ss, k), FlattenSeq(ss))
  <2>1. k + (n - k) = n
    BY <1>0
  <2> QED
    BY <1>1, <1>7, <2>1
<1> DEFINE s == Flat(ss, k - 1)
<1>9. s \in Seq(S) /\ ss[k] \in Seq(S) /\ Flat(ss, k) = s \o ss[k]
  BY <1>0, <1>1, <1>2
<1> HIDE DEF s
<1>10. Len(s) \in Nat /\ Len(ss[k]) \in Nat /\ Len(Flat(ss, k)) = Len(s) + Len(ss[k])
  BY <1>9, ConcatProperties
<1>11. ASSUME NEW p \in 1..Len(ss[k]) PROVE Flat(ss, k)[Len(s) + p] = ss[k][p]
  <2>1. Len(s) + p \in 1..(Len(s) + Len(ss[k])) /\ ~(Len(s) + p <= Len(s))
        /\ (Len(s) + p) - Len(s) = p
    BY <1>10
  <2>2. (s \o ss[k])[Len(s) + p] = ss[k][(Len(s) + p) - Len(s)]
    BY <1>9, <2>1, ConcatProperties
  <2> QED
    BY <1>9, <2>1, <2>2
<1>12. ASSUME NEW p \in 1..Len(ss[k]) PROVE FlattenSeq(ss)[Len(s) + p] = ss[k][p]
  <2>1. Len(s) + p \in 1..Len(Flat(ss, k))
    BY <1>10
  <2> QED
    BY <1>8, <1>11, <2>1 DEF Starts
<1> QED
  BY <1>8, <1>9, <1>10, <1>12 DEF Starts, s

-----------------------------------------------------------------------------
(* appendReplacement of a flag it takes as it is *)

Text == Pieces

Base == [out |-> <<>>, escaped |-> FALSE, thrown |-> FALSE]

\* What is made of the first n pieces of a literal flag.
LEMMA LiteralExpands ==
  ASSUME Literal, flag \in Seq(Text)
  PROVE  Expansion = [out |-> flag, escaped |-> FALSE, thrown |-> FALSE]
<1> DEFINE n == Len(flag)
           Add(s, g) == AppendPiece(g[s \ {Max(s)}], flag[Max(s)])
           Fold(g) == [s \in SUBSET DOMAIN flag |-> IF s = {} THEN Base ELSE Add(s, g)]
           iter == CHOOSE g : g = Fold(g)
<1>0. n \in Nat /\ DOMAIN flag = 1..n
  BY LenProperties
<1>1. Expansion = iter[1..n]
  BY <1>0 DEF Expansion, FoldLeft, MapThenFoldSet, Base
<1> DEFINE Folds(k, g) == \A s \in SUBSET (1..k) : g[s] = IF s = {} THEN Base ELSE Add(s, g)
           P == {k \in Nat : \E g : Folds(k, g)}
<1> HIDE DEF Add
<1>2. 0 \in P
  <2> DEFINE g == [s \in {{}} |-> Base]
  <2>1. g[{}] = Base /\ \A s \in SUBSET (1..0) : s = {}
    OBVIOUS
  <2> HIDE DEF g
  <2> QED
    BY <2>1
<1>3. ASSUME NEW k \in 0..(n - 1), k \in P PROVE k + 1 \in P
  <2>1. PICK g : Folds(k, g)
    BY <1>3
  <2> DEFINE last1(s) == AppendPiece(g[s \ {k + 1}], flag[k + 1])
             h == [s \in SUBSET (1..(k + 1)) |-> IF k + 1 \in s THEN last1(s) ELSE g[s]]
  <2>2. k \in Nat /\ k + 1 \in Nat
    BY <1>0
  <2>3. \A s \in SUBSET (1..(k + 1)) : h[s] = IF k + 1 \in s THEN last1(s) ELSE g[s]
    OBVIOUS
  <2> HIDE DEF h
  <2>4. ASSUME NEW s \in SUBSET (1..(k + 1)) PROVE h[s] = IF s = {} THEN Base ELSE Add(s, h)
    <3>1. CASE k + 1 \in s
      <4>1. Max(s) = k + 1
        BY <2>2, <3>1, MaxIs
      <4>2. s \ {k + 1} \in SUBSET (1..(k + 1)) /\ k + 1 \notin s \ {k + 1}
        OBVIOUS
      <4>3. h[s \ {k + 1}] = g[s \ {k + 1}]
        BY <2>3, <4>2
      <4>4. h[s] = AppendPiece(g[s \ {k + 1}], flag[k + 1])
        BY <2>3, <3>1
      <4> QED
        BY <3>1, <4>1, <4>3, <4>4 DEF Add
    <3>2. CASE k + 1 \notin s
      <4>1. s \in SUBSET (1..k)
        BY <2>2, <3>2
      <4>2. h[s] = IF s = {} THEN Base ELSE Add(s, g)
        BY <2>1, <2>3, <3>2, <4>1
      <4>3. s \ {Max(s)} \in SUBSET (1..(k + 1)) /\ k + 1 \notin s \ {Max(s)}
        BY <3>2
      <4>4. h[s \ {Max(s)}] = g[s \ {Max(s)}]
        BY <2>3, <4>3
      <4> QED
        BY <4>2, <4>4 DEF Add
    <3> QED
      BY <3>1, <3>2
  <2> QED
    BY <2>2, <2>4
<1>4. n \in P
  <2>1. n \in 0..n
    BY <1>0
  <2> HIDE DEF P
  <2> QED
    BY <1>0, <1>2, <1>3, <2>1, NumbersFrom0
<1>5. PICK g : Folds(n, g)
  BY <1>4
<1>6. \E x : x = Fold(x)
  <2> DEFINE h == [s \in SUBSET DOMAIN flag |-> g[s]]
  <2>1. \A s \in SUBSET DOMAIN flag : h[s] = g[s] /\ s \ {Max(s)} \in SUBSET DOMAIN flag
    OBVIOUS
  <2>2. h = [s \in SUBSET DOMAIN flag |-> h[s]]
    OBVIOUS
  <2> HIDE DEF h
  <2>3. ASSUME NEW s \in SUBSET DOMAIN flag PROVE h[s] = IF s = {} THEN Base ELSE Add(s, h)
    <3>1. g[s] = IF s = {} THEN Base ELSE Add(s, g)
      BY <1>0, <1>5
    <3>2. h[s] = g[s] /\ h[s \ {Max(s)}] = g[s \ {Max(s)}]
      BY <2>1
    <3> QED
      BY <3>1, <3>2 DEF Add
  <2>4. h = Fold(h)
    BY <2>2, <2>3
  <2> QED
    BY <2>4
<1>7. iter = Fold(iter)
  BY <1>6
<1> HIDE DEF iter
<1>8. \A s \in SUBSET (1..n) : iter[s] = IF s = {} THEN Base ELSE Add(s, iter)
  BY <1>0, <1>7
<1> DEFINE Said(k) == [out |-> SubSeq(flag, 1, k), escaped |-> FALSE, thrown |-> FALSE]
           Q == {k \in Nat : iter[1..k] = Said(k)}
<1>9. 0 \in Q
  <2>1. 1..0 = {} /\ SubSeq(flag, 1, 0) = <<>>
    BY SubSeqEmpty
  <2>2. iter[{}] = Base
    BY <1>8
  <2> QED
    BY <2>1, <2>2 DEF Base
<1>10. ASSUME NEW k \in 0..(n - 1), k \in Q PROVE k + 1 \in Q
  <2>1. /\ k + 1 \in Nat /\ k + 1 \in 1..n /\ 1..(k + 1) # {} /\ k + 1 \in 1..(k + 1)
        /\ (1..(k + 1)) \ {k + 1} = 1..k /\ 1..(k + 1) \in SUBSET (1..n)
    BY <1>0
  <2>2. Max(1..(k + 1)) = k + 1
    BY <2>1, MaxIs
  <2>3. iter[1..(k + 1)] = AppendPiece(Said(k), flag[k + 1])
    BY <1>8, <1>10, <2>1, <2>2 DEF Add
  <2>4. flag[k + 1] \notin Magic /\ flag[k + 1] \in Text
    BY <1>0, <2>1, ElementOfSeq DEF Literal
  <2>5. AppendPiece(Said(k), flag[k + 1])
          = [out |-> Append(SubSeq(flag, 1, k), flag[k + 1]), escaped |-> FALSE, thrown |-> FALSE]
    BY <2>4 DEF AppendPiece, Magic
  <2>6. Append(SubSeq(flag, 1, k), flag[k + 1]) = SubSeq(flag, 1, k + 1)
    <3>1. 1 \in 1..n /\ k + 1 \in 1..n /\ (k + 1) - 1 = k
      BY <1>0, <2>1
    <3>2. SubSeq(flag, 1, k + 1) = SubSeq(flag, 1, k) \o <<flag[k + 1]>>
      BY <2>1, <3>1, SubSeqRecursiveSecond
    <3>3. SubSeq(flag, 1, k) \in Seq(Text)
      <4>1. \A i \in 1..k : flag[i] \in Text
        BY <1>0, <2>1, ElementOfSeq
      <4> QED
        BY <1>0, <4>1, SubSeqProperties
    <3> QED
      BY <2>4, <3>2, <3>3, AppendIsConcat
  <2> QED
    BY <2>1, <2>3, <2>5, <2>6
<1>11. n \in Q
  <2>1. n \in 0..n
    BY <1>0
  <2> HIDE DEF Q
  <2> QED
    BY <1>0, <1>9, <1>10, <2>1, NumbersFrom0
<1>12. SubSeq(flag, 1, n) = flag
  BY SubSeqFull
<1> QED
  BY <1>1, <1>11, <1>12

-----------------------------------------------------------------------------
(* What the matcher makes of a text, before the last replace *)

\* The pieces that are different from each other by what they are for.
LEMMA PiecesDiffer ==
  /\ FlagNames \subseteq Names /\ UsernameNames \subseteq Names
  /\ FlagNames \cap UsernameNames = {}
  /\ Opening \notin Names /\ Closing \notin Names /\ Backslash \notin Names
  /\ Opening # Closing /\ Opening # Backslash /\ Closing # Backslash
BY DEF Names, FlagNames, UsernameNames, Backslash, Opening, Closing

\* No backslash is before the piece at i.
Bare(t, i) == i > 1 => t[i - 1] # Backslash

\* One of the variables known is in the text at i.
Known(t, i) == IsVariable(t, i, Names)

Replaced(t, i) ==
    IF IsVariable(t, i, FlagNames) THEN flag
    ELSE IF IsVariable(t, i, UsernameNames) THEN <<"BRUKERNAVN :)">>
    ELSE IF Known(t, i - 1) \/ Known(t, i - 2) THEN <<>>
    ELSE <<t[i]>>

\* What is known of a variable's three pieces.
LEMMA KnownPieces ==
  ASSUME NEW t \in Seq(Text), NEW i \in Int, Known(t, i)
  PROVE  /\ i \in 1..Len(t) /\ i + 1 \in 1..Len(t) /\ i + 2 \in 1..Len(t)
         /\ Opens(t, i) /\ Begins(t, i) /\ Bare(t, i)
         /\ t[i] = Opening /\ t[i + 1] \in Names /\ t[i + 2] = Closing
<1>1. /\ i \in DOMAIN t /\ i + 2 \in DOMAIN t /\ Begins(t, i)
      /\ t[i + 1] \in Names /\ t[i + 2] = Closing
  BY DEF Known, IsVariable
<1>2. Opens(t, i)
  BY <1>1 DEF Begins
<1>3. DOMAIN t = 1..Len(t) /\ Len(t) \in Nat
  OBVIOUS
<1> QED
  BY <1>1, <1>2, <1>3 DEF Opens, Bare

LEMMA KnownNames ==
  ASSUME NEW t, NEW i
  PROVE  /\ IsVariable(t, i, FlagNames) => Known(t, i) /\ t[i + 1] \in FlagNames
         /\ IsVariable(t, i, UsernameNames) => Known(t, i) /\ t[i + 1] \in UsernameNames
         /\ Known(t, i) /\ t[i + 1] \in FlagNames => IsVariable(t, i, FlagNames)
         /\ Known(t, i) /\ t[i + 1] \in UsernameNames => IsVariable(t, i, UsernameNames)
BY PiecesDiffer DEF Known, IsVariable

Replacements(t) == [i \in 1..Len(t) |-> Replaced(t, i)]

\* The texts with the first k pieces, or all, replaced.
Replacing(t, k) == Flat(Replacements(t), k)

AllReplaced(t) == FlattenSeq(Replacements(t))

\* The piece at i stays, or what is in its place has no backslash, and none before it.
Stays(t, i) == Replaced(t, i) = <<t[i]>>

Replaces(t, i) ==
    /\ t[i] # Backslash /\ Bare(t, i)
    /\ Replaced(t, i) \in Seq(Text)
    /\ \A p \in 1..Len(Replaced(t, i)) : Replaced(t, i)[p] # Backslash

LEMMA StaysOrReplaces ==
  ASSUME Literal, flag \in Seq(Text), NEW t \in Seq(Text), NEW i \in 1..Len(t)
  PROVE  /\ t[i] \in Text
         /\ Stays(t, i) \/ Replaces(t, i)
         /\ ~Bare(t, i) => Stays(t, i)
         /\ Replaced(t, i) \in Seq(Text)
<1>1. t[i] \in Text
  BY ElementOfSeq
<1>2. <<t[i]>> \in Seq(Text)
  BY <1>1
<1>3. <<"BRUKERNAVN :)">> \in Seq(Text)
  <2> DEFINE word == "BRUKERNAVN :)"
  <2>1. word \in Text
    BY ProcesserAssumption DEF Text, Pieces
  <2> HIDE DEF word
  <2>2. <<word>> \in Seq(Text)
    BY <2>1
  <2> QED
    BY <2>2 DEF word
<1>4. CASE IsVariable(t, i, FlagNames)
  <2>1. Replaced(t, i) = flag
    BY <1>4 DEF Replaced
  <2>2. t[i] # Backslash /\ Bare(t, i)
    BY <1>4, KnownNames, KnownPieces, PiecesDiffer
  <2>3. \A p \in 1..Len(flag) : flag[p] # Backslash
    BY LenProperties DEF Literal, Magic
  <2> QED
    BY <1>1, <2>1, <2>2, <2>3 DEF Replaces
<1>5. CASE IsVariable(t, i, UsernameNames) /\ ~IsVariable(t, i, FlagNames)
  <2> DEFINE s == <<"BRUKERNAVN :)">>
  <2>1. Replaced(t, i) = s
    BY <1>5 DEF Replaced
  <2>2. t[i] # Backslash /\ Bare(t, i)
    BY <1>5, KnownNames, KnownPieces, PiecesDiffer
  <2>3. \A p \in 1..Len(s) : s[p] # Backslash
    <3>1. Len(s) = 1 /\ s[1] = "BRUKERNAVN :)" /\ "BRUKERNAVN :)" # Backslash
      BY DEF Backslash
    <3>2. \A p \in 1..1 : p = 1
      OBVIOUS
    <3> HIDE DEF s
    <3> QED
      BY <3>1, <3>2
  <2> HIDE DEF s
  <2> QED
    BY <1>1, <1>3, <2>1, <2>2, <2>3 DEF Replaces, s
<1>6. CASE /\ ~IsVariable(t, i, FlagNames) /\ ~IsVariable(t, i, UsernameNames)
           /\ Known(t, i - 1) \/ Known(t, i - 2)
  <2> DEFINE s == <<>>
  <2>1. Replaced(t, i) = s
    BY <1>6 DEF Replaced
  <2>2. t[i] # Backslash /\ Bare(t, i)
    <3>1. i - 1 \in Int /\ (i - 1) + 1 = i /\ i - 2 \in Int /\ (i - 2) + 1 = i - 1 /\ (i - 2) + 2 = i
      OBVIOUS
    <3>2. CASE Known(t, i - 1)
      <4>1. t[i - 1] = Opening /\ t[i] \in Names
        BY <3>1, <3>2, KnownPieces
      <4> QED
        BY <4>1, PiecesDiffer DEF Bare
    <3>3. CASE Known(t, i - 2)
      <4>1. t[i - 1] \in Names /\ t[i] = Closing
        BY <3>1, <3>3, KnownPieces
      <4> QED
        BY <4>1, PiecesDiffer DEF Bare
    <3> QED
      BY <1>6, <3>2, <3>3
  <2>3. s \in Seq(Text) /\ Len(s) = 0
    BY EmptySeq
  <2>4. \A p \in 1..Len(s) : s[p] # Backslash
    BY <2>3
  <2> HIDE DEF s
  <2> QED
    BY <1>1, <2>1, <2>2, <2>3, <2>4 DEF Replaces
<1>7. CASE /\ ~IsVariable(t, i, FlagNames) /\ ~IsVariable(t, i, UsernameNames)
           /\ ~(Known(t, i - 1) \/ Known(t, i - 2))
  BY <1>1, <1>2, <1>7 DEF Replaced, Stays
<1> QED
  BY <1>4, <1>5, <1>6, <1>7

LEMMA ReplacementsType ==
  ASSUME Literal, flag \in Seq(Text), NEW t \in Seq(Text)
  PROVE  /\ Replacements(t) \in Seq(Seq(Text)) /\ Len(Replacements(t)) = Len(t)
         /\ \A i \in 1..Len(t) : Replacements(t)[i] = Replaced(t, i)
<1>1. \A i \in 1..Len(t) : Replaced(t, i) \in Seq(Text)
  BY StaysOrReplaces
<1>2. Len(t) \in Nat
  OBVIOUS
<1> QED
  BY <1>1, <1>2 DEF Replacements

\* Where the pieces of a text are once all are replaced.
LEMMA Places ==
  ASSUME Literal, flag \in Seq(Text), NEW t \in Seq(Text)
  PROVE  LET r == AllReplaced(t)
             L(k) == Len(Replacing(t, k))
         IN  /\ r \in Seq(Text) /\ L(0) = 0 /\ L(Len(t)) = Len(r)
             /\ \A k \in 0..Len(t) : L(k) \in 0..Len(r)
             /\ \A k \in 1..Len(t) :
                  /\ Stays(t, k) => L(k) = L(k - 1) + 1 /\ r[L(k)] = t[k]
                  /\ L(k) = L(k - 1) + Len(Replaced(t, k))
                  /\ \A p \in 1..Len(Replaced(t, k)) : r[L(k - 1) + p] = Replaced(t, k)[p]
<1> DEFINE r == AllReplaced(t)
           n == Len(t)
           L(k) == Len(Replacing(t, k))
<1>0. n \in Nat
  OBVIOUS
<1>1. /\ Replacements(t) \in Seq(Seq(Text)) /\ Len(Replacements(t)) = n
      /\ \A i \in 1..n : Replacements(t)[i] = Replaced(t, i)
  BY ReplacementsType
<1>2. /\ Replacing(t, 0) = <<>> /\ Replacing(t, n) = r
      /\ \A k \in 0..n : Replacing(t, k) \in Seq(Text)
  BY <1>1, FlatSteps DEF Replacing, AllReplaced
<1>3. ASSUME NEW k \in 1..n
      PROVE  /\ Replaced(t, k) \in Seq(Text) /\ L(k) = L(k - 1) + Len(Replaced(t, k))
             /\ L(k) <= Len(r)
             /\ \A p \in 1..Len(Replaced(t, k)) : r[L(k - 1) + p] = Replaced(t, k)[p]
  <2> DEFINE ss == Replacements(t)
  <2>1. ss \in Seq(Seq(Text)) /\ k \in 1..Len(ss) /\ ss[k] = Replaced(t, k)
    BY <1>1
  <2> HIDE DEF ss
  <2>2. /\ ss[k] \in Seq(Text)
        /\ Len(Flat(ss, k)) = Len(Flat(ss, k - 1)) + Len(ss[k])
        /\ Len(Flat(ss, k)) <= Len(FlattenSeq(ss))
        /\ \A p \in 1..Len(ss[k]) :
             FlattenSeq(ss)[Len(Flat(ss, k - 1)) + p] = ss[k][p]
    BY <2>1, FlatPlaces
  <2> QED
    BY <2>1, <2>2 DEF Replacing, AllReplaced, ss
<1>4. r \in Seq(Text) /\ L(0) = 0 /\ L(n) = Len(r)
  <2>1. n \in 0..n
    BY <1>0
  <2> QED
    BY <1>2, <2>1, EmptySeq
<1>5. \A k \in 0..n : L(k) \in Nat
  BY <1>2, LenProperties
<1> HIDE DEF L, r
<1>6. \A k \in 0..n : L(k) \in 0..Len(r)
  <2>1. Len(r) \in Nat
    BY <1>4
  <2>2. \A k \in 0..n : k = 0 \/ k \in 1..n
    BY <1>0
  <2> QED
    BY <1>3, <1>4, <1>5, <2>1, <2>2
<1>7. ASSUME NEW k \in 1..n, Stays(t, k) PROVE L(k) = L(k - 1) + 1 /\ r[L(k)] = t[k]
  <2> DEFINE s == <<t[k]>>
  <2>1. Len(s) = 1 /\ s[1] = t[k] /\ 1 \in 1..1
    OBVIOUS
  <2>2. Replaced(t, k) = s
    BY <1>7 DEF Stays
  <2> HIDE DEF s
  <2> QED
    BY <1>3, <2>1, <2>2
<1> QED
  BY <1>3, <1>4, <1>6, <1>7 DEF L, r

-----------------------------------------------------------------------------
(* The last replace takes the same backslashes from what the matcher made  *)
(* as the text shown has less: none of them comes from a replacement.      *)

Escapes(r) == {j \in 1..(Len(r) - 2) : /\ r[j] = Backslash /\ r[j + 1] = Backslash
                                       /\ r[j + 2] = Opening}

KeptPiece(r, j) == IF {j, j - 1} \cap Escapes(r) # {} THEN <<>> ELSE <<r[j]>>

Kept(r) == [j \in 1..Len(r) |-> KeptPiece(r, j)]

LEMMA UnescapedIs ==
  ASSUME NEW r \in Seq(Text)
  PROVE  /\ Unescaped(r) = FlattenSeq(Kept(r))
         /\ Kept(r) \in Seq(Seq(Text)) /\ Len(Kept(r)) = Len(r)
         /\ \A j \in 1..Len(r) : Kept(r)[j] = KeptPiece(r, j)
<1>0. Len(r) \in Nat /\ DOMAIN r = 1..Len(r)
  OBVIOUS
<1>1. ASSUME NEW j \in 1..(Len(r) - 2)
      PROVE  SubSeq(r, j, j + 1) = <<Backslash, Backslash>>
               <=> r[j] = Backslash /\ r[j + 1] = Backslash
  <2> DEFINE s == SubSeq(r, j, j + 1)
             two == <<Backslash, Backslash>>
  <2>1. \A i \in j..(j + 1) : r[i] \in Text
    BY <1>0, ElementOfSeq
  <2>2. s = <<r[j], r[j + 1]>>
    <3>1. /\ s \in Seq(Text) /\ Len(s) = 2
          /\ s[1] = r[j] /\ s[2] = r[j + 1]
      BY <1>0, <2>1, SubSeqProperties
    <3> HIDE DEF s
    <3> QED
      BY <3>1
  <2> HIDE DEF s
  <2> QED
    BY <2>2 DEF s
<1>2. Escapes(r) = {j \in 1 .. Len(r) - 2 : /\ SubSeq(r, j, j + 1) = <<Backslash, Backslash>>
                                            /\ r[j + 2] = Opening}
  BY <1>1 DEF Escapes
<1>3. Unescaped(r) = FlattenSeq([j \in 1..Len(r) |-> IF {j, j - 1} \cap Escapes(r) # {}
                                                       THEN <<>> ELSE <<r[j]>>])
  BY <1>0, <1>2 DEF Unescaped
<1>4. ASSUME NEW j \in 1..Len(r) PROVE KeptPiece(r, j) \in Seq(Text)
  <2>1. r[j] \in Text
    BY ElementOfSeq
  <2>2. <<r[j]>> \in Seq(Text) /\ <<>> \in Seq(Text)
    BY <2>1, EmptySeq
  <2> QED
    BY <2>2 DEF KeptPiece
<1>5. Unescaped(r) = FlattenSeq(Kept(r))
  BY <1>3 DEF Kept, KeptPiece
<1> QED
  BY <1>0, <1>4, <1>5 DEF Kept

\* A piece that is no backslash stays.
LEMMA KeptUnlessBackslash ==
  ASSUME NEW r \in Seq(Text), NEW j \in 1..Len(r), r[j] # Backslash
  PROVE  KeptPiece(r, j) = <<r[j]>>
<1>1. j \notin Escapes(r)
  BY DEF Escapes
<1>2. j - 1 \notin Escapes(r)
  <2>1. j - 1 \in Escapes(r) => r[(j - 1) + 1] = Backslash
    BY DEF Escapes
  <2>2. (j - 1) + 1 = j
    OBVIOUS
  <2> QED
    BY <2>1, <2>2
<1> QED
  BY <1>1, <1>2 DEF KeptPiece

\* What is in front of the place of a piece is a backslash where the text has one.
LEMMA BackslashesStay ==
  ASSUME Literal, flag \in Seq(Text), NEW t \in Seq(Text)
  PROVE  LET r == AllReplaced(t)
             L(k) == Len(Replacing(t, k))
         IN  \A k \in 1..Len(t) :
               (L(k) \in 1..Len(r) /\ r[L(k)] = Backslash) <=> t[k] = Backslash
<1> DEFINE r == AllReplaced(t)
           n == Len(t)
           L(k) == Len(Replacing(t, k))
           Ends(k) == L(k) \in 1..Len(r) /\ r[L(k)] = Backslash
           P == {k \in Nat : Ends(k) <=> k >= 1 /\ t[k] = Backslash}
<1>0. n \in Nat
  OBVIOUS
<1>1. /\ r \in Seq(Text) /\ L(0) = 0 /\ L(n) = Len(r)
      /\ \A k \in 0..n : L(k) \in 0..Len(r)
      /\ \A k \in 1..n :
           /\ Stays(t, k) => L(k) = L(k - 1) + 1 /\ r[L(k)] = t[k]
           /\ L(k) = L(k - 1) + Len(Replaced(t, k))
           /\ \A p \in 1..Len(Replaced(t, k)) : r[L(k - 1) + p] = Replaced(t, k)[p]
  BY Places
<1> HIDE DEF L, r
<1>2. Len(r) \in Nat
  BY <1>1
<1>3. 0 \in P
  BY <1>1
<1>4. ASSUME NEW k \in 0..(n - 1), k \in P PROVE k + 1 \in P
  <2>0. /\ k + 1 \in 1..n /\ (k + 1) - 1 = k /\ k + 1 \in Nat /\ k + 1 >= 1
        /\ k \in 0..n /\ k + 1 \in 0..n /\ k + 1 > 1 <=> k >= 1
    BY <1>0
  <2>1. /\ t[k + 1] \in Text
        /\ Stays(t, k + 1) \/ Replaces(t, k + 1)
        /\ Replaced(t, k + 1) \in Seq(Text)
    BY <2>0, StaysOrReplaces
  <2>2. /\ Stays(t, k + 1) => L(k + 1) = L(k) + 1 /\ r[L(k + 1)] = t[k + 1]
        /\ L(k + 1) = L(k) + Len(Replaced(t, k + 1))
        /\ \A p \in 1..Len(Replaced(t, k + 1)) : r[L(k) + p] = Replaced(t, k + 1)[p]
    BY <1>1, <2>0
  <2>3. L(k) \in 0..Len(r) /\ L(k + 1) \in 0..Len(r)
    BY <1>1, <2>0
  <2>4. CASE Stays(t, k + 1)
    <3>1. L(k + 1) \in 1..Len(r)
      BY <1>2, <2>2, <2>3, <2>4
    <3>2. Ends(k + 1) <=> t[k + 1] = Backslash
      BY <2>2, <2>4, <3>1
    <3> QED
      BY <2>0, <3>2
  <2>5. CASE Replaces(t, k + 1)
    <3> DEFINE s == Replaced(t, k + 1)
    <3>1. /\ t[k + 1] # Backslash
          /\ k + 1 > 1 => t[(k + 1) - 1] # Backslash
          /\ \A p \in 1..Len(s) : s[p] # Backslash
      BY <2>5 DEF Replaces, Bare
    <3>2. s \in Seq(Text) /\ Len(s) \in Nat
      BY <2>1
    <3>3. ~Ends(k)
      BY <1>4, <2>0, <3>1
    <3>4. L(k + 1) = L(k) + Len(s) /\ \A p \in 1..Len(s) : r[L(k) + p] = s[p]
      BY <2>2
    <3> HIDE DEF s
    <3>5. CASE Len(s) = 0
      <4>1. L(k + 1) = L(k)
        BY <2>3, <3>4, <3>5
      <4>2. ~Ends(k + 1)
        BY <3>3, <4>1
      <4> QED
        BY <2>0, <3>1, <4>2
    <3>6. CASE Len(s) # 0
      <4>1. Len(s) \in 1..Len(s)
        BY <3>2, <3>6
      <4>2. r[L(k + 1)] # Backslash
        BY <3>1, <3>4, <4>1
      <4> QED
        BY <2>0, <3>1, <4>2
    <3> QED
      BY <3>5, <3>6
  <2> QED
    BY <2>1, <2>4, <2>5
<1>5. \A k \in 0..n : k \in P
  <2> HIDE DEF P
  <2> QED
    BY <1>0, <1>3, <1>4, NumbersFrom0
<1>6. \A k \in 1..n : Ends(k) <=> t[k] = Backslash
  <2>1. \A k \in 1..n : k \in 0..n /\ k >= 1
    BY <1>0
  <2> QED
    BY <1>5, <2>1
<1> QED
  BY <1>6 DEF L, r

\* The two backslashes before an opening, in the text.
Escaping(t, j) ==
    /\ j \in 1..Len(t) /\ t[j] = Backslash
    /\ j + 1 \in 1..Len(t) /\ t[j + 1] = Backslash
    /\ j + 2 \in 1..Len(t) /\ t[j + 2] = Opening

\* Where they are in what the matcher made.
LEMMA EscapesStay ==
  ASSUME Literal, flag \in Seq(Text), NEW t \in Seq(Text), NEW k \in 1..Len(t),
         t[k] = Backslash
  PROVE  Len(Replacing(t, k)) \in Escapes(AllReplaced(t)) <=> Escaping(t, k)
<1> DEFINE r == AllReplaced(t)
           n == Len(t)
           L(i) == Len(Replacing(t, i))
<1>0. n \in Nat
  OBVIOUS
<1>1. /\ r \in Seq(Text) /\ L(n) = Len(r)
      /\ \A i \in 0..n : L(i) \in 0..Len(r)
      /\ \A i \in 1..n : Stays(t, i) => L(i) = L(i - 1) + 1 /\ r[L(i)] = t[i]
  BY Places
<1>2. \A i \in 1..n : (L(i) \in 1..Len(r) /\ r[L(i)] = Backslash) <=> t[i] = Backslash
  BY BackslashesStay
<1> HIDE DEF L, r
<1>3. Len(r) \in Nat
  BY <1>1
<1>4. ASSUME NEW i \in 1..n, t[i] = Backslash, i + 1 \in 1..n
      PROVE  L(i + 1) = L(i) + 1 /\ r[L(i) + 1] = t[i + 1] /\ L(i) + 1 \in 1..Len(r)
  <2>1. (i + 1) - 1 = i /\ i + 1 > 1 /\ i \in 0..n /\ i + 1 \in 0..n
    BY <1>0, <1>4
  <2>2. Stays(t, i + 1)
    BY <1>4, <2>1, StaysOrReplaces DEF Bare
  <2>3. L(i + 1) = L(i) + 1 /\ r[L(i + 1)] = t[i + 1]
    BY <1>1, <1>4, <2>1, <2>2
  <2>4. L(i) \in Nat /\ L(i + 1) \in 0..Len(r)
    BY <1>1, <2>1
  <2> QED
    BY <1>3, <2>3, <2>4
<1>5. L(k) \in 1..Len(r) /\ r[L(k)] = Backslash
  BY <1>2
<1>6. CASE k = n
  <2>1. L(k) = Len(r)
    BY <1>1, <1>6
  <2>2. L(k) \notin Escapes(r)
    BY <1>3, <2>1 DEF Escapes
  <2>3. ~Escaping(t, k)
    BY <1>0, <1>6 DEF Escaping
  <2> QED
    BY <2>2, <2>3 DEF L, r
<1>7. CASE k # n
  <2>1. k + 1 \in 1..n
    BY <1>0, <1>7
  <2>2. L(k + 1) = L(k) + 1 /\ r[L(k) + 1] = t[k + 1]
    BY <1>4, <2>1
  <2>3. CASE t[k + 1] # Backslash
    BY <2>2, <2>3 DEF Escapes, Escaping, L, r
  <2>4. CASE t[k + 1] = Backslash /\ k + 1 = n
    <3>1. L(k) + 1 = Len(r)
      BY <1>1, <2>2, <2>4
    <3>2. L(k) \notin Escapes(r)
      BY <1>3, <1>5, <3>1 DEF Escapes
    <3>3. ~Escaping(t, k)
      BY <1>0, <2>4 DEF Escaping
    <3> QED
      BY <3>2, <3>3 DEF L, r
  <2>5. CASE t[k + 1] = Backslash /\ k + 1 # n
    <3>1. (k + 1) + 1 \in 1..n /\ (k + 1) + 1 = k + 2
      BY <1>0, <2>1, <2>5
    <3>2. r[L(k + 1) + 1] = t[k + 2] /\ L(k + 1) + 1 \in 1..Len(r)
      BY <1>4, <2>1, <2>5, <3>1
    <3>3. (L(k) + 1) + 1 = L(k) + 2 /\ L(k) \in 1..(Len(r) - 2) /\ r[L(k) + 2] = t[k + 2]
      BY <1>3, <1>5, <2>2, <3>2
    <3>4. L(k) \in Escapes(r) <=> t[k + 2] = Opening
      BY <1>5, <2>2, <2>5, <3>3 DEF Escapes
    <3>5. Escaping(t, k) <=> t[k + 2] = Opening
      BY <2>1, <2>5, <3>1 DEF Escaping
    <3> QED
      BY <3>4, <3>5 DEF L, r
  <2> QED
    BY <2>3, <2>4, <2>5
<1> QED
  BY <1>6, <1>7

-----------------------------------------------------------------------------
(* A text whose every piece is replaced, and then unescaped, is the text   *)
(* shown.                                                                  *)

LEMMA Joined ==
  \A a, b, c \in Seq(Text) : (a \o b) \o c = a \o (b \o c)
<1> DEFINE S == Text
<1> HIDE DEF S
<1>1. \A a, b, c \in Seq(S) : (a \o b) \o c = a \o (b \o c)
  <2>1. ASSUME NEW a \in Seq(S), NEW b \in Seq(S), NEW c \in Seq(S)
        PROVE  (a \o b) \o c = a \o (b \o c)
    BY ConcatAssociative
  <2> QED
    BY <2>1
<1> QED
  BY <1>1 DEF S

Shows(t) == [i \in 1..Len(t) |-> ShownPiece(t, i)]

LEMMA EscapeIs ==
  ASSUME NEW t \in Seq(Text), NEW i \in Int
  PROVE  IsEscape(t, i) <=> Escaping(t, i)
<1>0. Len(t) \in Nat /\ DOMAIN t = 1..Len(t)
  OBVIOUS
<1>1. CASE i \in 1..Len(t) /\ i + 2 \in 1..Len(t)
  <2> DEFINE s == SubSeq(t, i, i + 2)
  <2>1. /\ \A j \in i..(i + 2) : t[j] \in Text
        /\ i + 1 \in 1..Len(t) /\ i \in Nat /\ i + 2 \in Nat /\ i + 2 <= Len(t) /\ 1 <= i
    BY <1>0, <1>1, ElementOfSeq
  <2>2. s = <<t[i], t[i + 1], t[i + 2]>>
    <3>1. s \in Seq(Text) /\ Len(s) = 3 /\ s[1] = t[i] /\ s[2] = t[i + 1] /\ s[3] = t[i + 2]
      BY <1>0, <1>1, <2>1, SubSeqProperties
    <3> HIDE DEF s
    <3> QED
      BY <3>1
  <2>3. IsEscape(t, i) <=> s = <<Backslash, Backslash, Opening>>
    BY <1>0, <1>1 DEF IsEscape
  <2> HIDE DEF s
  <2> QED
    BY <1>1, <2>1, <2>2, <2>3 DEF Escaping
<1>2. CASE ~(i \in 1..Len(t) /\ i + 2 \in 1..Len(t))
  BY <1>0, <1>2 DEF IsEscape, Escaping
<1> QED
  BY <1>1, <1>2

LEMMA ShowsPieces ==
  ASSUME Literal, flag \in Seq(Text), NEW t \in Seq(Text)
  PROVE  /\ Shows(t) \in Seq(Seq(Text)) /\ Len(Shows(t)) = Len(t)
         /\ t # NonString => Shown(t) = FlattenSeq(Shows(t))
         /\ \A i \in 1..Len(t) :
              /\ Shows(t)[i] \in Seq(Text)
              /\ t[i] # Backslash => Shows(t)[i] = Replaced(t, i)
              /\ t[i] = Backslash =>
                   Shows(t)[i] = IF Escaping(t, i) \/ Escaping(t, i - 1) THEN <<>> ELSE <<t[i]>>
<1>0. Len(t) \in Nat /\ DOMAIN t = 1..Len(t)
  OBVIOUS
<1>1. ASSUME NEW i \in 1..Len(t)
      PROVE  /\ ShownPiece(t, i) \in Seq(Text)
             /\ t[i] # Backslash => ShownPiece(t, i) = Replaced(t, i)
             /\ t[i] = Backslash =>
                  ShownPiece(t, i)
                    = IF Escaping(t, i) \/ Escaping(t, i - 1) THEN <<>> ELSE <<t[i]>>
  <2> DEFINE flagAt == IsVariable(t, i, FlagNames)
             userAt == IsVariable(t, i, UsernameNames)
             inside == Known(t, i - 1) \/ Known(t, i - 2)
             escaped == Escaping(t, i) \/ Escaping(t, i - 1)
  <2>0. /\ i - 1 \in Int /\ (i - 1) + 1 = i /\ i - 2 \in Int /\ (i - 2) + 1 = i - 1
        /\ (i - 2) + 2 = i
    OBVIOUS
  <2>1. ShownPiece(t, i) = CASE flagAt -> flag
                             [] userAt -> <<"BRUKERNAVN :)">>
                             [] inside \/ escaped -> <<>>
                             [] OTHER -> <<t[i]>>
    <3>1. (IsEscape(t, i) <=> Escaping(t, i)) /\ (IsEscape(t, i - 1) <=> Escaping(t, i - 1))
      BY <2>0, EscapeIs
    <3>2. (inside \/ escaped)
            <=> \/ IsVariable(t, i - 1, Names) \/ IsVariable(t, i - 2, Names)
                \/ IsEscape(t, i) \/ IsEscape(t, i - 1)
      BY <3>1 DEF Known
    <3> HIDE DEF inside, escaped
    <3> QED
      BY <3>2 DEF ShownPiece
  <2>2. Replaced(t, i) = IF flagAt THEN flag
                         ELSE IF userAt THEN <<"BRUKERNAVN :)">>
                         ELSE IF inside THEN <<>> ELSE <<t[i]>>
    BY DEF Replaced
  <2>3. escaped => t[i] = Backslash
    BY <2>0 DEF Escaping
  <2>4. /\ flagAt => t[i] = Opening /\ t[i + 1] \in FlagNames
        /\ userAt => t[i] = Opening /\ t[i + 1] \in UsernameNames
    BY KnownNames, KnownPieces
  <2>5. inside => t[i] \in Names \/ t[i] = Closing
    <3>1. Known(t, i - 1) => t[i] \in Names
      BY <2>0, KnownPieces
    <3>2. Known(t, i - 2) => t[i] = Closing
      BY <2>0, KnownPieces
    <3> QED
      BY <3>1, <3>2
  <2> HIDE DEF flagAt, userAt, inside, escaped
  <2>6. t[i] # Backslash => ShownPiece(t, i) = Replaced(t, i)
    BY <2>1, <2>2, <2>3, <2>4, <2>5, PiecesDiffer
  <2>7. t[i] = Backslash => ShownPiece(t, i) = IF escaped THEN <<>> ELSE <<t[i]>>
    BY <2>1, <2>4, <2>5, PiecesDiffer
  <2>8. Replaced(t, i) \in Seq(Text) /\ <<t[i]>> \in Seq(Text) /\ <<>> \in Seq(Text)
    <3>1. t[i] \in Text
      BY ElementOfSeq
    <3>2. <<t[i]>> \in Seq(Text)
      BY <3>1
    <3> QED
      BY <3>2, StaysOrReplaces, EmptySeq
  <2> QED
    BY <2>6, <2>7, <2>8 DEF escaped
<1>2. t # NonString => Shown(t) = FlattenSeq(Shows(t))
  BY <1>0 DEF Shown, Shows
<1> QED
  BY <1>0, <1>1, <1>2 DEF Shows

LEMMA ReplacedIsShown ==
  ASSUME Literal, flag \in Seq(Text), NEW t \in Seq(Text), t # NonString
  PROVE  Unescaped(AllReplaced(t)) = Shown(t)
<1> DEFINE r == AllReplaced(t)
           n == Len(t)
           L(k) == Len(Replacing(t, k))
           K(j) == Flat(Kept(r), j)
           F(k) == Flat(Shows(t), k)
           P == {k \in Nat : K(L(k)) = F(k)}
<1>0. n \in Nat
  OBVIOUS
<1>1. /\ r \in Seq(Text) /\ L(0) = 0 /\ L(n) = Len(r)
      /\ \A k \in 0..n : L(k) \in 0..Len(r)
      /\ \A k \in 1..n :
           /\ Stays(t, k) => L(k) = L(k - 1) + 1 /\ r[L(k)] = t[k]
           /\ L(k) = L(k - 1) + Len(Replaced(t, k))
           /\ \A p \in 1..Len(Replaced(t, k)) : r[L(k - 1) + p] = Replaced(t, k)[p]
  BY Places
<1>2. \A k \in 1..n : (L(k) \in 1..Len(r) /\ r[L(k)] = Backslash) <=> t[k] = Backslash
  BY BackslashesStay
<1>3. \A k \in 1..n : t[k] = Backslash => (L(k) \in Escapes(r) <=> Escaping(t, k))
  BY EscapesStay
<1>4. /\ Unescaped(r) = FlattenSeq(Kept(r))
      /\ Kept(r) \in Seq(Seq(Text)) /\ Len(Kept(r)) = Len(r)
      /\ \A j \in 1..Len(r) : Kept(r)[j] = KeptPiece(r, j)
  BY <1>1, UnescapedIs
<1>5. /\ K(0) = <<>> /\ K(Len(r)) = Unescaped(r)
      /\ \A j \in 0..Len(r) : K(j) \in Seq(Text)
      /\ \A j \in 1..Len(r) : K(j) = K(j - 1) \o KeptPiece(r, j)
  BY <1>4, FlatSteps
<1>6. \A j \in 1..Len(r) : r[j] # Backslash => KeptPiece(r, j) = <<r[j]>>
  BY <1>1, KeptUnlessBackslash
<1>7. /\ Shows(t) \in Seq(Seq(Text)) /\ Len(Shows(t)) = n
      /\ Shown(t) = FlattenSeq(Shows(t))
      /\ \A i \in 1..n :
           /\ t[i] # Backslash => Shows(t)[i] = Replaced(t, i)
           /\ t[i] = Backslash =>
                Shows(t)[i] = IF Escaping(t, i) \/ Escaping(t, i - 1) THEN <<>> ELSE <<t[i]>>
  BY ShowsPieces
<1>8. /\ F(0) = <<>> /\ F(n) = Shown(t)
      /\ \A k \in 0..n : F(k) \in Seq(Text)
      /\ \A k \in 1..n : F(k) = F(k - 1) \o Shows(t)[k]
  BY <1>7, FlatSteps
<1> HIDE DEF L, r, K, F
<1>9. Len(r) \in Nat
  BY <1>1
<1>10. 0 \in P
  BY <1>1, <1>5, <1>8
<1>11. ASSUME NEW k \in 0..(n - 1), k \in P PROVE k + 1 \in P
  <2> DEFINE i == k + 1
             s == Replaced(t, i)
  <2>0. i \in 1..n /\ i - 1 = k /\ i \in Nat /\ k \in 0..n /\ i \in 0..n /\ (i > 1 => k \in 1..n)
    BY <1>0
  <2>1. Stays(t, i) \/ Replaces(t, i)
    BY <2>0, StaysOrReplaces
  <2>2. s \in Seq(Text)
    BY <2>0, StaysOrReplaces
  <2>3. /\ Stays(t, i) => L(i) = L(k) + 1 /\ r[L(i)] = t[i]
        /\ L(i) = L(k) + Len(s)
        /\ \A p \in 1..Len(s) : r[L(k) + p] = s[p]
    BY <1>1, <2>0
  <2>4. L(k) \in 0..Len(r) /\ L(i) \in 0..Len(r) /\ L(k) \in Nat /\ L(i) \in Nat
    BY <1>1, <1>9, <2>0
  <2>5. K(L(k)) = F(k) /\ F(k) \in Seq(Text)
    BY <1>8, <1>11, <2>0
  <2>6. F(i) = F(k) \o Shows(t)[i]
    BY <1>8, <2>0
  <2>7. /\ t[i] # Backslash => Shows(t)[i] = s
        /\ t[i] = Backslash =>
             Shows(t)[i] = IF Escaping(t, i) \/ Escaping(t, k) THEN <<>> ELSE <<t[i]>>
    BY <1>7, <2>0
  <2>8. ASSUME \A p \in 1..Len(s) : s[p] # Backslash PROVE K(L(i)) = F(k) \o s
    <3> DEFINE Q == {p \in Nat : K(L(k) + p) = F(k) \o SubSeq(s, 1, p)}
    <3> HIDE DEF s
    <3>0. Len(s) \in Nat
      BY <2>2
    <3>1. 0 \in Q
      <4>1. SubSeq(s, 1, 0) = <<>> /\ L(k) + 0 = L(k)
        BY <2>2, <2>4, SubSeqEmpty
      <4>2. F(k) \o <<>> = F(k)
        BY <2>5, ConcatEmptySeq
      <4> QED
        BY <2>5, <4>1, <4>2
    <3>2. ASSUME NEW p \in 0..(Len(s) - 1), p \in Q PROVE p + 1 \in Q
      <4>0. /\ p + 1 \in 1..Len(s) /\ p \in Nat /\ p + 1 \in Nat /\ p \in 0..Len(s)
            /\ 1 \in 1..Len(s) /\ (p + 1) - 1 = p
        BY <3>0
      <4>1. /\ L(k) + (p + 1) \in 1..Len(r) /\ (L(k) + (p + 1)) - 1 = L(k) + p
        BY <1>9, <2>3, <2>4, <3>0, <4>0
      <4>2. r[L(k) + (p + 1)] = s[p + 1] /\ s[p + 1] # Backslash
        BY <2>3, <2>8, <4>0
      <4>3. K(L(k) + (p + 1)) = K(L(k) + p) \o <<s[p + 1]>>
        BY <1>5, <1>6, <4>1, <4>2
      <4>4. SubSeq(s, 1, p + 1) = SubSeq(s, 1, p) \o <<s[p + 1]>>
        BY <2>2, <4>0, SubSeqRecursiveSecond
      <4>5. SubSeq(s, 1, p) \in Seq(Text) /\ s[p + 1] \in Text
        <5>1. \A q \in 1..p : s[q] \in Text
          BY <2>2, <3>0, <4>0, ElementOfSeq
        <5> QED
          BY <2>2, <4>0, <5>1, ElementOfSeq, SubSeqProperties
      <4>6. <<s[p + 1]>> \in Seq(Text)
        BY <4>5
      <4>7. (F(k) \o SubSeq(s, 1, p)) \o <<s[p + 1]>>
              = F(k) \o (SubSeq(s, 1, p) \o <<s[p + 1]>>)
        <5> DEFINE a == F(k)
                   b == SubSeq(s, 1, p)
                   c == <<s[p + 1]>>
        <5>1. a \in Seq(Text) /\ b \in Seq(Text) /\ c \in Seq(Text)
          BY <2>5, <4>5, <4>6
        <5> HIDE DEF a, b, c
        <5>2. (a \o b) \o c = a \o (b \o c)
          BY <5>1, Joined
        <5> QED
          BY <5>2 DEF a, b, c
      <4>8. K(L(k) + p) = F(k) \o SubSeq(s, 1, p)
        BY <3>2
      <4> QED
        BY <4>0, <4>3, <4>4, <4>7, <4>8
    <3>3. Len(s) \in Q
      <4>1. Len(s) \in 0..Len(s)
        BY <3>0
      <4> HIDE DEF Q
      <4> QED
        BY <3>0, <3>1, <3>2, <4>1, NumbersFrom0
    <3>4. SubSeq(s, 1, Len(s)) = s
      BY <2>2, SubSeqFull
    <3> QED
      BY <2>3, <3>3, <3>4
  <2>9. CASE Replaces(t, i)
    <3>1. t[i] # Backslash /\ \A p \in 1..Len(s) : s[p] # Backslash
      BY <2>9 DEF Replaces
    <3>2. K(L(i)) = F(k) \o s
      BY <2>8, <3>1
    <3> QED
      BY <2>0, <2>6, <2>7, <3>1, <3>2
  <2>10. CASE Stays(t, i) /\ t[i] # Backslash
    <3>1. s = <<t[i]>>
      BY <2>10 DEF Stays
    <3>2. L(i) = L(k) + 1 /\ r[L(i)] = t[i] /\ L(i) \in 1..Len(r) /\ L(i) - 1 = L(k)
      BY <2>3, <2>4, <2>10
    <3>3. K(L(i)) = F(k) \o <<t[i]>>
      BY <1>5, <1>6, <2>5, <2>10, <3>2
    <3> QED
      BY <2>0, <2>6, <2>7, <2>10, <3>1, <3>3
  <2>11. CASE Stays(t, i) /\ t[i] = Backslash
    <3>1. L(i) = L(k) + 1 /\ r[L(i)] = t[i] /\ L(i) \in 1..Len(r) /\ L(i) - 1 = L(k)
      BY <2>3, <2>4, <2>11
    <3>2. K(L(i)) = F(k) \o KeptPiece(r, L(i))
      BY <1>5, <2>5, <3>1
    <3>3. L(i) \in Escapes(r) <=> Escaping(t, i)
      BY <1>3, <2>0, <2>11
    <3>4. L(k) \in Escapes(r) <=> Escaping(t, k)
      <4>1. CASE k \in 1..n /\ t[k] = Backslash
        BY <1>3, <4>1
      <4>2. CASE k \in 1..n /\ t[k] # Backslash
        <5>1. L(k) \notin Escapes(r)
          <6>1. ~(L(k) \in 1..Len(r) /\ r[L(k)] = Backslash)
            BY <1>2, <4>2
          <6>2. L(k) \in Escapes(r) => L(k) \in 1..Len(r) /\ r[L(k)] = Backslash
            BY <1>9 DEF Escapes
          <6> QED
            BY <6>1, <6>2
        <5> QED
          BY <4>2, <5>1 DEF Escaping
      <4>3. CASE k = 0
        <5>1. L(k) = 0 /\ 0 \notin Escapes(r)
          BY <1>1, <4>3 DEF Escapes
        <5> QED
          BY <1>0, <4>3, <5>1 DEF Escaping
      <4> QED
        BY <1>0, <4>1, <4>2, <4>3
    <3>5. KeptPiece(r, L(i)) = IF L(i) \in Escapes(r) \/ L(k) \in Escapes(r)
                               THEN <<>> ELSE <<r[L(i)]>>
      BY <3>1 DEF KeptPiece
    <3>6. KeptPiece(r, L(i)) = Shows(t)[i]
      BY <2>7, <2>11, <3>1, <3>3, <3>4, <3>5
    <3> QED
      BY <2>0, <2>6, <3>2, <3>6
  <2> QED
    BY <2>1, <2>9, <2>10, <2>11
<1>12. n \in P
  <2>1. n \in 0..n
    BY <1>0
  <2> HIDE DEF P
  <2> QED
    BY <1>0, <1>10, <1>11, <2>1, NumbersFrom0
<1> QED
  BY <1>1, <1>5, <1>8, <1>12 DEF r

-----------------------------------------------------------------------------
(* The loop of processPart *)

LEMMA MinIs ==
  ASSUME NEW S, S \subseteq Nat, S # {}
  PROVE  Min(S) \in S /\ \A y \in S : Min(S) <= y
<1>1. \E x \in S : \A y \in S : x <= y
  <2> SUFFICES ASSUME \A x \in S : \E y \in S : ~(x <= y) PROVE FALSE
    OBVIOUS
  <2> DEFINE P == {k \in Nat : \A i \in 0..k : i \notin S}
  <2>1. PICK x \in S : TRUE
    OBVIOUS
  <2>2. 0 \in P
    <3>1. \A y \in S : 0 <= y
      OBVIOUS
    <3>2. 0 \notin S
      BY <3>1
    <3> QED
      BY <3>2
  <2>3. ASSUME NEW k \in 0..(x - 1), k \in P PROVE k + 1 \in P
    <3>1. k \in Nat /\ x \in Nat
      OBVIOUS
    <3>2. \A y \in S : y \in Nat /\ y \notin 0..k
      BY <2>3
    <3>3. \A y \in S : k + 1 <= y
      BY <3>1, <3>2
    <3>4. k + 1 \notin S
      BY <3>3
    <3> QED
      BY <3>1, <3>2, <3>4
  <2>4. x \in P
    <3>1. x \in Nat /\ x \in 0..x
      OBVIOUS
    <3> HIDE DEF P
    <3> QED
      BY <2>2, <2>3, <3>1, NumbersFrom0
  <2> QED
    BY <2>4
<1> QED
  BY <1>1 DEF Min

\* With the matcher at p, its append position at l and the buffer b: all in
\* front of p is replaced, or is still to be appended as it is.
Reads(t, p, l, b) ==
    /\ p \in 1..(Len(t) + 1) /\ l \in 1..p /\ b \in Seq(Text)
    /\ b \o SubSeq(t, l, p - 1) = Replacing(t, p - 1)

LEMMA ReplacingSteps ==
  ASSUME Literal, flag \in Seq(Text), NEW t \in Seq(Text)
  PROVE  /\ Replacing(t, 0) = <<>> /\ Replacing(t, Len(t)) = AllReplaced(t)
         /\ \A k \in 0..Len(t) : Replacing(t, k) \in Seq(Text)
         /\ \A k \in 1..Len(t) : Replacing(t, k) = Replacing(t, k - 1) \o Replaced(t, k)
<1> DEFINE ss == Replacements(t)
<1>1. /\ ss \in Seq(Seq(Text)) /\ Len(ss) = Len(t)
      /\ \A i \in 1..Len(t) : ss[i] = Replaced(t, i)
  BY ReplacementsType
<1> HIDE DEF ss
<1>2. /\ Flat(ss, 0) = <<>> /\ Flat(ss, Len(ss)) = FlattenSeq(ss)
      /\ \A k \in 0..Len(ss) : Flat(ss, k) \in Seq(Text)
      /\ \A k \in 1..Len(ss) : Flat(ss, k) = Flat(ss, k - 1) \o ss[k]
  BY <1>1, FlatSteps
<1> QED
  BY <1>1, <1>2 DEF Replacing, AllReplaced, ss

\* What is passed over needs no more than the append position to stay.
LEMMA ReadsOn ==
  ASSUME Literal, flag \in Seq(Text), NEW t \in Seq(Text),
         NEW p, NEW l, NEW b, Reads(t, p, l, b),
         NEW m \in p..(Len(t) + 1), \A i \in p..(m - 1) : Stays(t, i)
  PROVE  Reads(t, m, l, b)
<1> DEFINE n == Len(t)
           R(k) == Replacing(t, k)
<1>0. /\ n \in Nat /\ p \in 1..(n + 1) /\ l \in 1..p /\ b \in Seq(Text) /\ m \in Nat /\ p \in Nat
      /\ l \in Nat /\ b \o SubSeq(t, l, p - 1) = R(p - 1)
  <2>1. /\ p \in 1..(n + 1) /\ l \in 1..p /\ b \in Seq(Text)
        /\ b \o SubSeq(t, l, p - 1) = R(p - 1)
    BY DEF Reads
  <2>2. n \in Nat
    OBVIOUS
  <2>3. p \in Nat /\ l \in Nat
    BY <2>1, <2>2
  <2>4. m \in Nat
    BY <2>2, <2>3
  <2> QED
    BY <2>1, <2>2, <2>3, <2>4
<1>1. \A k \in 1..n : R(k) = R(k - 1) \o Replaced(t, k)
  BY ReplacingSteps
<1> HIDE DEF R
<1> DEFINE P == {d \in Nat : b \o SubSeq(t, l, (p + d) - 1) = R((p + d) - 1)}
<1>2. 0 \in P
  <2>1. p + 0 = p
    BY <1>0
  <2> QED
    BY <1>0, <2>1
<1>3. ASSUME NEW d \in 0..((m - p) - 1), d \in P PROVE d + 1 \in P
  <2> DEFINE i == p + d
  <2>0. /\ i \in 1..n /\ i \in p..(m - 1) /\ (p + (d + 1)) - 1 = i /\ d + 1 \in Nat
        /\ (p + d) - 1 = i - 1 /\ l \in 1..n /\ l <= i /\ i - 1 \in 0..n
    BY <1>0
  <2>1. Replaced(t, i) = <<t[i]>>
    BY <2>0 DEF Stays
  <2>2. R(i) = R(i - 1) \o <<t[i]>>
    BY <1>1, <2>0, <2>1
  <2>3. b \o SubSeq(t, l, i - 1) = R(i - 1)
    BY <1>3, <2>0
  <2> HIDE DEF i
  <2>4. SubSeq(t, l, i) = SubSeq(t, l, i - 1) \o <<t[i]>>
    BY <2>0, SubSeqRecursiveSecond
  <2>5. SubSeq(t, l, i - 1) \in Seq(Text) /\ <<t[i]>> \in Seq(Text)
    <3>1. \A q \in l..(i - 1) : t[q] \in Text
      BY <1>0, <2>0, ElementOfSeq
    <3>2. t[i] \in Text
      BY <2>0, ElementOfSeq
    <3>3. SubSeq(t, l, i - 1) \in Seq(Text)
      BY <1>0, <2>0, <3>1, SubSeqProperties
    <3> QED
      BY <3>2, <3>3
  <2>6. b \o SubSeq(t, l, i) = R(i)
    <3> DEFINE u == SubSeq(t, l, i - 1)
               v == <<t[i]>>
    <3>1. u \in Seq(Text) /\ v \in Seq(Text) /\ b \in Seq(Text)
      BY <1>0, <2>5
    <3>2. SubSeq(t, l, i) = u \o v /\ b \o u = R(i - 1) /\ R(i) = R(i - 1) \o v
      BY <2>2, <2>3, <2>4
    <3> HIDE DEF u, v
    <3>3. (b \o u) \o v = b \o (u \o v)
      BY <3>1, Joined
    <3> QED
      BY <3>2, <3>3
  <2> QED
    BY <2>0, <2>6
<1>4. m - p \in P
  <2>1. m - p \in Nat /\ m - p \in 0..(m - p)
    BY <1>0
  <2> HIDE DEF P
  <2> QED
    BY <1>2, <1>3, <2>1, NumbersFrom0
<1>5. p + (m - p) = m /\ m \in 1..(n + 1) /\ l \in 1..m
  BY <1>0
<1> QED
  BY <1>0, <1>4, <1>5 DEF Reads, R

\* A variable of three pieces is replaced by what is in the place of the first.
LEMMA ReadsMatch ==
  ASSUME Literal, flag \in Seq(Text), NEW t \in Seq(Text),
         NEW m \in 1..Len(t), Known(t, m), NEW l, NEW b, Reads(t, m, l, b)
  PROVE  Reads(t, m + 3, m + 3, (b \o SubSeq(t, l, m - 1)) \o Replaced(t, m))
<1> DEFINE c == (b \o SubSeq(t, l, m - 1)) \o Replaced(t, m)
<1>0. /\ Len(t) \in Nat /\ m \in Nat /\ m \in 0..Len(t)
      /\ (m + 1) - 1 = m /\ (m + 2) - 1 = m + 1 /\ (m + 2) - 2 = m /\ (m + 3) - 1 = m + 2
  OBVIOUS
<1>1. /\ m + 1 \in 1..Len(t) /\ m + 2 \in 1..Len(t)
      /\ t[m + 1] \in Names /\ t[m + 2] = Closing
  BY <1>0, KnownPieces
<1>2. m + 3 \in 1..(Len(t) + 1) /\ m + 3 \in 1..(m + 3) /\ m + 3 > m + 2 /\ m + 2 \in 0..Len(t)
  BY <1>0, <1>1
<1>3. /\ \A k \in 0..Len(t) : Replacing(t, k) \in Seq(Text)
      /\ \A k \in 1..Len(t) : Replacing(t, k) = Replacing(t, k - 1) \o Replaced(t, k)
  BY ReplacingSteps
<1>4. c = Replacing(t, m)
  BY <1>3 DEF Reads
<1>5. Replaced(t, m + 1) = <<>> /\ Replaced(t, m + 2) = <<>>
  <2>1. ~Known(t, m + 1) /\ ~Known(t, m + 2)
    BY <1>0, <1>1, KnownPieces, PiecesDiffer
  <2>2. /\ ~IsVariable(t, m + 1, FlagNames) /\ ~IsVariable(t, m + 1, UsernameNames)
        /\ ~IsVariable(t, m + 2, FlagNames) /\ ~IsVariable(t, m + 2, UsernameNames)
    BY <2>1, KnownNames
  <2>3. Known(t, (m + 1) - 1) /\ Known(t, (m + 2) - 2)
    BY <1>0
  <2> QED
    BY <2>2, <2>3 DEF Replaced
<1>6. Replacing(t, m + 1) = Replacing(t, m) \o <<>>
  BY <1>0, <1>1, <1>3, <1>5
<1>7. Replacing(t, m + 2) = Replacing(t, m + 1) \o <<>>
  BY <1>0, <1>1, <1>3, <1>5
<1>8. c \in Seq(Text)
  BY <1>0, <1>3, <1>4
<1> HIDE DEF c
<1>9. Replacing(t, m + 2) = c
  BY <1>4, <1>6, <1>7, <1>8, ConcatEmptySeq
<1>10. c \o SubSeq(t, m + 3, m + 2) = c
  <2>1. SubSeq(t, m + 3, m + 2) = <<>>
    BY <1>0, <1>2, SubSeqEmpty
  <2> QED
    BY <1>8, <2>1, ConcatEmptySeq
<1>11. Reads(t, m + 3, m + 3, c)
  BY <1>0, <1>2, <1>8, <1>9, <1>10 DEF Reads
<1> QED
  BY <1>11 DEF c

\* No opening in front of p reaches p or beyond.
Clear(t, p) == p > 1 => t[p - 1] = Closing

\* The matches from p on.
MatchesOf(t, p) ==
    {j \in p .. Len(t) :
        Opens(t, j) /\ Closings(t, j) # {} /\ j + 1 \notin Closings(t, j)}

\* From p to q there is no variable known, so none of the pieces changes.
LEMMA NoneKnownStays ==
  ASSUME NEW t \in Seq(Text), NEW p \in 1..(Len(t) + 1), Clear(t, p), NEW q \in Int,
         \A j \in p..q : ~Known(t, j), NEW i \in p..q
  PROVE  Stays(t, i)
<1>0. /\ p \in Nat /\ i \in Nat /\ i - 1 \in Int /\ i - 2 \in Int
      /\ (i - 1) + 1 = i /\ (i - 2) + 1 = i - 1
  OBVIOUS
<1>1. ~Known(t, i)
  OBVIOUS
<1>2. ~Known(t, i - 1)
  <2>1. CASE i - 1 >= p
    <3>1. i - 1 \in p..q
      BY <1>0, <2>1
    <3> QED
      BY <3>1
  <2>2. CASE i - 1 < p
    <3>1. i - 1 = p - 1
      BY <1>0, <2>2
    <3>2. Known(t, i - 1) => i - 1 \in 1..Len(t) /\ t[i - 1] = Opening
      BY <1>0, KnownPieces
    <3>3. i - 1 \in 1..Len(t) => p > 1
      BY <1>0, <3>1
    <3> QED
      BY <3>1, <3>2, <3>3, PiecesDiffer DEF Clear
  <2> QED
    BY <1>0, <2>1, <2>2
<1>3. ~Known(t, i - 2)
  <2>1. CASE i - 2 >= p
    <3>1. i - 2 \in p..q
      BY <1>0, <2>1
    <3> QED
      BY <3>1
  <2>2. CASE i - 2 < p
    <3>1. i - 2 = p - 1 \/ i - 1 = p - 1
      BY <1>0, <2>2
    <3>2. Known(t, i - 2) =>
            i - 2 \in 1..Len(t) /\ t[i - 2] = Opening /\ t[i - 1] \in Names
      BY <1>0, KnownPieces
    <3>3. i - 2 \in 1..Len(t) => p > 1
      BY <1>0, <3>1
    <3> QED
      BY <3>1, <3>2, <3>3, PiecesDiffer DEF Clear
  <2> QED
    BY <1>0, <2>1, <2>2
<1>4. ~IsVariable(t, i, FlagNames) /\ ~IsVariable(t, i, UsernameNames)
  BY <1>1, KnownNames
<1> QED
  BY <1>2, <1>3, <1>4 DEF Stays, Replaced

LEMMA KnownMatches ==
  ASSUME NEW t \in Seq(Text), NEW p \in Nat, NEW j \in Int, j >= p, Known(t, j)
  PROVE  j \in MatchesOf(t, p)
<1>1. /\ j \in 1..Len(t) /\ j + 1 \in 1..Len(t) /\ j + 2 \in 1..Len(t)
      /\ Opens(t, j) /\ t[j + 1] \in Names /\ t[j + 2] = Closing
  BY KnownPieces
<1>2. j + 2 \in Closings(t, j)
  BY <1>1 DEF Closings
<1>3. j + 1 \notin Closings(t, j)
  BY <1>1, PiecesDiffer DEF Closings
<1>4. Len(t) \in Nat /\ j \in p..Len(t)
  BY <1>1
<1> QED
  BY <1>1, <1>2, <1>3, <1>4 DEF MatchesOf

\* The first match, and where it ends.
LEMMA FirstMatch ==
  ASSUME NEW t \in Seq(Text), NEW p \in 1..(Len(t) + 1), Clear(t, p), MatchesOf(t, p) # {}
  PROVE  LET m == Min(MatchesOf(t, p))
             e == Min(Closings(t, m))
             s == SubSeq(t, m + 1, e - 1)
         IN  /\ m \in p..Len(t) /\ m \in 1..Len(t) /\ e \in 1..Len(t) /\ e >= m + 2
             /\ t[e] = Closing /\ Begins(t, m)
             /\ \A j \in p..(m - 1) : ~Known(t, j)
             /\ \A j \in (m + 1)..e : ~Known(t, j)
             /\ \A n \in Names : s = <<n>> => Known(t, m) /\ t[m + 1] = n /\ e = m + 2
             /\ Known(t, m) => \E n \in Names : s = <<n>>
<1> DEFINE m == Min(MatchesOf(t, p))
           e == Min(Closings(t, m))
           s == SubSeq(t, m + 1, e - 1)
<1>0. Len(t) \in Nat /\ p \in Nat /\ DOMAIN t = 1..Len(t)
  OBVIOUS
<1>1. m \in MatchesOf(t, p) /\ \A y \in MatchesOf(t, p) : m <= y
  <2>1. MatchesOf(t, p) \subseteq Nat
    BY <1>0 DEF MatchesOf
  <2> QED
    BY <2>1, MinIs
<1> HIDE DEF m
<1>2. /\ m \in p..Len(t) /\ m \in 1..Len(t) /\ m \in Nat
      /\ Opens(t, m) /\ Closings(t, m) # {} /\ m + 1 \notin Closings(t, m)
  BY <1>0, <1>1 DEF MatchesOf
<1>3. e \in Closings(t, m) /\ \A y \in Closings(t, m) : e <= y
  <2>1. Closings(t, m) \subseteq Nat
    BY <1>0, <1>2 DEF Closings
  <2> QED
    BY <1>2, <2>1, MinIs
<1> HIDE DEF e
<1>4. e \in 1..Len(t) /\ e \in Nat /\ e >= m + 2 /\ t[e] = Closing
  <2>1. e \in (m + 1)..Len(t) /\ t[e] = Closing /\ e # m + 1
    BY <1>2, <1>3 DEF Closings
  <2> QED
    BY <1>0, <1>2, <2>1
<1>5. ASSUME NEW j \in p..(m - 1) PROVE ~Known(t, j)
  <2>1. j \in Int /\ j >= p /\ ~(m <= j)
    BY <1>0, <1>2
  <2> QED
    BY <1>0, <1>1, <2>1, KnownMatches
<1>6. Begins(t, m)
  <2>1. ASSUME NEW j \in 1..(m - 1), Opens(t, j) PROVE \E k \in j..m : t[k] = Closing
    <3>0. j \in Nat /\ j < m /\ t[j] = Opening
      BY <1>2, <2>1 DEF Opens
    <3>1. CASE j < p
      <4>1. p > 1 /\ t[p - 1] = Closing /\ p - 1 \in j..m
        BY <1>0, <1>2, <3>0, <3>1 DEF Clear
      <4> QED
        BY <4>1
    <3>2. CASE j >= p
      <4>1. j \in p..Len(t) /\ ~(m <= j)
        BY <1>0, <1>2, <3>0, <3>2
      <4>2. e \in Closings(t, j)
        BY <1>0, <1>2, <1>4, <3>0 DEF Closings
      <4>3. j + 1 \in Closings(t, j)
        BY <1>1, <2>1, <4>1, <4>2 DEF MatchesOf
      <4>4. t[j + 1] = Closing /\ j + 1 \in j..m
        BY <1>2, <3>0, <4>3 DEF Closings
      <4> QED
        BY <4>4
    <3> QED
      BY <1>0, <3>0, <3>1, <3>2
  <2> QED
    BY <1>2, <2>1 DEF Begins
<1>7. ASSUME NEW j \in (m + 1)..e, Known(t, j) PROVE FALSE
  <2>1. t[j] = Opening /\ Begins(t, j) /\ j \in Nat /\ m \in 1..(j - 1)
    BY <1>2, <1>4, <1>7, KnownPieces
  <2>2. PICK k \in m..j : t[k] = Closing
    BY <1>2, <2>1 DEF Begins
  <2>3. k # m /\ k # j
    BY <1>2, <2>1, <2>2, PiecesDiffer DEF Opens
  <2>4. k \in Closings(t, m) /\ k < e
    BY <1>2, <1>4, <2>1, <2>2, <2>3 DEF Closings
  <2>5. ~(e <= k)
    BY <1>2, <1>4, <2>2, <2>4
  <2> QED
    BY <1>3, <2>4, <2>5
<1>8. s \in Seq(Text) /\ Len(s) = (e - m) - 1 /\ s[1] = t[m + 1]
  <2>1. \A j \in (m + 1)..(e - 1) : t[j] \in Text
    BY <1>0, <1>2, <1>4, ElementOfSeq
  <2>2. m + 1 \in Nat /\ e - 1 \in Nat /\ m + 1 <= e - 1
    BY <1>2, <1>4
  <2>3. s \in Seq(Text) /\ Len(s) = ((e - 1) - (m + 1)) + 1 /\ s[1] = t[(m + 1) + 1 - 1]
    BY <2>1, <2>2, SubSeqProperties
  <2>4. (m + 1) + 1 - 1 = m + 1 /\ ((e - 1) - (m + 1)) + 1 = (e - m) - 1
    BY <1>2, <1>4
  <2> QED
    BY <2>3, <2>4
<1> HIDE DEF s
<1>9. ASSUME NEW n \in Names, s = <<n>> PROVE Known(t, m) /\ t[m + 1] = n /\ e = m + 2
  <2>1. Len(s) = 1 /\ s[1] = n
    BY <1>9
  <2>2. e = m + 2 /\ t[m + 1] = n
    <3>1. m \in Nat /\ e \in Nat /\ Len(s) = (e - m) - 1 /\ s[1] = t[m + 1]
      BY <1>2, <1>4, <1>8
    <3>2. e = m + 2
      <4>1. m \in Nat /\ e \in Nat /\ (e - m) - 1 = 1
        BY <2>1, <3>1
      <4> QED
        BY <4>1
    <3> QED
      BY <2>1, <3>1, <3>2
  <2>3. Known(t, m)
    BY <1>0, <1>2, <1>4, <1>6, <2>2 DEF Known, IsVariable
  <2> QED
    BY <2>2, <2>3
<1>10. ASSUME Known(t, m) PROVE \E n \in Names : s = <<n>>
  <2>1. m + 2 \in 1..Len(t) /\ t[m + 1] \in Names /\ t[m + 2] = Closing
    BY <1>2, <1>10, KnownPieces
  <2>2. m + 2 \in Closings(t, m)
    BY <1>2, <2>1 DEF Closings
  <2>3. e = m + 2
    BY <1>2, <1>3, <1>4, <2>2
  <2>4. Len(s) = 1
    BY <1>2, <1>8, <2>3
  <2>5. s = <<t[m + 1]>>
    <3>1. s \in Seq(Text) /\ s[1] = t[m + 1]
      BY <1>8
    <3>2. s = <<s[1]>>
      BY <2>4, <3>1
    <3> QED
      BY <3>1, <3>2
  <2> QED
    BY <2>1, <2>5
<1> QED
  BY <1>2, <1>4, <1>5, <1>6, <1>7, <1>9, <1>10 DEF m, e, s

-----------------------------------------------------------------------------
(* The invariant *)

Reading == /\ part <= Len(row) /\ text # NonString
           /\ Reads(text, pos, last, result) /\ Clear(text, pos)

Progress ==
    /\ at # "failed"
    /\ texts \in Seq(Seq(Text) \cup {NonString}) /\ Len(texts) = Len(row)
    /\ part \in 1..(Len(row) + 1)
    /\ \A i \in 1..Len(row) : texts[i] = IF i < part THEN Shown(row[i]) ELSE row[i]
    /\ at = "done" => part = Len(row) + 1
    /\ at = "part" => pos = 1 /\ last = 1 /\ result = <<>>
    /\ at = "find" => Reading

TextInv ==
    /\ flag \in Seq(Text) /\ row \in Seq(Seq(Text) \cup {NonString})
    /\ Literal => Progress

LEMMA InitText == Init => TextInv
<1> SUFFICES ASSUME Init PROVE TextInv
  OBVIOUS
<1>1. row \in Seq(Seq(Text) \cup {NonString})
  BY ProcesserAssumption DEF Init, Text
<1>2. flag \in Seq(Text)
  <2>1. PICK static \in StaticFlags : flag = IF static = None THEN DefaultFlag ELSE static
    BY DEF Init
  <2>2. static # None => static \in Seq(Text)
    BY <2>1, ProcesserAssumption DEF Text
  <2>3. DefaultFlag \in Seq(Text)
    <3> DEFINE word == "BunOS{BUNNI"
               end == Closing
    <3>1. word \in Text /\ end \in Text
      BY ProcesserAssumption DEF Text, Pieces
    <3> HIDE DEF word, end
    <3>2. <<word, end>> \in Seq(Text)
      BY <3>1
    <3> QED
      BY <3>2 DEF word, end, DefaultFlag
  <2> QED
    BY <2>1, <2>2, <2>3
<1> DEFINE B == Seq(Text) \cup {NonString}
<1>3. row \in Seq(B)
  BY <1>1
<1> HIDE DEF B
<1>4. /\ texts = row /\ part = 1 /\ Len(row) \in Nat /\ at = "part"
      /\ pos = 1 /\ last = 1 /\ result = <<>>
  BY <1>3 DEF Init
<1>5. /\ part \in 1..(Len(row) + 1) /\ \A i \in 1..Len(row) : ~(i < part)
      /\ Len(texts) = Len(row)
  BY <1>4
<1>6. texts \in Seq(B)
  BY <1>3, <1>4
<1> QED
  BY <1>1, <1>2, <1>4, <1>5, <1>6 DEF TextInv, Progress, B

\* What the matcher finds, in a step that finds something.
LEMMA FindKeeps ==
  ASSUME TextInv, Literal, at = "find", Matches # {}
  PROVE  /\ text \in Seq(Text) /\ text # NonString /\ flag \in Seq(Text)
         /\ Reads(text, found, last, result) /\ Reads(text, pos, last, result)
         /\ pos \in 1..(Len(text) + 1) /\ Clear(text, pos)
         /\ found \in pos..Len(text) /\ found \in 1..Len(text)
         /\ ending \in 1..Len(text) /\ ending >= found + 2 /\ text[ending] = Closing
         /\ \A j \in pos..(found - 1) : ~Known(text, j)
         /\ \A j \in (found + 1)..ending : ~Known(text, j)
         /\ \A n \in Names :
              name = <<n>> => Known(text, found) /\ text[found + 1] = n /\ ending = found + 2
         /\ Known(text, found) => \E n \in Names : name = <<n>>
<1>1. /\ part <= Len(row) /\ text # NonString /\ Reads(text, pos, last, result)
      /\ Clear(text, pos) /\ flag \in Seq(Text)
      /\ texts \in Seq(Seq(Text) \cup {NonString}) /\ part \in 1..(Len(row) + 1)
      /\ Len(texts) = Len(row)
  BY DEF TextInv, Progress, Reading
<1>2. text \in Seq(Text)
  <2> DEFINE B == Seq(Text) \cup {NonString}
  <2>1. texts \in Seq(B)
    BY <1>1
  <2> HIDE DEF B
  <2>2. part \in 1..Len(texts)
    BY <1>1, <2>1
  <2>3. texts[part] \in B
    BY <2>1, <2>2, ElementOfSeq
  <2> QED
    BY <1>1, <2>3 DEF B, text
<1> DEFINE t == text
           p == pos
           m == found
           e == ending
           s == name
<1>3. /\ t \in Seq(Text) /\ p \in 1..(Len(t) + 1) /\ Clear(t, p) /\ Reads(t, p, last, result)
  BY <1>1, <1>2 DEF Reads
<1>4. /\ MatchesOf(t, p) # {} /\ m = Min(MatchesOf(t, p)) /\ e = Min(Closings(t, m))
      /\ s = SubSeq(t, m + 1, e - 1)
  BY DEF Matches, MatchesOf, found, ending, name
<1> HIDE DEF t, p, m, e, s
<1>5. /\ m \in p..Len(t) /\ m \in 1..Len(t) /\ e \in 1..Len(t) /\ e >= m + 2
      /\ t[e] = Closing
      /\ \A j \in p..(m - 1) : ~Known(t, j)
      /\ \A j \in (m + 1)..e : ~Known(t, j)
      /\ \A n \in Names : s = <<n>> => Known(t, m) /\ t[m + 1] = n /\ e = m + 2
      /\ Known(t, m) => \E n \in Names : s = <<n>>
  BY <1>3, <1>4, FirstMatch
<1>6. Reads(t, m, last, result)
  <2>1. m - 1 \in Int /\ m \in p..(Len(t) + 1)
    BY <1>3, <1>5
  <2>2. \A i \in p..(m - 1) : Stays(t, i)
    BY <1>3, <1>5, <2>1, NoneKnownStays
  <2> QED
    BY <1>1, <1>3, <2>1, <2>2, ReadsOn
<1> QED
  BY <1>1, <1>2, <1>3, <1>5, <1>6 DEF t, p, m, e, s

\* What is shown of a text depends on it and the flag.
LEMMA ShownStays ==
  ASSUME UNCHANGED <<row, flag>>
  PROVE  /\ Literal' <=> Literal
         /\ \A i \in 1..Len(row) : Shown(row[i])' = Shown(row[i])
<1>1. ASSUME NEW i \in 1..Len(row) PROVE Shown(row[i])' = Shown(row[i])
  BY DEF Shown, ShownPiece, IsVariable, IsEscape, Begins, Opens
<1>2. Literal' <=> Literal
  BY DEF Literal
<1> QED
  BY <1>1, <1>2

\* The invariant after a step that goes on to find.
LEMMA GoesOn ==
  ASSUME TextInv, at = "find", at' = "find",
         Literal => Reads(text, pos', last', result') /\ Clear(text, pos'),
         UNCHANGED <<row, flag, texts, part>>
  PROVE  TextInv'
<1>1. Literal' <=> Literal
  BY DEF Literal
<1>2. Literal => Progress'
  <2> SUFFICES ASSUME Literal PROVE Progress'
    OBVIOUS
  <2>1. /\ at # "failed"
        /\ texts \in Seq(Seq(Text) \cup {NonString}) /\ Len(texts) = Len(row)
        /\ part \in 1..(Len(row) + 1)
        /\ \A i \in 1..Len(row) : texts[i] = IF i < part THEN Shown(row[i]) ELSE row[i]
        /\ part <= Len(row) /\ text # NonString
    BY DEF TextInv, Progress, Reading
  <2>2. \A i \in 1..Len(row) : texts[i]' = IF i < part' THEN Shown(row[i])' ELSE row[i]'
    BY <2>1, ShownStays
  <2>3. text' = text
    BY DEF text
  <2>4. Reads(text, pos, last, result)' <=> Reads(text, pos', last', result')
    BY <2>3 DEF Reads, Replacing, Replacements, Replaced
  <2>5. Reading'
    BY <2>1, <2>3, <2>4 DEF Reading, Clear
  <2> QED
    BY <2>1, <2>2, <2>5 DEF Progress
<1> QED
  BY <1>1, <1>2 DEF TextInv

\* Where the row's own texts are, and what a text of it is.
LEMMA TextTypes ==
  ASSUME TextInv
  PROVE  /\ Len(row) \in Nat /\ DOMAIN row = 1..Len(row)
         /\ \A i \in 1..Len(row) : row[i] \in Seq(Text) \/ row[i] = NonString
<1> DEFINE B == Seq(Text) \cup {NonString}
<1>1. row \in Seq(B)
  BY DEF TextInv
<1> HIDE DEF B
<1>2. \A i \in 1..Len(row) : row[i] \in B
  BY <1>1, ElementOfSeq
<1>3. Len(row) \in Nat /\ DOMAIN row = 1..Len(row)
  BY <1>1
<1> QED
  BY <1>2, <1>3 DEF B

\* The invariant after a step by which the loop of process goes on.
LEMMA PartGoesOn ==
  ASSUME TextInv, part' = part + 1, at' = "part",
         Literal => /\ part \in 1..Len(row)
                    /\ texts' \in Seq(Seq(Text) \cup {NonString}) /\ Len(texts') = Len(texts)
                    /\ texts'[part] = Shown(row[part])
                    /\ \A i \in 1..Len(row) : i # part => texts'[i] = texts[i]
                    /\ pos' = 1 /\ last' = 1 /\ result' = <<>>,
         UNCHANGED <<row, flag>>
  PROVE  TextInv'
<1>2. ASSUME Literal PROVE Progress'
  <2>0. /\ Len(row) \in Nat /\ part \in 1..Len(row) /\ part' \in 1..(Len(row) + 1)
        /\ Len(texts') = Len(row)
    <3>1. Len(texts) = Len(row)
      BY <1>2 DEF TextInv, Progress
    <3> QED
      BY <1>2, <3>1, TextTypes
  <2>1. \A i \in 1..Len(row) : texts[i] = IF i < part THEN Shown(row[i]) ELSE row[i]
    BY <1>2 DEF TextInv, Progress
  <2>2. ASSUME NEW i \in 1..Len(row)
        PROVE  texts'[i] = IF i < part + 1 THEN Shown(row[i]) ELSE row[i]
    <3>1. CASE i = part
      <4>1. i < part + 1
        BY <2>0, <3>1
      <4> QED
        BY <1>2, <3>1, <4>1
    <3>2. CASE i # part
      <4>1. i < part + 1 <=> i < part
        BY <2>0, <3>2
      <4>2. texts'[i] = texts[i]
        BY <1>2, <3>2
      <4> QED
        BY <2>1, <4>1, <4>2
    <3> QED
      BY <3>1, <3>2
  <2>3. \A i \in 1..Len(row) : texts[i]' = IF i < part' THEN Shown(row[i])' ELSE row[i]'
    BY <2>2, ShownStays
  <2>4. /\ texts' \in Seq(Seq(Text) \cup {NonString})
        /\ pos' = 1 /\ last' = 1 /\ result' = <<>>
    BY <1>2
  <2>5. at' # "failed" /\ at' # "done" /\ at' # "find"
    OBVIOUS
  <2>6. Len(row') = Len(row)
    OBVIOUS
  <2> QED
    BY <2>0, <2>3, <2>4, <2>5, <2>6 DEF Progress
<1> QED
  BY <1>2, ShownStays DEF TextInv

LEMMA SkipPartKeeps ==
  ASSUME TextInv, SkipPart
  PROVE  TextInv'
<1>1. /\ at = "part" /\ part <= Len(texts) /\ texts[part] = NonString
      /\ part' = part + 1
      /\ UNCHANGED <<at, row, flag, texts, pos, last, result>>
  BY DEF SkipPart, text
<1>2. ASSUME Literal PROVE part \in 1..Len(row) /\ ~(part < part)
  BY <1>1, <1>2, TextTypes DEF TextInv, Progress
<1>3. ASSUME Literal
      PROVE  /\ part \in 1..Len(row)
             /\ texts' \in Seq(Seq(Text) \cup {NonString}) /\ Len(texts') = Len(texts)
             /\ texts'[part] = Shown(row[part])
             /\ pos' = 1 /\ last' = 1 /\ result' = <<>>
  <2>1. texts[part] = row[part]
    BY <1>2, <1>3 DEF TextInv, Progress
  <2>2. Shown(row[part]) = row[part]
    BY <1>1, <2>1 DEF Shown
  <2> QED
    BY <1>1, <1>2, <1>3, <2>1, <2>2 DEF TextInv, Progress
<1> QED
  BY <1>1, <1>3, PartGoesOn

LEMMA StartPartKeeps ==
  ASSUME TextInv, StartPart
  PROVE  TextInv'
<1>1. /\ at = "part" /\ part <= Len(texts) /\ text # NonString /\ at' = "find"
      /\ UNCHANGED <<row, flag, texts, part, pos, last, result>>
  BY DEF StartPart
<1>2. ASSUME Literal PROVE part <= Len(row) /\ part \in 1..Len(row) /\ ~(part < part)
  BY <1>1, <1>2, TextTypes DEF TextInv, Progress
<1>3. ASSUME Literal PROVE Progress'
  <2>1. /\ texts \in Seq(Seq(Text) \cup {NonString}) /\ Len(texts) = Len(row)
        /\ part \in 1..(Len(row) + 1)
        /\ \A i \in 1..Len(row) : texts[i] = IF i < part THEN Shown(row[i]) ELSE row[i]
        /\ pos = 1 /\ last = 1 /\ result = <<>>
    BY <1>1, <1>3 DEF TextInv, Progress
  <2>2. text = row[part]
    BY <1>2, <1>3, <2>1 DEF text
  <2>3. text \in Seq(Text)
    BY <1>1, <1>2, <1>3, <2>2, TextTypes
  <2>4. Reads(text, 1, 1, <<>>) /\ Clear(text, 1)
    <3> DEFINE t == text
    <3>1. t \in Seq(Text) /\ flag \in Seq(Text)
      BY <2>3 DEF TextInv
    <3> HIDE DEF t
    <3>2. 1 \in 1..(Len(t) + 1) /\ 1 \in 1..1
      BY <3>1
    <3>3. SubSeq(t, 1, 0) = <<>> /\ Replacing(t, 0) = <<>> /\ 1 - 1 = 0
      BY <1>3, <3>1, ReplacingSteps, SubSeqEmpty
    <3>4. <<>> \in Seq(Text) /\ <<>> \o <<>> = <<>>
      BY EmptySeq, ConcatEmptySeq
    <3>5. Reads(t, 1, 1, <<>>)
      BY <3>2, <3>3, <3>4 DEF Reads
    <3> QED
      BY <3>5 DEF t, Clear
  <2>5. text' = text
    BY <1>1 DEF text
  <2>6. Reads(text, pos, last, result)' <=> Reads(text, pos, last, result)
    BY <1>1, <2>5 DEF Reads, Replacing, Replacements, Replaced
  <2>7. Reading'
    BY <1>1, <1>2, <1>3, <2>1, <2>4, <2>5, <2>6 DEF Reading, Clear
  <2>8. \A i \in 1..Len(row) : texts[i]' = IF i < part' THEN Shown(row[i])' ELSE row[i]'
    BY <1>1, <2>1, ShownStays
  <2> QED
    BY <1>1, <2>1, <2>7, <2>8 DEF Progress
<1> QED
  BY <1>1, <1>3, ShownStays DEF TextInv

\* The two replacements of a match, and the match that stays.
LEMMA AppendKeeps ==
  ASSUME TextInv, NEW v, v \subseteq Names, Finds(v), NEW out, AppendReplacement(out),
         Literal /\ Known(text, found) /\ text[found + 1] \in v => out = Replaced(text, found)
  PROVE  TextInv'
<1>1. /\ at = "find" /\ at' = "find" /\ pos' = ending + 1 /\ last' = ending + 1
      /\ result' = (result \o SubSeq(text, last, found - 1)) \o out
      /\ UNCHANGED <<row, flag, texts, part>>
      /\ Matches # {} /\ name \in {<<n>> : n \in v}
  BY DEF Finds, AppendReplacement
<1>2. ASSUME Literal PROVE Reads(text, pos', last', result') /\ Clear(text, pos')
  <2> DEFINE t == text
             m == found
             l == last
             b == result
             s == name
             e == ending
  <2>1. /\ t \in Seq(Text) /\ m \in 1..Len(t) /\ Reads(t, m, l, b) /\ flag \in Seq(Text)
        /\ t[e] = Closing /\ e \in 1..Len(t)
        /\ \A n \in Names : s = <<n>> => Known(t, m) /\ t[m + 1] = n /\ e = m + 2
    BY <1>1, <1>2, FindKeeps
  <2>2. /\ pos' = e + 1 /\ last' = e + 1
        /\ result' = (b \o SubSeq(t, l, m - 1)) \o out
        /\ s \in {<<n>> : n \in v}
        /\ Known(t, m) /\ t[m + 1] \in v => out = Replaced(t, m)
    BY <1>1, <1>2
  <2> HIDE DEF t, m, l, b, s, e
  <2>3. PICK n \in v : s = <<n>>
    BY <2>2
  <2>4. Known(t, m) /\ t[m + 1] = n /\ e = m + 2
    BY <2>1, <2>3
  <2>5. out = Replaced(t, m) /\ e + 1 = m + 3 /\ (e + 1) - 1 = e
    <3>1. Len(t) \in Nat /\ m \in Nat /\ e \in Nat
      <4>1. t \in Seq(Text) /\ m \in 1..Len(t) /\ e \in 1..Len(t)
        BY <2>1
      <4>2. Len(t) \in Nat
        BY <4>1
      <4> QED
        BY <4>1, <4>2
    <3>2. t[m + 1] \in v
      BY <2>4
    <3> QED
      BY <2>2, <2>4, <3>1, <3>2
  <2>6. Reads(t, m + 3, m + 3, (b \o SubSeq(t, l, m - 1)) \o Replaced(t, m))
    BY <1>2, <2>1, <2>4, ReadsMatch
  <2>7. Reads(t, pos', last', result')
    <3>1. pos' = m + 3 /\ last' = m + 3
      BY <2>2, <2>5
    <3>2. result' = (b \o SubSeq(t, l, m - 1)) \o Replaced(t, m)
      BY <2>2, <2>5
    <3> QED
      BY <2>6, <3>1, <3>2, Zenon
  <2>8. Clear(t, pos')
    <3>1. pos' - 1 = e
      BY <2>2, <2>5
    <3> QED
      BY <2>1, <3>1 DEF Clear
  <2> QED
    BY <2>7, <2>8 DEF t
<1> QED
  BY <1>1, <1>2, GoesOn

LEMMA AppendFlagKeeps ==
  ASSUME TextInv, AppendFlag
  PROVE  TextInv'
<1>1. Finds(FlagNames) /\ AppendReplacement(Expansion.out)
  BY DEF AppendFlag
<1>2. ASSUME Literal, Known(text, found), text[found + 1] \in FlagNames
      PROVE  Expansion.out = Replaced(text, found)
  <2>1. Expansion = [out |-> flag, escaped |-> FALSE, thrown |-> FALSE]
    BY <1>2, LiteralExpands DEF TextInv
  <2>2. IsVariable(text, found, FlagNames)
    BY <1>2, KnownNames
  <2>3. Replaced(text, found) = flag
    BY <2>2 DEF Replaced
  <2> QED
    BY <2>1, <2>3
<1>3. FlagNames \subseteq Names
  BY PiecesDiffer
<1> QED
  BY <1>1, <1>2, <1>3, AppendKeeps

LEMMA AppendUsernameKeeps ==
  ASSUME TextInv, AppendUsername
  PROVE  TextInv'
<1>1. Finds(UsernameNames) /\ AppendReplacement(<<"BRUKERNAVN :)">>)
  BY DEF AppendUsername
<1>2. ASSUME Literal, Known(text, found), text[found + 1] \in UsernameNames
      PROVE  <<"BRUKERNAVN :)">> = Replaced(text, found)
  <2>1. IsVariable(text, found, UsernameNames) /\ ~IsVariable(text, found, FlagNames)
    BY <1>2, KnownNames, PiecesDiffer
  <2> QED
    BY <2>1 DEF Replaced
<1>3. UsernameNames \subseteq Names
  BY PiecesDiffer
<1> QED
  BY <1>1, <1>2, <1>3, AppendKeeps

LEMMA UnknownVariableKeeps ==
  ASSUME TextInv, UnknownVariable
  PROVE  TextInv'
<1>1. /\ Matches # {} /\ name \notin {<<n>> : n \in Names} /\ at = "find" /\ at' = "find"
      /\ pos' = ending + 1 /\ last' = last /\ result' = result
      /\ UNCHANGED <<row, flag, texts, part>>
  BY DEF UnknownVariable, FindsUnknown
<1>2. ASSUME Literal PROVE Reads(text, pos', last', result') /\ Clear(text, pos')
  <2> DEFINE t == text
             p == pos
             m == found
             e == ending
  <2>1. /\ t \in Seq(Text) /\ flag \in Seq(Text) /\ Reads(t, p, last, result)
        /\ p \in 1..(Len(t) + 1) /\ Clear(t, p)
        /\ m \in p..Len(t) /\ m \in 1..Len(t) /\ e \in 1..Len(t) /\ e >= m + 2
        /\ t[e] = Closing
        /\ \A j \in p..(m - 1) : ~Known(t, j)
        /\ \A j \in (m + 1)..e : ~Known(t, j)
    BY <1>1, <1>2, FindKeeps
  <2>2. ~Known(t, m)
    BY <1>1, <1>2, FindKeeps
  <2> HIDE DEF t, p, m, e
  <2>3. /\ Len(t) \in Nat /\ p \in Nat /\ m \in Nat /\ e \in Nat /\ (e + 1) - 1 = e
        /\ e + 1 \in p..(Len(t) + 1) /\ e \in Int
    <3>1. /\ t \in Seq(Text) /\ p \in 1..(Len(t) + 1) /\ m \in p..Len(t)
          /\ e \in 1..Len(t) /\ e >= m + 2
      BY <2>1
    <3>2. Len(t) \in Nat
      BY <3>1
    <3>3. p \in Nat /\ m \in Nat /\ e \in Nat
      BY <3>1, <3>2
    <3> QED
      BY <3>1, <3>2, <3>3
  <2>4. ASSUME NEW j \in p..e PROVE ~Known(t, j)
    <3>1. j \in p..(m - 1) \/ j = m \/ j \in (m + 1)..e
      BY <2>3
    <3> QED
      BY <2>1, <2>2, <3>1
  <2>5. \A i \in p..((e + 1) - 1) : Stays(t, i)
    <3>1. \A i \in p..e : Stays(t, i)
      BY <2>1, <2>3, <2>4, NoneKnownStays
    <3> QED
      BY <2>3, <3>1
  <2>6. Reads(t, e + 1, last, result)
    BY <1>2, <2>1, <2>3, <2>5, ReadsOn
  <2>7. Reads(t, pos', last', result')
    <3>1. pos' = e + 1
      BY <1>1 DEF e
    <3> QED
      BY <1>1, <2>6, <3>1, Zenon
  <2>8. Clear(t, pos')
    <3>1. pos' = e + 1
      BY <1>1 DEF e
    <3> QED
      BY <2>1, <2>3, <3>1 DEF Clear
  <2> QED
    BY <2>7, <2>8 DEF t
<1> QED
  BY <1>1, <1>2, GoesOn

LEMMA ShownType ==
  ASSUME Literal, flag \in Seq(Text), NEW t \in Seq(Text), t # NonString
  PROVE  Shown(t) \in Seq(Text)
<1> DEFINE ss == Shows(t)
<1>1. ss \in Seq(Seq(Text)) /\ Shown(t) = FlattenSeq(ss)
  BY ShowsPieces
<1> HIDE DEF ss
<1>2. Len(ss) \in 0..Len(ss)
  BY <1>1
<1>3. Flat(ss, Len(ss)) = FlattenSeq(ss) /\ Flat(ss, Len(ss)) \in Seq(Text)
  BY <1>1, <1>2, FlatSteps
<1> QED
  BY <1>1, <1>3

\* When nothing is left to find, what is put in the text's place is the text shown.
LEMMA FinishPartKeeps ==
  ASSUME TextInv, FinishPart
  PROVE  TextInv'
<1> DEFINE new == Unescaped(result \o SubSeq(texts[part], last, Len(texts[part])))
<1>1. /\ at = "find" /\ Matches = {} /\ texts' = [texts EXCEPT ![part] = new]
      /\ at' = "part" /\ part' = part + 1
      /\ pos' = 1 /\ last' = 1 /\ result' = <<>>
      /\ UNCHANGED <<row, flag>>
  BY DEF FinishPart, NewMatcher
<1> HIDE DEF new
<1>3. ASSUME Literal
      PROVE  /\ part \in 1..Len(row)
             /\ texts \in Seq(Seq(Text) \cup {NonString}) /\ Len(texts) = Len(row)
             /\ new = Shown(row[part]) /\ new \in Seq(Text)
  <2>1. /\ part \in 1..Len(row) /\ text # NonString /\ Reads(text, pos, last, result)
        /\ Clear(text, pos) /\ text = row[part] /\ flag \in Seq(Text)
    <3>1. /\ part <= Len(row) /\ text # NonString /\ Reads(text, pos, last, result)
          /\ Clear(text, pos)
          /\ part \in 1..(Len(row) + 1) /\ flag \in Seq(Text)
          /\ \A i \in 1..Len(row) : texts[i] = IF i < part THEN Shown(row[i]) ELSE row[i]
      BY <1>1, <1>3 DEF TextInv, Progress, Reading
    <3>2. part \in 1..Len(row) /\ ~(part < part)
      BY <3>1, TextTypes
    <3>3. texts[part] = row[part]
      BY <3>1, <3>2
    <3> QED
      BY <3>1, <3>2, <3>3 DEF text
  <2>2. texts \in Seq(Seq(Text) \cup {NonString}) /\ Len(texts) = Len(row)
    BY <1>3 DEF TextInv, Progress
  <2>3. text \in Seq(Text)
    BY <2>1, TextTypes
  <2> DEFINE t == text
             p == pos
             n == Len(text)
  <2>4. /\ t \in Seq(Text) /\ Reads(t, p, last, result) /\ n = Len(t)
        /\ MatchesOf(t, p) = {} /\ Clear(t, p)
    BY <1>1, <2>1, <2>3 DEF Matches, MatchesOf
  <2>5. new = Unescaped(result \o SubSeq(t, last, n)) /\ t = row[part] /\ t # NonString
    BY <2>1 DEF new, text
  <2> HIDE DEF t, p, n
  <2>6. n \in Nat /\ p \in 1..(n + 1) /\ n + 1 \in p..(Len(t) + 1) /\ (n + 1) - 1 = n
    <3>1. n \in Nat
      BY <2>4
    <3>2. p \in 1..(n + 1)
      BY <2>4 DEF Reads
    <3> QED
      BY <2>4, <3>1, <3>2
  <2>7. \A i \in p..((n + 1) - 1) : Stays(t, i)
    <3>1. \A j \in p..n : ~Known(t, j)
      <4>1. \A j \in p..n : j \in Int /\ j >= p
        BY <2>6
      <4>2. p \in Nat
        BY <2>6
      <4> QED
        BY <2>4, <4>1, <4>2, KnownMatches
    <3>2. p \in 1..(Len(t) + 1) /\ n \in Int
      BY <2>4, <2>6
    <3> QED
      BY <2>4, <2>6, <3>1, <3>2, NoneKnownStays
  <2>8. Reads(t, n + 1, last, result)
    BY <1>3, <2>1, <2>4, <2>6, <2>7, ReadsOn
  <2>9. result \o SubSeq(t, last, n) = AllReplaced(t)
    BY <1>3, <2>1, <2>4, <2>6, <2>8, ReplacingSteps DEF Reads
  <2>10. new = Shown(t) /\ Shown(t) \in Seq(Text)
    BY <1>3, <2>1, <2>4, <2>5, <2>9, ReplacedIsShown, ShownType
  <2> QED
    BY <2>1, <2>2, <2>5, <2>10
<1>4. ASSUME Literal
      PROVE  /\ part \in 1..Len(row)
             /\ texts' \in Seq(Seq(Text) \cup {NonString}) /\ Len(texts') = Len(texts)
             /\ texts'[part] = Shown(row[part])
             /\ \A i \in 1..Len(row) : i # part => texts'[i] = texts[i]
             /\ pos' = 1 /\ last' = 1 /\ result' = <<>>
  <2> DEFINE B == Seq(Text) \cup {NonString}
  <2>1. texts \in Seq(B) /\ new \in B /\ part \in 1..Len(row)
    BY <1>3, <1>4
  <2> HIDE DEF B
  <2>2. part \in 1..Len(texts) /\ DOMAIN texts = 1..Len(texts) /\ Len(texts) = Len(row)
    BY <1>3, <1>4, <2>1
  <2>3. texts' \in Seq(B) /\ Len(texts') = Len(texts)
    BY <1>1, <2>1, <2>2, ExceptSeq
  <2>4. texts'[part] = new /\ \A i \in 1..Len(row) : i # part => texts'[i] = texts[i]
    BY <1>1, <2>2
  <2> QED
    BY <1>1, <1>3, <1>4, <2>3, <2>4 DEF B
<1> QED
  BY <1>1, <1>4, PartGoesOn

\* appendReplacement throws no exception of a literal flag.
LEMMA NotThrown ==
  ASSUME TextInv, Literal
  PROVE  ~AppendFlagThrows
<1>1. ~Thrown
  BY LiteralExpands DEF TextInv, Thrown
<1> QED
  BY <1>1 DEF AppendFlagThrows

LEMMA AppendFlagThrowsKeeps ==
  ASSUME TextInv, AppendFlagThrows
  PROVE  TextInv'
<1>1. UNCHANGED <<row, flag, texts, part>>
  BY DEF AppendFlagThrows, Finds
<1>2. ~Literal
  BY NotThrown
<1> QED
  BY <1>1, <1>2, ShownStays DEF TextInv

LEMMA FinishProcessKeeps ==
  ASSUME TextInv, FinishProcess
  PROVE  TextInv'
<1>1. /\ at' = "done" /\ part > Len(texts)
      /\ UNCHANGED <<row, flag, texts, part, pos, last, result>>
  BY DEF FinishProcess
<1>2. ASSUME Literal PROVE Progress'
  <2>1. /\ texts \in Seq(Seq(Text) \cup {NonString}) /\ Len(texts) = Len(row)
        /\ part \in 1..(Len(row) + 1) /\ Len(row) \in Nat
        /\ \A i \in 1..Len(row) : texts[i] = IF i < part THEN Shown(row[i]) ELSE row[i]
    BY <1>2, TextTypes DEF TextInv, Progress
  <2>2. part = Len(row) + 1
    BY <1>1, <2>1
  <2>3. \A i \in 1..Len(row) : texts[i]' = IF i < part' THEN Shown(row[i])' ELSE row[i]'
    BY <1>1, <2>1, ShownStays
  <2> QED
    BY <1>1, <2>1, <2>2, <2>3 DEF Progress
<1> QED
  BY <1>1, <1>2, ShownStays DEF TextInv

LEMMA StutterKeeps ==
  ASSUME TextInv, UNCHANGED vars
  PROVE  TextInv'
<1>1. UNCHANGED <<at, row, flag, texts, part, pos, last, result>>
  BY DEF vars
<1>2. ASSUME Literal PROVE Progress'
  <2>1. /\ at # "failed"
        /\ texts \in Seq(Seq(Text) \cup {NonString}) /\ Len(texts) = Len(row)
        /\ part \in 1..(Len(row) + 1)
        /\ \A i \in 1..Len(row) : texts[i] = IF i < part THEN Shown(row[i]) ELSE row[i]
        /\ at = "done" => part = Len(row) + 1
        /\ at = "part" => pos = 1 /\ last = 1 /\ result = <<>>
        /\ at = "find" => /\ part <= Len(row) /\ text # NonString
                          /\ Reads(text, pos, last, result) /\ Clear(text, pos)
    BY <1>2 DEF TextInv, Progress, Reading
  <2>2. \A i \in 1..Len(row) : texts[i]' = IF i < part' THEN Shown(row[i])' ELSE row[i]'
    BY <1>1, <2>1, ShownStays
  <2>3. text' = text
    BY <1>1 DEF text
  <2>4. Reads(text, pos, last, result)' <=> Reads(text, pos, last, result)
    BY <1>1, <2>3 DEF Reads, Replacing, Replacements, Replaced
  <2>5. at = "find" => Reading'
    BY <1>1, <2>1, <2>3, <2>4 DEF Reading, Clear
  <2> QED
    BY <1>1, <2>1, <2>2, <2>5 DEF Progress
<1> QED
  BY <1>1, <1>2, ShownStays DEF TextInv

LEMMA TextsKept == Spec => []TextInv
<1>1. Init => TextInv
  BY InitText
<1>2. TextInv /\ [Next]_vars => TextInv'
  <2> SUFFICES ASSUME TextInv, [Next]_vars PROVE TextInv'
    OBVIOUS
  <2>1. CASE SkipPart
    BY <2>1, SkipPartKeeps
  <2>2. CASE StartPart
    BY <2>2, StartPartKeeps
  <2>3. CASE AppendFlag
    BY <2>3, AppendFlagKeeps
  <2>4. CASE AppendFlagThrows
    BY <2>4, AppendFlagThrowsKeeps
  <2>5. CASE AppendUsername
    BY <2>5, AppendUsernameKeeps
  <2>6. CASE UnknownVariable
    BY <2>6, UnknownVariableKeeps
  <2>7. CASE FinishPart
    BY <2>7, FinishPartKeeps
  <2>8. CASE FinishProcess
    BY <2>8, FinishProcessKeeps
  <2>9. CASE UNCHANGED vars
    BY <2>9, StutterKeeps
  <2> QED
    BY <2>1, <2>2, <2>3, <2>4, <2>5, <2>6, <2>7, <2>8, <2>9 DEF Next
<1> QED
  BY <1>1, <1>2, PTL DEF Spec

\* The texts a player is sent are the row's with every variable replaced that is
\* not escaped and not in the name of another, an unfinished one included, nothing
\* lost and nothing changed beside it: for tasks of any number of texts of any
\* length, whatever the pieces, and any flag that appendReplacement takes literally.
THEOREM TextsAreShown == Spec => []PartsAreShown
<1>1. TextInv => PartsAreShown
  <2> SUFFICES ASSUME TextInv, at = "done", Literal PROVE AllShown
    BY DEF PartsAreShown
  <2>1. /\ part = Len(row) + 1 /\ Len(row) \in Nat /\ DOMAIN row = 1..Len(row)
        /\ \A i \in 1..Len(row) : texts[i] = IF i < part THEN Shown(row[i]) ELSE row[i]
    BY TextTypes DEF TextInv, Progress
  <2>2. \A i \in 1..Len(row) : i < part
    BY <2>1
  <2> QED
    BY <2>1, <2>2 DEF AllShown
<1> QED
  BY <1>1, TextsKept, PTL

\* A task's texts alone never make process throw: it fails only of a flag with a
\* '$' or a backslash, whatever is in the texts and however long they are.
THEOREM OnlyFlagsFail == Spec => []FailsOnFlagOnly
<1>1. TextInv => FailsOnFlagOnly
  BY DEF TextInv, Progress, FailsOnFlagOnly
<1> QED
  BY <1>1, TextsKept, PTL
=============================================================================
