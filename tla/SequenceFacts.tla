--------------------------- MODULE SequenceFacts ---------------------------
(***************************************************************************)
(* Facts about natural numbers and sequences that the proofs need.  An     *)
(* induction is stated for a set: the set of all numbers with the property *)
(* in question takes the place of the property.                            *)
(***************************************************************************)
EXTENDS Integers, SequencesExt, WellFoundedInduction, SequenceTheorems, FiniteSetTheorems,
        TLAPS

\* A nonempty set of natural numbers has a least element.
LEMMA LeastNatural ==
    ASSUME NEW U \in SUBSET Nat, U # {}
    PROVE  \E v \in U : \A w \in U : ~(w < v)
<1> DEFINE R == {p \in Nat \X Nat : p[1] < p[2]}
<1>1. IsWellFoundedOn(R, Nat)
  BY NatLessThanWellFounded, Zenon DEF OpToRel
<1>2. PICK v \in U : \A w \in U : ~(<<w, v>> \in R)
  BY <1>1, WFMin
<1>3. QED
  BY <1>2

\* A set that has 0 and, with each number, its successor, has all natural numbers.
LEMMA Induction ==
    ASSUME NEW S, 0 \in S, \A n \in Nat : n \in S => n + 1 \in S
    PROVE  Nat \subseteq S
<1> DEFINE U == {n \in Nat : n \notin S}
<1> SUFFICES ASSUME U # {} PROVE FALSE
  OBVIOUS
<1>1. PICK v \in U : \A w \in U : ~(w < v)
  BY LeastNatural
<1>2. v # 0 /\ v - 1 \in Nat /\ v - 1 < v /\ (v - 1) + 1 = v
  BY <1>1
<1>3. QED
  BY <1>1, <1>2

\* A sequence whose elements are all in a set is a sequence over that set.
LEMMA SeqOver ==
    ASSUME NEW X, NEW s \in Seq(X), NEW E, \A j \in 1..Len(s) : s[j] \in E
    PROVE  s \in Seq(E)
OBVIOUS

\* The recursive function in the definition of FlattenSeq exists.
LEMMA FlattenExists ==
    ASSUME NEW seqs, NEW n \in Nat
    PROVE  \E f : f = [i \in 1..n |-> IF i = 1 THEN seqs[i] ELSE f[i - 1] \o seqs[i]]
<1> DEFINE Is(f, m) == f = [i \in 1..m |-> IF i = 1 THEN seqs[i] ELSE f[i - 1] \o seqs[i]]
           M == {m \in Nat : \E f : Is(f, m)}
<1>1. 0 \in M
  <2>1. Is([i \in 1..0 |-> 0], 0)
    OBVIOUS
  <2>2. QED
    BY <2>1
<1>2. ASSUME NEW m \in Nat, m \in M PROVE m + 1 \in M
  <2>1. PICK f : Is(f, m)
    BY <1>2
  <2> DEFINE last == IF m + 1 = 1 THEN seqs[m + 1] ELSE f[m] \o seqs[m + 1]
             g == [i \in 1..(m + 1) |-> IF i = m + 1 THEN last ELSE f[i]]
  <2>2. ASSUME NEW i \in 1..(m + 1)
        PROVE  g[i] = IF i = 1 THEN seqs[i] ELSE g[i - 1] \o seqs[i]
    <3>1. CASE i = m + 1
      <4>1. g[i] = last
        BY <3>1
      <4>2. i # 1 => i - 1 = m /\ i - 1 \in 1..(m + 1) /\ g[i - 1] = f[m]
        BY <3>1
      <4>3. QED
        BY <3>1, <4>1, <4>2
    <3>2. CASE i # m + 1
      <4>1. i \in 1..m /\ g[i] = f[i]
        BY <3>2
      <4>2. f[i] = IF i = 1 THEN seqs[i] ELSE f[i - 1] \o seqs[i]
        BY <4>1, <2>1
      <4>3. i # 1 => i - 1 \in 1..(m + 1) /\ i - 1 # m + 1 /\ g[i - 1] = f[i - 1]
        BY <4>1
      <4>4. QED
        BY <4>1, <4>2, <4>3
    <3>3. QED
      BY <3>1, <3>2
  <2>3. Is(g, m + 1)
    <3> HIDE DEF last
    <3>1. g = [i \in 1..(m + 1) |-> g[i]]
      OBVIOUS
    <3> HIDE DEF g
    <3>2. QED
      BY <2>2, <3>1
  <2> HIDE DEF g
  <2>4. \E h : Is(h, m + 1)
    BY <2>3
  <2> HIDE DEF Is
  <2>5. m + 1 \in Nat
    OBVIOUS
  <2>6. QED
    BY <2>4, <2>5
<1> HIDE DEF M
<1>3. n \in M
  BY <1>1, <1>2, Induction
<1>4. QED
  BY <1>3 DEF M

\* FlattenSeq is the last value of that function.
LEMMA FlattenUnfolds ==
    ASSUME NEW seqs, Len(seqs) \in Nat, Len(seqs) # 0
    PROVE  \E f : /\ f = [i \in 1..Len(seqs) |-> IF i = 1 THEN seqs[i] ELSE f[i - 1] \o seqs[i]]
                  /\ FlattenSeq(seqs) = f[Len(seqs)]
<1> DEFINE f == CHOOSE f : f = [i \in 1..Len(seqs) |-> IF i = 1 THEN seqs[i] ELSE f[i - 1] \o seqs[i]]
<1>1. f = [i \in 1..Len(seqs) |-> IF i = 1 THEN seqs[i] ELSE f[i - 1] \o seqs[i]]
  BY FlattenExists
<1>2. FlattenSeq(seqs) = f[Len(seqs)]
  BY DEF FlattenSeq
<1>3. QED
  BY <1>1, <1>2

\* One sequence is its own concatenation, and no sequence is the empty one.
LEMMA FlattenOne ==
    ASSUME NEW seqs, Len(seqs) = 1
    PROVE  FlattenSeq(seqs) = seqs[1]
<1>1. Len(seqs) \in Nat /\ Len(seqs) # 0 /\ 1 \in 1..1
  OBVIOUS
<1>2. PICK f : /\ f = [i \in 1..Len(seqs) |-> IF i = 1 THEN seqs[i] ELSE f[i - 1] \o seqs[i]]
               /\ FlattenSeq(seqs) = f[Len(seqs)]
  BY ONLY <1>1, FlattenUnfolds, Zenon
<1>3. f[1] = seqs[1]
  BY <1>1, <1>2
<1>4. QED
  BY <1>2, <1>3

\* Nothing flattens to nothing.
LEMMA FlattenNone == FlattenSeq(<<>>) = <<>>
BY DEF FlattenSeq

\* f[i] is the concatenation of the first i sequences of s.
IsSum(f, s, n) == f[0] = <<>> /\ \A i \in 1..n : f[i] = f[i - 1] \o s[i]

\* FlattenSeq as a running concatenation that starts with the empty sequence.
LEMMA FlattenSums ==
    ASSUME NEW S, NEW seqs \in Seq(Seq(S))
    PROVE  \E sum \in [0..Len(seqs) -> Seq(S)] :
               IsSum(sum, seqs, Len(seqs)) /\ FlattenSeq(seqs) = sum[Len(seqs)]
<1> DEFINE n == Len(seqs)
<1>0. n \in Nat /\ \A i \in 1..n : seqs[i] \in Seq(S)
  OBVIOUS
<1>e. <<>> \in Seq(S)
  OBVIOUS
<1>1. CASE n = 0
  <2> DEFINE sum == [i \in 0..0 |-> <<>>]
  <2>1. sum \in [0..n -> Seq(S)] /\ sum[0] = <<>>
    BY <1>1, <1>e
  <2>2. FlattenSeq(seqs) = seqs /\ seqs = <<>>
    BY <1>1 DEF FlattenSeq
  <2>3. IsSum(sum, seqs, n)
    BY <1>1, <2>1 DEF IsSum
  <2>4. FlattenSeq(seqs) = sum[n]
    BY <1>1, <2>1, <2>2
  <2> HIDE DEF sum
  <2>5. QED
    BY <2>1, <2>3, <2>4 DEF n
<1>2. CASE n # 0
  <2>1. PICK f : /\ f = [i \in 1..n |-> IF i = 1 THEN seqs[i] ELSE f[i - 1] \o seqs[i]]
                 /\ FlattenSeq(seqs) = f[n]
    BY <1>0, <1>2, FlattenUnfolds
  <2> DEFINE sum == [i \in 0..n |-> IF i = 0 THEN <<>> ELSE f[i]]
             M == {i \in Nat : i <= n => sum[i] \in Seq(S)}
  <2>2. \A i \in 1..n : f[i] = IF i = 1 THEN seqs[i] ELSE f[i - 1] \o seqs[i]
    BY <2>1
  <2>3. sum[0] = <<>> /\ \A i \in 1..n : sum[i] = f[i]
    BY <1>0
  <2>4. sum[n] = f[n]
    BY <1>0, <1>2, <2>3
  <2>d. DOMAIN sum = 0..n
    OBVIOUS
  <2> HIDE DEF sum, n
  <2>5. ASSUME NEW i \in 1..n, sum[i - 1] \in Seq(S) PROVE sum[i] = sum[i - 1] \o seqs[i]
    <3>1. CASE i = 1
      <4>1. sum[i] = seqs[i] /\ seqs[i] \in Seq(S)
        BY <3>1, <2>2, <2>3, <1>0
      <4>2. i - 1 = 0
        BY <3>1
      <4>3. sum[i - 1] = <<>>
        BY <4>2, <2>3
      <4>4. <<>> \o seqs[i] = seqs[i]
        BY <4>1, ConcatEmptySeq, Zenon
      <4>5. QED
        BY <4>1, <4>3, <4>4
    <3>2. CASE i # 1
      <4>1. i - 1 \in 1..n
        BY <3>2, <1>0
      <4>2. QED
        BY <3>2, <4>1, <2>2, <2>3
    <3>3. QED
      BY <3>1, <3>2
  <2>6. Nat \subseteq M
    <3>1. 0 \in M
      BY <2>3, <1>e
    <3>2. ASSUME NEW i \in Nat, i \in M PROVE i + 1 \in M
      <4>1. ASSUME i + 1 <= n PROVE sum[i + 1] \in Seq(S)
        <5>1. i <= n /\ sum[i] \in Seq(S) /\ i + 1 \in 1..n /\ (i + 1) - 1 = i
          BY <3>2, <4>1, <1>0
        <5>2. sum[i + 1] = sum[i] \o seqs[i + 1] /\ seqs[i + 1] \in Seq(S)
          BY <5>1, <2>5, <1>0
        <5>3. QED
          BY <5>1, <5>2, ConcatProperties
      <4>2. QED
        BY <4>1
    <3> HIDE DEF M
    <3>3. QED
      BY <3>1, <3>2, Induction
  <2>7. \A i \in 0..n : sum[i] \in Seq(S)
    BY <2>6, <1>0
  <2>8. \A i \in 1..n : sum[i] = sum[i - 1] \o seqs[i]
    <3>1. \A i \in 1..n : i - 1 \in 0..n
      BY <1>0
    <3>2. QED
      BY <3>1, <2>5, <2>7, Zenon
  <2>9. sum \in [0..n -> Seq(S)]
    <3>1. sum = [i \in 0..n |-> sum[i]]
      BY DEF sum
    <3>2. QED
      BY <3>1, <2>7
  <2>10. IsSum(sum, seqs, n)
    BY <2>3, <2>8 DEF IsSum
  <2>11. QED
    BY <2>1, <2>4, <2>9, <2>10 DEF n
<1>3. QED
  BY <1>1, <1>2

\* The elements of the flattened sequence have the type of those of the sequences.
LEMMA FlattenType ==
    ASSUME NEW S, NEW seqs \in Seq(Seq(S))
    PROVE  FlattenSeq(seqs) \in Seq(S)
<1>1. PICK sum \in [0..Len(seqs) -> Seq(S)] : FlattenSeq(seqs) = sum[Len(seqs)]
  BY FlattenSums
<1>2. Len(seqs) \in 0..Len(seqs)
  OBVIOUS
<1>3. QED
  BY <1>1, <1>2

\* Running concatenations are the same as long as their sequences agree.
LEMMA SumPrefix ==
    ASSUME NEW s, NEW t, NEW f, NEW g, NEW n \in Nat,
           IsSum(f, s, n), IsSum(g, t, n), \A i \in 1..n : s[i] = t[i]
    PROVE  f[n] = g[n]
<1> USE DEF IsSum
<1> DEFINE M == {i \in Nat : i <= n => f[i] = g[i]}
<1>1. 0 \in M
  OBVIOUS
<1>2. ASSUME NEW i \in Nat, i \in M PROVE i + 1 \in M
  <2>1. ASSUME i + 1 <= n PROVE f[i + 1] = g[i + 1]
    <3>1. i + 1 \in 1..n /\ (i + 1) - 1 = i /\ f[i] = g[i]
      BY <1>2, <2>1
    <3>2. f[i + 1] = f[(i + 1) - 1] \o s[i + 1] /\ g[i + 1] = g[(i + 1) - 1] \o t[i + 1]
      BY <3>1
    <3>3. QED
      BY <3>1, <3>2
  <2>2. QED
    BY <2>1
<1> HIDE DEF M
<1>3. n \in M
  BY <1>1, <1>2, Induction
<1>4. QED
  BY <1>3 DEF M

\* One more sequence is added at the end of the flattened one.
LEMMA FlattenAppend ==
    ASSUME NEW S, NEW seqs \in Seq(Seq(S)), NEW s \in Seq(S)
    PROVE  FlattenSeq(Append(seqs, s)) = FlattenSeq(seqs) \o s
<1> DEFINE longer == Append(seqs, s)
           n == Len(seqs)
<1>1. /\ longer \in Seq(Seq(S)) /\ Len(longer) = n + 1 /\ n \in Nat
      /\ longer[n + 1] = s /\ \A i \in 1..n : seqs[i] = longer[i]
  OBVIOUS
<1>2. PICK f : IsSum(f, seqs, n) /\ FlattenSeq(seqs) = f[n]
  BY FlattenSums
<1> HIDE DEF longer, n
<1>3. PICK g : IsSum(g, longer, Len(longer)) /\ FlattenSeq(longer) = g[Len(longer)]
  BY <1>1, FlattenSums
<1>4. f[n] = g[n]
  <2>1. \A i \in 1..n : i \in 1..Len(longer)
    BY <1>1
  <2>2. IsSum(g, longer, n)
    BY <2>1, <1>3 DEF IsSum
  <2>3. QED
    BY <2>2, <1>1, <1>2, SumPrefix
<1>5. g[n + 1] = g[n] \o s
  <2>1. n + 1 \in 1..Len(longer) /\ (n + 1) - 1 = n
    BY <1>1
  <2>2. g[n + 1] = g[(n + 1) - 1] \o longer[n + 1]
    BY <2>1, <1>3 DEF IsSum
  <2>3. QED
    BY <2>1, <2>2, <1>1
<1>6. FlattenSeq(longer) = FlattenSeq(seqs) \o s
  BY <1>1, <1>2, <1>3, <1>4, <1>5
<1>7. QED
  BY <1>6 DEF longer

\* ConcatAssociative, for one set of sequences.
LEMMA Associative ==
    ASSUME NEW S
    PROVE  \A x, y, z \in Seq(S) : (x \o y) \o z = x \o (y \o z)
BY ConcatAssociative

\* The c-th sequence is the last one that is not empty, and b is added to it.
IsExtended(other, seqs, c, b) ==
    /\ Len(other) = Len(seqs) /\ c \in 1..Len(seqs)
    /\ \A i \in 1..Len(seqs) : other[i] = IF i = c THEN seqs[i] \o b ELSE seqs[i]
    /\ \A d \in 1..Len(seqs) : d > c => seqs[d] = <<>>

\* What is added to the last sequence that is not empty is added to the whole.
LEMMA FlattenExtend ==
    ASSUME NEW S, NEW seqs \in Seq(Seq(S)), NEW other \in Seq(Seq(S)),
           NEW c, NEW b \in Seq(S), IsExtended(other, seqs, c, b)
    PROVE  FlattenSeq(other) = FlattenSeq(seqs) \o b
<1> DEFINE n == Len(seqs)
<1>s. PICK s \in Seq(S) : seqs[c] = s
  BY DEF IsExtended
<1>1. n \in Nat /\ c \in 1..n /\ s \in Seq(S)
  BY DEF IsExtended
<1>3. /\ Len(other) = n /\ other[c] = s \o b
      /\ \A i \in 1..n : i # c => seqs[i] = other[i]
  BY <1>1, <1>s DEF IsExtended
<1>4. PICK f : f \in [0..n -> Seq(S)] /\ IsSum(f, seqs, n) /\ FlattenSeq(seqs) = f[n]
  BY FlattenSums
<1>5. PICK g : IsSum(g, other, n) /\ FlattenSeq(other) = g[n]
  <2>1. \E g : IsSum(g, other, Len(other)) /\ FlattenSeq(other) = g[Len(other)]
    BY <1>3, FlattenSums
  <2>2. QED
    BY <2>1, <1>3
<1>0. seqs[c] = s /\ \A d \in 1..n : d > c => seqs[d] = <<>>
  BY <1>s DEF IsExtended
<1> HIDE DEF n
<1>2. \A x \in Seq(S) : (x \o s) \o b = x \o (s \o b)
  BY Associative
<1>6. f[c - 1] = g[c - 1]
  <2> DEFINE m == c - 1
  <2>1. m \in Nat /\ \A i \in 1..m : i \in 1..n /\ i # c
    BY <1>1
  <2> HIDE DEF m
  <2>2. IsSum(f, seqs, m) /\ IsSum(g, other, m)
    BY <2>1, <1>4, <1>5 DEF IsSum
  <2>3. \A i \in 1..m : seqs[i] = other[i]
    BY <2>1, <1>3
  <2>4. f[m] = g[m]
    BY <2>1, <2>2, <2>3, SumPrefix
  <2>5. QED
    BY <2>4 DEF m
<1> DEFINE M == {i \in Nat : c <= i /\ i <= n => g[i] = f[i] \o b}
<1>7. 0 \in M
  BY <1>1
<1>8. ASSUME NEW i \in Nat, i \in M PROVE i + 1 \in M
  <2>1. ASSUME c <= i + 1, i + 1 <= n PROVE g[i + 1] = f[i + 1] \o b
    <3>1. i + 1 \in 1..n /\ i \in 0..n /\ (i + 1) - 1 = i
      BY <2>1, <1>1
    <3>2. f[i + 1] = f[(i + 1) - 1] \o seqs[i + 1] /\ g[i + 1] = g[(i + 1) - 1] \o other[i + 1]
      BY <3>1, <1>4, <1>5 DEF IsSum
    <3> DEFINE x == f[i]
    <3>3. x \in Seq(S) /\ f[i + 1] = x \o seqs[i + 1] /\ g[i + 1] = g[i] \o other[i + 1]
      BY <3>1, <3>2, <1>4
    <3>4. CASE i + 1 = c
      <4>1. x = g[i]
        <5>1. i = c - 1
          BY <3>4, <1>1
        <5>2. QED
          BY <5>1, <1>6
      <4>2. g[i + 1] = x \o (s \o b) /\ f[i + 1] = x \o s
        BY <3>3, <3>4, <4>1, <1>0, <1>3
      <4> HIDE DEF x
      <4>3. (x \o s) \o b = x \o (s \o b)
        BY <3>3, <1>2
      <4>4. QED
        BY <4>2, <4>3
    <3>5. CASE i + 1 # c
      <4>1. c <= i /\ i <= n /\ i + 1 > c
        BY <3>5, <2>1, <1>1
      <4>2. seqs[i + 1] = <<>> /\ other[i + 1] = <<>>
        BY <4>1, <3>1, <3>5, <1>0, <1>3
      <4>3. g[i] = x \o b
        BY <4>1, <1>8
      <4> HIDE DEF x
      <4>4. f[i + 1] = x /\ x \o b \in Seq(S)
        BY <4>2, <3>3, ConcatEmptySeq, ConcatProperties
      <4>5. (x \o b) \o <<>> = x \o b
        BY <4>4, ConcatEmptySeq
      <4>6. g[i + 1] = x \o b
        BY <4>2, <4>3, <4>5, <3>3
      <4>7. QED
        BY <4>4, <4>6
    <3>6. QED
      BY <3>4, <3>5
  <2>2. QED
    BY <2>1
<1> HIDE DEF M
<1>9. n \in M
  BY <1>1, <1>7, <1>8, Induction
<1>10. g[n] = f[n] \o b
  BY <1>1, <1>9 DEF M
<1>11. QED
  BY <1>4, <1>5, <1>10

\* The elements of a concatenation are those of the sequences.
LEMMA FlattenElements ==
    ASSUME NEW S, NEW seqs \in Seq(Seq(S))
    PROVE  /\ \A i \in 1..Len(seqs) : \A j \in 1..Len(seqs[i]) :
                 \E k \in 1..Len(FlattenSeq(seqs)) : FlattenSeq(seqs)[k] = seqs[i][j]
           /\ \A k \in 1..Len(FlattenSeq(seqs)) :
                 \E i \in 1..Len(seqs) : \E j \in 1..Len(seqs[i]) : FlattenSeq(seqs)[k] = seqs[i][j]
<1> DEFINE n == Len(seqs)
<1>1. PICK sum \in [0..n -> Seq(S)] : IsSum(sum, seqs, n) /\ FlattenSeq(seqs) = sum[n]
  BY FlattenSums
<1>2. n \in Nat /\ \A i \in 1..n : seqs[i] \in Seq(S)
  OBVIOUS
<1> HIDE DEF n
<1> DEFINE In(s, m) == \E k \in 1..Len(s) : s[k] = m
           Up(m) == \A i \in 1..m : \A j \in 1..Len(seqs[i]) : In(sum[m], seqs[i][j])
           Down(m) == \A k \in 1..Len(sum[m]) :
                         \E i \in 1..m : In(seqs[i], sum[m][k])
           M == {m \in Nat : m <= n => Up(m) /\ Down(m)}
<1> HIDE DEF In, Up, Down
<1>3. 0 \in M
  <2>1. sum[0] = <<>>
    BY <1>1 DEF IsSum
  <2>2. Up(0) /\ Down(0)
    BY <2>1 DEF Up, Down
  <2> QED BY <2>2
<1>4. ASSUME NEW m \in Nat, m \in M PROVE m + 1 \in M
  <2> SUFFICES ASSUME m + 1 <= n PROVE Up(m + 1) /\ Down(m + 1)
    OBVIOUS
  <2>1. m \in 0..n /\ m + 1 \in 1..n /\ Up(m) /\ Down(m)
    BY <1>2, <1>4
  <2>2. PICK a \in Seq(S), b \in Seq(S) : a = sum[m] /\ b = seqs[m + 1]
    BY <1>1, <1>2, <2>1
  <2>3. sum[m + 1] = a \o b
    <3>1. \A i \in 1..n : sum[i] = sum[i - 1] \o seqs[i]
      BY <1>1 DEF IsSum
    <3>2. (m + 1) - 1 = m
      OBVIOUS
    <3>3. sum[m + 1] = sum[m] \o seqs[m + 1]
      BY ONLY <2>1, <3>1, <3>2, Zenon
    <3> QED BY <2>2, <3>3
  <2>4. /\ Len(a) \in Nat /\ Len(b) \in Nat /\ Len(a \o b) = Len(a) + Len(b)
        /\ \A k \in 1..Len(a) : (a \o b)[k] = a[k]
        /\ \A k \in 1..Len(b) : (a \o b)[Len(a) + k] = b[k]
    OBVIOUS
  <2>5. Up(m + 1)
    <3> SUFFICES ASSUME NEW i \in 1..(m + 1), NEW j \in 1..Len(seqs[i])
                 PROVE  In(a \o b, seqs[i][j])
      BY <2>3 DEF Up
    <3>1. CASE i \in 1..m
      <4>1. PICK k \in 1..Len(a) : a[k] = seqs[i][j]
        BY <2>1, <2>2, <3>1 DEF Up, In
      <4>2. k \in 1..Len(a \o b) /\ (a \o b)[k] = seqs[i][j]
        BY <2>4, <4>1
      <4> QED BY <4>2 DEF In
    <3>2. CASE i = m + 1
      <4>1. j \in 1..Len(b) /\ seqs[i][j] = b[j]
        BY <2>2, <3>2
      <4>2. Len(a) + j \in 1..Len(a \o b) /\ (a \o b)[Len(a) + j] = seqs[i][j]
        BY <2>4, <4>1
      <4> QED BY <4>2 DEF In
    <3> QED BY <3>1, <3>2
  <2>6. Down(m + 1)
    <3> SUFFICES ASSUME NEW k \in 1..Len(a \o b)
                 PROVE  \E i \in 1..(m + 1) : In(seqs[i], (a \o b)[k])
      BY <2>3 DEF Down
    <3>1. CASE k <= Len(a)
      <4>1. k \in 1..Len(a) /\ (a \o b)[k] = sum[m][k]
        BY <2>2, <2>4, <3>1
      <4>2. PICK i \in 1..m : In(seqs[i], sum[m][k])
        BY <2>1, <2>2, <4>1 DEF Down
      <4> QED BY <4>1, <4>2
    <3>2. CASE k > Len(a)
      <4>1. k - Len(a) \in 1..Len(b) /\ Len(a) + (k - Len(a)) = k
        BY <2>4, <3>2
      <4>2. (a \o b)[k] = b[k - Len(a)]
        BY <2>4, <4>1
      <4>3. In(b, (a \o b)[k])
        BY <4>1, <4>2 DEF In
      <4> QED BY <2>2, <4>3
    <3> QED BY <2>4, <3>1, <3>2
  <2> QED BY <2>5, <2>6
<1>5. n \in M
  <2> HIDE DEF M
  <2>1. Nat \subseteq M
    BY <1>3, <1>4, Induction
  <2> QED BY <1>2, <2>1
<1>6. Up(n) /\ Down(n)
  BY <1>2, <1>5
<1>7. /\ \A i \in 1..n : \A j \in 1..Len(seqs[i]) :
            \E k \in 1..Len(sum[n]) : sum[n][k] = seqs[i][j]
      /\ \A k \in 1..Len(sum[n]) :
            \E i \in 1..n : \E j \in 1..Len(seqs[i]) : sum[n][k] = seqs[i][j]
  BY <1>6, Zenon DEF Up, Down, In
<1>8. n = Len(seqs) /\ sum[n] = FlattenSeq(seqs)
  BY <1>1 DEF n
<1> QED BY ONLY <1>7, <1>8

\* The concatenation of more sequences goes on where that of the first ones ends.
LEMMA FlattenConcat ==
    ASSUME NEW S, NEW a \in Seq(Seq(S)), NEW b \in Seq(Seq(S))
    PROVE  FlattenSeq(a \o b) = FlattenSeq(a) \o FlattenSeq(b)
<1> DEFINE ab == a \o b
           n == Len(a)
           m == Len(b)
<1>1. /\ ab \in Seq(Seq(S)) /\ Len(ab) = n + m /\ n \in Nat /\ m \in Nat
      /\ \A i \in 1..n : ab[i] = a[i]
      /\ \A i \in 1..m : ab[n + i] = b[i] /\ b[i] \in Seq(S)
  OBVIOUS
<1> HIDE DEF ab, n, m
<1>2. PICK fa \in [0..n -> Seq(S)] : IsSum(fa, a, n) /\ FlattenSeq(a) = fa[n]
  BY FlattenSums DEF n
<1>3. PICK fb \in [0..m -> Seq(S)] : IsSum(fb, b, m) /\ FlattenSeq(b) = fb[m]
  BY FlattenSums DEF m
<1>4. PICK fab \in [0..(n + m) -> Seq(S)] : IsSum(fab, ab, n + m) /\ FlattenSeq(ab) = fab[n + m]
  <2>1. \E fab \in [0..Len(ab) -> Seq(S)] : IsSum(fab, ab, Len(ab)) /\ FlattenSeq(ab) = fab[Len(ab)]
    BY ONLY <1>1, FlattenSums
  <2>2. Len(ab) = n + m
    BY <1>1
  <2> QED BY ONLY <2>1, <2>2, Zenon
<1>5. fab[n] = fa[n]
  <2>1. 1..n \subseteq 1..(n + m)
    BY <1>1
  <2>2. IsSum(fab, ab, n)
    BY <1>4, <2>1 DEF IsSum
  <2>3. n \in Nat
    BY <1>1
  <2>4. IsSum(fa, a, n)
    BY <1>2
  <2>5. \A i \in 1..n : ab[i] = a[i]
    BY <1>1
  <2>6. PICK u, k, p, q : u = ab /\ k = n /\ p = fab /\ q = fa
    OBVIOUS
  <2>7. k \in Nat /\ IsSum(p, u, k) /\ IsSum(q, a, k) /\ \A i \in 1..k : u[i] = a[i]
    BY ONLY <2>2, <2>3, <2>4, <2>5, <2>6
  <2>8. p[k] = q[k]
    BY ONLY <2>7, SumPrefix
  <2> QED BY <2>6, <2>8
<1> DEFINE Agree(i) == fab[n + i] = fa[n] \o fb[i]
           M == {i \in Nat : i <= m => Agree(i)}
<1> HIDE DEF Agree
<1>6. 0 \in M
  <2>1. fb[0] = <<>> /\ fa[n] \in Seq(S) /\ n + 0 = n
    BY <1>1, <1>2, <1>3 DEF IsSum
  <2>2. fa[n] \o <<>> = fa[n]
    BY <2>1, ConcatEmptySeq
  <2> QED BY <1>5, <2>1, <2>2 DEF Agree
<1>7. ASSUME NEW i \in Nat, i \in M PROVE i + 1 \in M
  <2> SUFFICES ASSUME i + 1 <= m PROVE Agree(i + 1)
    OBVIOUS
  <2>1. /\ i + 1 \in 1..m /\ i \in 0..m /\ (i + 1) - 1 = i
        /\ n + (i + 1) \in 1..(n + m) /\ (n + (i + 1)) - 1 = n + i
    BY <1>1
  <2>6. fab[n + i] = fa[n] \o fb[i]
    <3>1. i <= m
      BY <2>1
    <3>2. Agree(i)
      BY <1>7, <3>1
    <3> QED BY <3>2 DEF Agree
  <2>2. fab[n + (i + 1)] = fab[n + i] \o ab[n + (i + 1)]
    BY <1>4, <2>1 DEF IsSum
  <2>3. fb[i + 1] = fb[i] \o b[i + 1]
    BY <1>3, <2>1 DEF IsSum
  <2>4. ab[n + (i + 1)] = b[i + 1] /\ b[i + 1] \in Seq(S) /\ fb[i] \in Seq(S) /\ fa[n] \in Seq(S)
    <3>1. n \in 0..n
      BY <1>1
    <3> QED BY <1>1, <1>2, <1>3, <2>1, <3>1
  <2>5. (fa[n] \o fb[i]) \o b[i + 1] = fa[n] \o (fb[i] \o b[i + 1])
    <3>1. \A x, y, z \in Seq(S) : (x \o y) \o z = x \o (y \o z)
      BY Associative
    <3> QED BY ONLY <2>4, <3>1, Zenon
  <2> QED BY <2>1, <2>2, <2>3, <2>4, <2>5, <2>6 DEF Agree
<1>8. m \in M
  <2> HIDE DEF M
  <2>1. Nat \subseteq M
    BY <1>6, <1>7, Induction
  <2> QED BY <1>1, <2>1
<1>9. fab[n + m] = fa[n] \o fb[m]
  BY <1>1, <1>8 DEF Agree
<1> QED BY <1>2, <1>3, <1>4, <1>9 DEF ab

\* The reverse has the same elements, from the other end.
LEMMA ReverseElements ==
    ASSUME NEW S, NEW s \in Seq(S)
    PROVE  /\ Reverse(s) \in Seq(S) /\ Len(Reverse(s)) = Len(s)
           /\ \A i \in 1..Len(s) : Reverse(s)[i] = s[(Len(s) - i) + 1]
BY DEF Reverse

\* The reverse of a concatenation.
LEMMA ReverseConcat ==
    ASSUME NEW S, NEW a \in Seq(S), NEW b \in Seq(S)
    PROVE  Reverse(a \o b) = Reverse(b) \o Reverse(a)
<1> DEFINE n == Len(a)
           m == Len(b)
           ab == a \o b
           ra == Reverse(a)
           rb == Reverse(b)
           left == Reverse(ab)
           right == rb \o ra
<1>1. /\ n \in Nat /\ m \in Nat /\ ab \in Seq(S) /\ Len(ab) = n + m
      /\ \A i \in 1..(n + m) : ab[i] = IF i <= n THEN a[i] ELSE b[i - n]
  BY ConcatProperties
<1>2. /\ ra \in Seq(S) /\ Len(ra) = n /\ \A i \in 1..n : ra[i] = a[(n - i) + 1]
      /\ rb \in Seq(S) /\ Len(rb) = m /\ \A i \in 1..m : rb[i] = b[(m - i) + 1]
  BY ReverseElements
<1> HIDE DEF n, m, ab, ra, rb
<1>3. /\ left \in Seq(S) /\ Len(left) = n + m
      /\ \A i \in 1..(n + m) : left[i] = ab[((n + m) - i) + 1]
  BY <1>1, ReverseElements
<1> HIDE DEF left
<1>4. /\ right \in Seq(S) /\ Len(right) = m + n
      /\ \A i \in 1..(m + n) : right[i] = IF i <= m THEN rb[i] ELSE ra[i - m]
  <2>1. /\ right \in Seq(S) /\ Len(right) = Len(rb) + Len(ra)
        /\ \A i \in 1..(Len(rb) + Len(ra)) : right[i] = IF i <= Len(rb) THEN rb[i] ELSE ra[i - Len(rb)]
    BY ONLY <1>2, ConcatProperties
  <2> QED BY <1>2, <2>1
<1> HIDE DEF right
<1>5. ASSUME NEW i \in 1..(n + m) PROVE left[i] = right[i]
  <2>1. CASE i <= m
    <3>1. ((n + m) - i) + 1 \in 1..(n + m) /\ ~(((n + m) - i) + 1 <= n)
          /\ (((n + m) - i) + 1) - n = (m - i) + 1 /\ i \in 1..m /\ i \in 1..(m + n)
      BY <1>1, <2>1
    <3>2. left[i] = ab[((n + m) - i) + 1] /\ ab[((n + m) - i) + 1] = b[(((n + m) - i) + 1) - n]
      BY <1>1, <1>3, <3>1
    <3>3. right[i] = rb[i] /\ rb[i] = b[(m - i) + 1]
      BY <1>2, <1>4, <2>1, <3>1
    <3> QED BY ONLY <3>1, <3>2, <3>3
  <2>2. CASE ~(i <= m)
    <3>1. ((n + m) - i) + 1 \in 1..(n + m) /\ ((n + m) - i) + 1 <= n
          /\ (n - (i - m)) + 1 = ((n + m) - i) + 1 /\ i - m \in 1..n /\ i \in 1..(m + n)
      BY <1>1, <2>2
    <3>2. left[i] = ab[((n + m) - i) + 1] /\ ab[((n + m) - i) + 1] = a[((n + m) - i) + 1]
      BY <1>1, <1>3, <3>1
    <3>3. right[i] = ra[i - m] /\ ra[i - m] = a[(n - (i - m)) + 1]
      BY <1>2, <1>4, <2>2, <3>1
    <3> QED BY ONLY <3>1, <3>2, <3>3
  <2> QED BY <2>1, <2>2
<1>6. n + m = m + n
  BY <1>1
<1>7. left = right
  BY <1>3, <1>4, <1>5, <1>6, SeqEqual
<1> QED BY <1>7 DEF left, right, ab, ra, rb

\* A nonempty set of positions has a last one.
LEMMA LastPosition ==
    ASSUME NEW n \in Nat, NEW I \in SUBSET (0..n), I # {}
    PROVE  \E i \in I : \A j \in I : j <= i
<1> DEFINE U == {n - i : i \in I}
<1>1. U \in SUBSET Nat /\ U # {}
  <2>1. \A i \in I : i \in 0..n
    OBVIOUS
  <2>2. \A i \in 0..n : n - i \in Nat
    OBVIOUS
  <2> QED BY <2>1, <2>2
<1>2. PICK v \in U : \A w \in U : ~(w < v)
  BY <1>1, LeastNatural
<1>3. PICK i \in I : v = n - i
  BY <1>2
<1>4. ASSUME NEW j \in I PROVE j <= i
  <2>1. n - j \in U /\ j \in Int /\ i \in Int
    OBVIOUS
  <2>2. ~(n - j < n - i)
    BY <1>2, <1>3, <2>1
  <2> QED BY <2>1, <2>2
<1> QED BY <1>3, <1>4

\* f starts with b, and G takes it n steps further within U.
IsIteration(f, U, n, b, G) ==
    /\ f \in [0..n -> U] /\ f[0] = b
    /\ \A k \in 1..n : f[k] = G[<<k, f[k - 1]>>]

\* There is such a function.
LEMMA IteratesExist ==
    ASSUME NEW U, NEW n \in Nat, NEW b \in U, NEW G \in [(1..n) \X U -> U]
    PROVE  \E f : IsIteration(f, U, n, b, G)
<1> USE DEF IsIteration
<1> DEFINE Is(f, m) == IsIteration(f, U, m, b, G)
           M == {m \in Nat : m <= n => \E f : Is(f, m)}
<1>1. 0 \in M
  <2>1. Is([k \in 0..0 |-> b], 0)
    OBVIOUS
  <2> QED BY <2>1
<1>2. ASSUME NEW m \in Nat, m \in M PROVE m + 1 \in M
  <2> SUFFICES ASSUME m + 1 <= n PROVE \E f : Is(f, m + 1)
    OBVIOUS
  <2>1. PICK f : Is(f, m)
    BY <1>2
  <2> DEFINE g == [k \in 0..(m + 1) |-> IF k <= m THEN f[k] ELSE G[<<m + 1, f[m]>>]]
  <2>2. f[m] \in U /\ m + 1 \in 1..n
    BY <2>1
  <2>3. G[<<m + 1, f[m]>>] \in U
    BY <2>2
  <2>4. g \in [0..(m + 1) -> U] /\ g[0] = b
    BY <2>1, <2>3
  <2>5. ASSUME NEW k \in 1..(m + 1) PROVE g[k] = G[<<k, g[k - 1]>>]
    <3>1. k - 1 \in 0..m /\ g[k - 1] = f[k - 1]
      OBVIOUS
    <3>2. CASE k <= m
      <4>1. k \in 1..m /\ g[k] = f[k]
        BY <3>2
      <4>2. f[k] = G[<<k, f[k - 1]>>]
        BY <2>1, <4>1
      <4> QED BY <3>1, <4>1, <4>2
    <3>3. CASE k = m + 1
      <4>1. g[k] = G[<<m + 1, f[m]>>] /\ k - 1 = m
        BY <3>3
      <4> QED BY <3>1, <3>3, <4>1
    <3> QED BY <3>2, <3>3
  <2>6. Is(g, m + 1)
    BY <2>4, <2>5
  <2> QED BY <2>6
<1>3. n \in M
  BY <1>1, <1>2, Induction
<1> QED BY <1>3

\* A function on 1..n is a sequence.
LEMMA IsSeq ==
    ASSUME NEW S, NEW n \in Nat, NEW f, f = [k \in 1..n |-> f[k]], \A k \in 1..n : f[k] \in S
    PROVE  f \in Seq(S) /\ Len(f) = n
OBVIOUS

\* What an iteration never leaves.
LEMMA IteratesStay ==
    ASSUME NEW U, NEW n \in Nat, NEW f, f[0] \in U,
           \A k \in 1..n : f[k - 1] \in U => f[k] \in U
    PROVE  \A k \in 0..n : f[k] \in U
<1> DEFINE M == {m \in Nat : m <= n => f[m] \in U}
<1>1. 0 \in M
  OBVIOUS
<1>2. ASSUME NEW m \in Nat, m \in M PROVE m + 1 \in M
  <2>1. CASE m + 1 <= n
    <3>1. m + 1 \in 1..n /\ (m + 1) - 1 = m /\ f[m] \in U
      BY <1>2, <2>1
    <3>2. f[(m + 1) - 1] \in U => f[m + 1] \in U
      BY <3>1
    <3> QED BY <3>1, <3>2
  <2>2. CASE ~(m + 1 <= n)
    BY <2>2
  <2> QED BY <2>1, <2>2
<1>3. Nat \subseteq M
  BY <1>1, <1>2, Induction
<1> QED BY <1>3

\* The least element of a nonempty set of numbers of a range.
LEMMA LeastOf ==
    ASSUME NEW a \in Nat, NEW b \in Int, NEW I \in SUBSET (a..b), I # {}
    PROVE  Min(I) \in I /\ \A i \in I : Min(I) <= i
<1>1. I \in SUBSET Nat
  OBVIOUS
<1>2. PICK v \in I : \A w \in I : ~(w < v)
  BY <1>1, LeastNatural
<1>3. \A w \in I : v <= w
  BY <1>1, <1>2
<1> QED BY <1>3 DEF Min

\* The least number of a range, or 0 for none.
LEMMA LeastOrZero ==
    ASSUME NEW a \in Nat, NEW b \in Int, NEW I \in SUBSET (a..b)
    PROVE  (IF I # {} THEN Min(I) ELSE 0) \in {0} \cup (a..b)
BY LeastOf

\* The greatest element of a nonempty set of numbers of a range, as Max and as a choice.
LEMMA GreatestOf ==
    ASSUME NEW a \in Nat, NEW b \in Nat, NEW I \in SUBSET (a..b), I # {}
    PROVE  /\ Max(I) \in I /\ \A i \in I : Max(I) >= i
           /\ (CHOOSE i \in I : \A j \in I : j <= i) \in I
<1>1. I \in SUBSET (0..b)
  OBVIOUS
<1>2. PICK v \in I : \A w \in I : w <= v
  BY <1>1, LastPosition
<1>3. v \in I /\ \A w \in I : v >= w
  BY <1>1, <1>2
<1> QED BY <1>2, <1>3 DEF Max

\* The greatest number of a set, or 0 for none.
LEMMA GreatestOrZero ==
    ASSUME NEW a \in Nat, NEW b \in Nat, NEW I \in SUBSET (a..b)
    PROVE  (IF I # {} THEN Max(I) ELSE 0) \in {0} \cup (a..b)
BY GreatestOf

\* A sequence over S stays one when an element is replaced by another one of S.
LEMMA ReplacedType ==
    ASSUME NEW S, NEW s \in Seq(S), NEW k \in 1..Len(s), NEW e \in S
    PROVE  [s EXCEPT ![k] = e] \in Seq(S)
OBVIOUS

\* What two lists have together.
LEMMA ElementsOfJoin ==
    ASSUME NEW S, NEW s \in Seq(S), NEW t \in Seq(S)
    PROVE  s \o t \in Seq(S) /\ ToSet(s \o t) = ToSet(s) \cup ToSet(t) /\ Len(s \o t) = Len(s) + Len(t)
<1>1. s \o t \in Seq(S) /\ Len(s \o t) = Len(s) + Len(t)
  OBVIOUS
<1>2. ASSUME NEW x \in ToSet(s \o t) PROVE x \in ToSet(s) \cup ToSet(t)
  BY DEF ToSet
<1>3. ASSUME NEW x \in ToSet(s) PROVE x \in ToSet(s \o t)
  <2>1. PICK i \in 1..Len(s) : x = s[i]
    BY DEF ToSet
  <2>2. i \in 1..Len(s \o t) /\ (s \o t)[i] = x
    BY <1>1, <2>1
  <2> QED BY <1>1, <2>2 DEF ToSet
<1>4. ASSUME NEW x \in ToSet(t) PROVE x \in ToSet(s \o t)
  <2>1. PICK i \in 1..Len(t) : x = t[i]
    BY DEF ToSet
  <2>2. Len(s) + i \in 1..Len(s \o t) /\ (s \o t)[Len(s) + i] = x
    BY <1>1, <2>1
  <2> QED BY <1>1, <2>2 DEF ToSet
<1> QED BY <1>1, <1>2, <1>3, <1>4

\* The powers that the verbosity stands for.
LEMMA Powers == /\ 2^0 = 1 /\ 2^1 = 2 /\ 2^2 = 4 /\ 2^3 = 8 /\ 2^4 = 16 /\ 2^5 = 32
                /\ \A k \in 0..5 : 2^k \in Nat \ {0}
<1>1. 2^0 = 1 /\ 2^1 = 2 /\ 2^2 = 4 /\ 2^3 = 8 /\ 2^4 = 16 /\ 2^5 = 32
  OBVIOUS
<1>2. ASSUME NEW k \in 0..5 PROVE 2^k \in Nat \ {0}
  <2>1. CASE k = 0
    BY <1>1, <2>1
  <2>2. CASE k = 1
    BY <1>1, <2>2
  <2>3. CASE k = 2
    BY <1>1, <2>3
  <2>4. CASE k = 3
    BY <1>1, <2>4
  <2>5. CASE k = 4
    BY <1>1, <2>5
  <2>6. CASE k = 5
    BY <1>1, <2>6
  <2> QED BY <2>1, <2>2, <2>3, <2>4, <2>5, <2>6
<1> QED BY <1>1, <1>2

\* A quotient is at least c exactly when c fits in.
LEMMA Quotient ==
    ASSUME NEW a \in Nat, NEW b \in Nat \ {0}, NEW c \in Nat
    PROVE  a \div b \in Nat /\ (c <= a \div b <=> c * b <= a)
<1>1. a \div b \in Nat
  OBVIOUS
<1> DEFINE q == a \div b
<1>2. q * b <= a /\ a < (q + 1) * b
  OBVIOUS
<1>3. c <= q => c * b <= q * b
  BY <1>1
<1>4. c > q => c * b >= (q + 1) * b
  BY <1>1
<1> HIDE DEF q
<1>5. q \in Nat /\ c * b \in Int /\ q * b \in Int /\ (q + 1) * b \in Int
  BY <1>1 DEF q
<1>6. c <= q <=> c * b <= a
  BY <1>2, <1>3, <1>4, <1>5
<1> QED BY <1>1, <1>6 DEF q

\* One element, or none, depending on c.
LEMMA IfOne ==
    ASSUME NEW C, NEW c, NEW e \in C
    PROVE  (IF c THEN <<e>> ELSE <<>>) \in Seq(C)
OBVIOUS

\* A finite set as a sequence.
LEMMA SetToSeqType ==
    ASSUME NEW S, IsFiniteSet(S)
    PROVE  SetToSeq(S) \in Seq(S)
<1>1. Cardinality(S) \in Nat /\ ExistsBijection(1..Cardinality(S), S)
  BY FS_CardinalityType
<1>2. PICK g : g \in Bijection(1..Cardinality(S), S)
  BY <1>1 DEF ExistsBijection
<1>3. g \in [1..Cardinality(S) -> S] /\ IsInjective(g)
  BY <1>2 DEF Bijection, Injection, IsInjective
<1>4. SetToSeq(S) \in [1..Cardinality(S) -> S]
  BY <1>3 DEF SetToSeq
<1> QED BY <1>1, <1>4

\* f[k] is given by the next position, which is a later one, or by none.
IsBackward(f, n, next, leaf, G) ==
    f = [k \in 1..n |-> IF next[k] = 0 THEN leaf[k] ELSE G[<<k, f[next[k]]>>]]

\* A recursion from later positions to earlier ones has a solution.
LEMMA BackwardExists ==
    ASSUME NEW R, NEW n \in Nat, NEW next, \A k \in 1..n : next[k] \in {0} \cup ((k + 1)..n),
           NEW leaf, \A k \in 1..n : leaf[k] \in R, NEW G \in [(1..n) \X R -> R]
    PROVE  \E f : IsBackward(f, n, next, leaf, G)
<1> DEFINE Value(f, k) == IF next[k] = 0 THEN leaf[k] ELSE G[<<k, f[next[k]]>>]
           Is(f, m) == f \in [(m + 1)..n -> R] /\ \A k \in (m + 1)..n : f[k] = Value(f, k)
           M == {j \in Nat : j <= n => \E f : Is(f, n - j)}
<1>1. 0 \in M
  <2>1. (n + 1)..n = {} /\ n - 0 = n
    OBVIOUS
  <2>2. [k \in (n + 1)..n |-> 0] \in [(n + 1)..n -> R]
    BY <2>1
  <2>3. Is([k \in (n + 1)..n |-> 0], n)
    BY <2>1, <2>2
  <2> QED BY <2>1, <2>3
<1>2. ASSUME NEW j \in Nat, j \in M PROVE j + 1 \in M
  <2> SUFFICES ASSUME j + 1 <= n PROVE \E f : Is(f, n - (j + 1))
    OBVIOUS
  <2>1. PICK m \in 1..n : m = n - j
    OBVIOUS
  <2>2. PICK f : Is(f, m)
    BY <1>2, <2>1
  <2>3. n - (j + 1) = m - 1 /\ (m - 1) + 1 = m
    BY <2>1
  <2>4. PICK v : v = Value(f, m)
    OBVIOUS
  <2>5. v \in R
    <3>1. CASE next[m] = 0
      BY <2>4, <3>1
    <3>2. CASE next[m] # 0
      <4>1. next[m] \in (m + 1)..n
        BY <3>2
      <4>2. f[next[m]] \in R
        BY <2>2, <4>1
      <4> QED BY <2>4, <3>2, <4>2
    <3> QED BY <3>1, <3>2
  <2> DEFINE g == [k \in m..n |-> IF k = m THEN v ELSE f[k]]
  <2>6. \A k \in (m + 1)..n : k \in m..n /\ k # m /\ g[k] = f[k]
    OBVIOUS
  <2>7. g[m] = v
    OBVIOUS
  <2>8. g \in [m..n -> R]
    <3>1. ASSUME NEW k \in m..n PROVE (IF k = m THEN v ELSE f[k]) \in R
      <4>1. k # m => k \in (m + 1)..n
        OBVIOUS
      <4> QED BY <2>2, <2>5, <4>1
    <3> QED BY <3>1
  <2> HIDE DEF g
  <2>9. ASSUME NEW k \in m..n PROVE g[k] = Value(g, k)
    <3>1. next[k] # 0 => g[next[k]] = f[next[k]]
      <4>1. next[k] # 0 => next[k] \in (m + 1)..n
        OBVIOUS
      <4> QED BY <2>6, <4>1
    <3>2. Value(g, k) = Value(f, k)
      BY <3>1
    <3>3. k # m => k \in (m + 1)..n
      OBVIOUS
    <3> QED BY <2>2, <2>4, <2>6, <2>7, <3>2, <3>3
  <2>10. Is(g, m - 1)
    BY <2>3, <2>8, <2>9
  <2> QED BY <2>3, <2>10
<1>3. n \in M
  BY <1>1, <1>2, Induction
<1>4. PICK f : Is(f, 0)
  BY <1>3
<1>5. f \in [1..n -> R] /\ \A k \in 1..n : f[k] = Value(f, k)
  BY <1>4
<1>6. f = [k \in 1..n |-> f[k]]
  BY <1>5
<1>7. f = [k \in 1..n |-> Value(f, k)]
  BY <1>5, <1>6
<1> QED BY <1>7 DEF IsBackward

\* And its values stay where the last ones are.
LEMMA BackwardStays ==
    ASSUME NEW R, NEW n \in Nat, NEW f, NEW next,
           \A k \in 1..n : next[k] \in {0} \cup ((k + 1)..n),
           \A k \in 1..n : next[k] = 0 => f[k] \in R,
           \A k \in 1..n : next[k] # 0 /\ f[next[k]] \in R => f[k] \in R
    PROVE  \A k \in 1..n : f[k] \in R
<1> DEFINE bad == {k \in 1..n : f[k] \notin R}
<1>1. ASSUME bad # {} PROVE FALSE
  <2>1. bad \in SUBSET (0..n)
    OBVIOUS
  <2>2. PICK k \in bad : \A j \in bad : j <= k
    <3> HIDE DEF bad
    <3> QED BY <1>1, <2>1, LastPosition
  <2>3. k \in 1..n /\ f[k] \notin R
    OBVIOUS
  <2>4. next[k] \in (k + 1)..n
    BY <2>3
  <2>5. next[k] \notin bad
    BY <2>2, <2>3, <2>4
  <2> QED BY <2>3, <2>4, <2>5
<1> QED BY <1>1

\* The last element after appending.
LEMMA LastAppended ==
    ASSUME NEW X, NEW a \in Seq(X), NEW e \in X, NEW b, b = Append(a, e)
    PROVE  b # <<>> /\ Last(b) = e
<1>1. Len(b) = Len(a) + 1 /\ b[Len(a) + 1] = e /\ Len(a) \in Nat
  BY AppendProperties
<1> QED BY <1>1 DEF Last

=============================================================================
