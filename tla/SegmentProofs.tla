--------------------------- MODULE SegmentProofs ---------------------------
(***************************************************************************)
(* What the operators of a segment compute, for every segment: append adds *)
(* one entry, the constructor of DictionarySegment keeps all of them, the  *)
(* two searches split a dictionary, and scanning by value id selects       *)
(* exactly what scanning by value selects.                                 *)
(***************************************************************************)
EXTENDS SegmentScanner, FiniteSetTheorems, TLAPS

-----------------------------------------------------------------------------
(* Segments *)

\* Segment sizes are natural numbers, and so is Chunk::size.
LEMMA SegmentSizeType ==
    ASSUME NEW segment \in Segment
    PROVE  Segment_size(segment) \in Nat
<1>1. CASE segment \in ValueSegment
  BY <1>1 DEF ValueSegment, Segment_size
<1>2. CASE segment \in DictionarySegment
  BY <1>2 DEF DictionarySegment, FittedAttributeVector, Segment_size
<1>3. QED
  BY <1>1, <1>2 DEF Segment

\* An empty value segment is a well-formed segment of size 0.
LEMMA EmptySegmentFacts ==
    ASSUME NEW type \in DataTypes
    PROVE  /\ EmptyValueSegment(type) \in Segment
           /\ Segment_size(EmptyValueSegment(type)) = 0
           /\ WellFormed(EmptyValueSegment(type))
<1>1. EmptyValueSegment(type) \in ValueSegment
  BY DEF EmptyValueSegment, ValueSegment
<1>2. QED
  BY <1>1 DEF EmptyValueSegment, Segment, Segment_size, WellFormed

\* ValueSegment::append keeps the entries and adds one.
LEMMA SegmentAppendFacts ==
    ASSUME NEW segment \in Segment, NEW variant \in AllTypeVariant,
           Accepts(segment, variant)
    PROVE  LET s == ValueSegment_append(segment, variant)
           IN  /\ s \in Segment /\ WellFormed(s)
               /\ s.kind = "value" /\ s.type = segment.type
               /\ Segment_size(s) = Segment_size(segment) + 1
               /\ \A k \in 1..Segment_size(segment) : Entry(s, k) = Entry(segment, k)
               /\ Entry(s, Segment_size(s)) = type_cast(segment.type, variant)
<1> DEFINE s == ValueSegment_append(segment, variant)
           v == type_cast(segment.type, variant)
<1>1. segment.kind = "value" /\ v # Throws
  BY DEF Accepts
<1>2. segment \in ValueSegment
  BY <1>1 DEF Segment, DictionarySegment
<1>3. segment.values \in Seq(Int) /\ segment.type \in DataTypes
  BY <1>2 DEF ValueSegment, Values
<1>4. v \in Int
  BY <1>1, <1>3 DEF AllTypeVariant, type_cast, Values
<1>5. s = [segment EXCEPT !.values = Append(segment.values, v)]
  BY DEF ValueSegment_append
<1> HIDE DEF v
<1>6. /\ s \in ValueSegment /\ s.kind = "value" /\ s.type = segment.type
      /\ s.values = Append(segment.values, v)
  <2>1. Append(segment.values, v) \in Seq(Int)
    BY <1>3, <1>4
  <2>2. s = [kind |-> "value", type |-> segment.type, values |-> Append(segment.values, v)]
    BY <1>1, <1>2, <1>5 DEF ValueSegment
  <2>3. QED
    BY <2>1, <2>2, <1>3 DEF ValueSegment, Values
<1> HIDE DEF s
<1>7. Len(s.values) = Len(segment.values) + 1
      /\ (\A k \in 1..Len(segment.values) : s.values[k] = segment.values[k])
      /\ s.values[Len(segment.values) + 1] = v
  BY <1>3, <1>4, <1>6
<1>8. QED
  BY <1>1, <1>6, <1>7 DEF Segment, WellFormed, Segment_size, Entry, s, v

-----------------------------------------------------------------------------
(* Compression *)

Increasing(d) == \A i, j \in DOMAIN d : i < j => d[i] < d[j]

\* A segment stores a finite set of values.
LEMMA ValuesInFinite ==
    ASSUME NEW values \in Seq(Int)
    PROVE  IsFiniteSet(ValuesIn(values)) /\ ValuesIn(values) \in SUBSET Int
<1> DEFINE f == [i \in 1..Len(values) |-> values[i]]
<1>1. f \in Surjection(1..Len(values), ValuesIn(values))
  <2>1. DOMAIN values = 1..Len(values)
    OBVIOUS
  <2>2. f \in [1..Len(values) -> ValuesIn(values)]
    BY <2>1 DEF ValuesIn
  <2>3. \A v \in ValuesIn(values) : \E i \in 1..Len(values) : f[i] = v
    BY <2>1 DEF ValuesIn
  <2>4. QED
    BY <2>2, <2>3 DEF Surjection
<1>2. IsFiniteSet(1..Len(values))
  BY FS_Interval
<1>3. IsFiniteSet(ValuesIn(values))
  BY <1>1, <1>2, FS_Surjection
<1>4. QED
  BY <1>3 DEF ValuesIn

\* Rank numbers the members of a finite set of integers from 0, in their order.
LEMMA RankOrders ==
    ASSUME NEW S \in SUBSET Int, IsFiniteSet(S)
    PROVE  /\ \A v \in S : Rank(S, v) \in 0..(Cardinality(S) - 1)
           /\ \A v, w \in S : v < w => Rank(S, v) < Rank(S, w)
<1> DEFINE Below(v) == {w \in S : w < v}
<1>1. ASSUME NEW v PROVE IsFiniteSet(Below(v)) /\ Cardinality(Below(v)) \in Nat
                         /\ Cardinality(Below(v)) <= Cardinality(S)
  BY FS_Subset, FS_CardinalityType
<1>2. Cardinality(S) \in Nat
  BY FS_CardinalityType
<1>3. ASSUME NEW v \in S PROVE Cardinality(Below(v)) # Cardinality(S)
  <2>1. v \notin Below(v)
    OBVIOUS
  <2>2. Below(v) \in SUBSET S
    OBVIOUS
  <2>3. QED
    BY <2>1, <2>2, FS_Subset
<1>4. ASSUME NEW v \in S, NEW w \in S, v < w
      PROVE  Cardinality(Below(v)) < Cardinality(Below(w))
  <2>1. Below(v) \in SUBSET Below(w)
    <3>1. \A x \in S : x < v => x < w
      BY <1>4
    <3>2. QED
      BY <3>1
  <2>2. v \in Below(w) /\ v \notin Below(v)
    BY <1>4
  <2>3. Cardinality(Below(v)) # Cardinality(Below(w))
    BY <2>1, <2>2, <1>1, FS_Subset
  <2>4. Cardinality(Below(v)) <= Cardinality(Below(w))
    BY <2>1, <1>1, FS_Subset
  <2>5. QED
    BY <2>3, <2>4, <1>1
<1>5. \A v : Rank(S, v) = Cardinality(Below(v))
  BY DEF Rank
<1> HIDE DEF Below
<1>6. \A v \in S : Rank(S, v) \in 0..(Cardinality(S) - 1)
  <2> TAKE v \in S
  <2>1. QED
    BY <1>1, <1>2, <1>3, <1>5
<1>7. \A v, w \in S : v < w => Rank(S, v) < Rank(S, w)
  BY <1>4, <1>5
<1>8. QED
  BY <1>6, <1>7

\* Every position of the sorted dictionary has a value: no rank is skipped.
LEMMA RankIsOnto ==
    ASSUME NEW S \in SUBSET Int, IsFiniteSet(S), NEW i \in 1..Cardinality(S)
    PROVE  \E v \in S : Rank(S, v) = i - 1
<1> DEFINE n == Cardinality(S)
           f == [v \in S |-> Rank(S, v)]
<1>1. n \in Nat
  BY FS_CardinalityType
<1>2. f \in [S -> 0..(n - 1)]
  BY RankOrders
<1>3. f \in Injection(S, 0..(n - 1))
  <2>1. \A v, w \in S : f[v] = f[w] => v = w
    <3> TAKE v, w \in S
    <3>1. f[v] \in Int /\ f[w] \in Int /\ v \in Int /\ w \in Int
      BY <1>2
    <3>2. (v < w => f[v] < f[w]) /\ (w < v => f[w] < f[v])
      BY RankOrders
    <3>3. QED
      BY <3>1, <3>2
  <2>2. QED
    BY <1>2, <2>1 DEF Injection, IsInjective
<1>4. IsFiniteSet(0..(n - 1)) /\ Cardinality(0..(n - 1)) = n
  <2> HIDE DEF n
  <2>1. n - 1 \in Int /\ 0 \in Int
    BY <1>1
  <2>2. /\ IsFiniteSet(0..(n - 1))
        /\ Cardinality(0..(n - 1)) = IF 0 > n - 1 THEN 0 ELSE (n - 1) - 0 + 1
    BY <2>1, FS_Interval
  <2>3. QED
    BY <2>2, <1>1
<1>5. f \in Surjection(S, 0..(n - 1))
  BY <1>3, <1>4, FS_Injection
<1>6. i - 1 \in 0..(n - 1)
  BY <1>1
<1>7. QED
  BY <1>5, <1>6 DEF Surjection

\* _initialize_dictionary: sorted, without duplicates, with the values of the segment.
LEMMA DictionaryIsSorted ==
    ASSUME NEW values \in Seq(Int)
    PROVE  LET d == initialize_dictionary(values)
           IN  /\ d \in Seq(Int)
               /\ Len(d) = Cardinality(ValuesIn(values))
               /\ Increasing(d)
               /\ \A k \in DOMAIN values : \E i \in DOMAIN d : d[i] = values[k]
               /\ \A i \in DOMAIN d : d[i] \in ValuesIn(values)
<1> DEFINE S == ValuesIn(values)
           n == Cardinality(S)
           d == initialize_dictionary(values)
<1>1. S \in SUBSET Int /\ IsFiniteSet(S)
  BY ValuesInFinite
<1>2. n \in Nat
  BY <1>1, FS_CardinalityType
<1>3. d = [i \in 1..n |-> CHOOSE v \in S : Rank(S, v) = i - 1]
  BY DEF initialize_dictionary
<1> HIDE DEF d, S
<1>4. ASSUME NEW i \in 1..n PROVE d[i] \in S /\ Rank(S, d[i]) = i - 1
  <2>1. \E v \in S : Rank(S, v) = i - 1
    BY <1>1, RankIsOnto
  <2>2. QED
    BY <2>1, <1>3
<1>5. d \in Seq(Int) /\ Len(d) = n /\ DOMAIN d = 1..n
  <2>1. d \in [1..n -> Int]
    BY <1>3, <1>4, <1>1
  <2>2. QED
    BY <2>1, <1>2
<1>6. \A v, w \in S : (v < w => Rank(S, v) < Rank(S, w)) /\ Rank(S, v) \in 0..(n - 1)
  BY <1>1, RankOrders
<1>7. ASSUME NEW i \in 1..n, NEW j \in 1..n, i < j PROVE d[i] < d[j]
  <2>1. d[i] \in S /\ d[j] \in S /\ Rank(S, d[i]) = i - 1 /\ Rank(S, d[j]) = j - 1
    BY <1>4
  <2>2. d[j] # d[i] /\ ~(d[j] < d[i])
    BY <2>1, <1>6, <1>7, <1>2
  <2>3. d[i] \in Int /\ d[j] \in Int
    BY <2>1, <1>1
  <2>4. QED
    BY <2>2, <2>3
<1>8. ASSUME NEW k \in DOMAIN values PROVE \E i \in 1..n : d[i] = values[k]
  <2> DEFINE v == values[k]
             i == Rank(S, v) + 1
  <2>1. v \in S
    BY DEF S, ValuesIn
  <2>2. i \in 1..n
    BY <2>1, <1>6, <1>2
  <2>3. d[i] \in S /\ Rank(S, d[i]) = Rank(S, v)
    BY <2>1, <2>2, <1>4, <1>6, <1>2
  <2>4. ~(d[i] < v) /\ ~(v < d[i])
    BY <2>1, <2>3, <1>6, <1>2
  <2>5. d[i] \in Int /\ v \in Int
    BY <2>1, <2>3, <1>1
  <2>6. d[i] = v
    BY <2>4, <2>5
  <2>7. QED
    BY <2>2, <2>6
<1>9. QED
  BY <1>4, <1>5, <1>7, <1>8 DEF Increasing, S, d

\* lower_bound of an entry of a sorted dictionary is its position.
LEMMA LowerBoundFindsEntry ==
    ASSUME NEW d \in Seq(Int), Increasing(d), NEW k \in DOMAIN d
    PROVE  lower_bound(d, d[k]) = k - 1
<1> DEFINE First(i) == d[i] >= d[k] /\ \A j \in 1..(i - 1) : d[j] < d[k]
<1>1. DOMAIN d = 1..Len(d) /\ Len(d) \in Nat /\ \A i \in DOMAIN d : d[i] \in Int
  OBVIOUS
<1>2. First(k)
  BY <1>1 DEF Increasing
<1>3. ASSUME NEW i \in DOMAIN d, First(i) PROVE i = k
  <2>1. ~(i < k)
    BY <1>1, <1>3 DEF Increasing
  <2>2. ~(k < i)
    <3>1. ASSUME k < i PROVE FALSE
      <4>1. k \in 1..(i - 1)
        BY <3>1, <1>1
      <4>2. d[k] < d[k]
        BY <4>1, <1>3
      <4>3. QED
        BY <4>2, <1>1
    <3>2. QED
      BY <3>1
  <2>3. QED
    BY <2>1, <2>2, <1>1
<1>4. (CHOOSE i \in DOMAIN d : First(i)) = k
  BY <1>2, <1>3
<1>5. \E i \in DOMAIN d : d[i] >= d[k]
  BY <1>2
<1>6. QED
  BY <1>4, <1>5 DEF lower_bound

\* The width chosen for a dictionary has a number for each of its entries.
LEMMA WidthFits ==
    ASSUME NEW n \in Nat, n <= U32Max, NEW id \in 0..(n - 1)
    PROVE  /\ AttributeVectorMax(n) \in {U8Max, U16Max, U32Max}
           /\ id < AttributeVectorMax(n)
           /\ id % (AttributeVectorMax(n) + 1) = id
<1> DEFINE max == AttributeVectorMax(n)
<1>1. max \in {U8Max, U16Max, U32Max} /\ max \in Nat /\ n <= max
  BY WidthAssumption DEF AttributeVectorMax
<1> HIDE DEF max
<1>2. id \in Nat /\ id < max + 1 /\ id < max
  BY <1>1
<1>3. id % (max + 1) = id
  BY <1>1, <1>2
<1>4. QED
  BY <1>1, <1>2, <1>3 DEF max

\* What the constructor DictionarySegment(segment) builds: a sorted dictionary, of which every
\* entry is used, and ids that leave the largest number of their width free.
CompressedFrom(compressed, values) ==
    LET d == compressed.dictionary
        ids == compressed.attribute_vector.ids
    IN  /\ d \in Seq(Int) /\ Increasing(d) /\ Len(d) <= U32Max
        /\ ids \in Seq(Nat) /\ Len(ids) = Len(values)
        /\ \A k \in DOMAIN values : /\ ids[k] < Len(d) /\ ids[k] < compressed.attribute_vector.max
                                    /\ d[ids[k] + 1] = values[k]
        /\ \A i \in 0..(Len(d) - 1) : \E k \in DOMAIN values : ids[k] = i

\* The dictionary segment made from a value segment: its ids lead to the values.
LEMMA CompressedSegmentFacts ==
    ASSUME NEW segment \in ValueSegment, ~DictionaryTooLarge(segment.values)
    PROVE  /\ CompressedSegment(segment) \in DictionarySegment
           /\ CompressedFrom(CompressedSegment(segment), segment.values)
<1> DEFINE values == segment.values
           d == initialize_dictionary(values)
           n == Len(d)
           max == AttributeVectorMax(n)
           ids == [i \in DOMAIN values |-> lower_bound(d, values[i]) % (max + 1)]
           compressed == CompressedSegment(segment)
<1>1. values \in Seq(Int) /\ segment.kind = "value" /\ segment.type \in DataTypes
  BY DEF ValueSegment, Values
<1>2. /\ d \in Seq(Int) /\ Increasing(d)
      /\ n = Cardinality(ValuesIn(values))
      /\ \A k \in DOMAIN values : \E i \in DOMAIN d : d[i] = values[k]
      /\ \A i \in DOMAIN d : d[i] \in ValuesIn(values)
  BY <1>1, DictionaryIsSorted
<1>3. compressed = [kind |-> "dictionary", type |-> segment.type, dictionary |-> d,
                    attribute_vector |-> [max |-> max, ids |-> ids]]
  BY DEF CompressedSegment, initialize_attribute_vector
<1> HIDE DEF d, compressed, values
<1>4. n \in Nat /\ n <= U32Max /\ DOMAIN d = 1..n
  <2>1. n \in Nat /\ DOMAIN d = 1..n
    BY <1>2
  <2>2. ~(Cardinality(ValuesIn(values)) > U32Max)
    BY DEF DictionaryTooLarge, values
  <2>3. QED
    BY <2>1, <2>2, <1>2, WidthAssumption
<1> HIDE DEF n
<1>5. max \in {U8Max, U16Max, U32Max}
  BY WidthAssumption DEF AttributeVectorMax
<1> HIDE DEF max
<1>6. ASSUME NEW k \in DOMAIN values
      PROVE  ids[k] \in Nat /\ ids[k] < n /\ ids[k] < max /\ d[ids[k] + 1] = values[k]
  <2>1. PICK i \in DOMAIN d : d[i] = values[k]
    BY <1>2
  <2>2. lower_bound(d, values[k]) = i - 1
    BY <2>1, <1>2, LowerBoundFindsEntry
  <2>3. i \in 1..n /\ i - 1 \in 0..(n - 1)
    BY <1>4
  <2>4. (i - 1) % (max + 1) = i - 1 /\ i - 1 < max
    BY <2>3, <1>4, WidthFits DEF max
  <2>5. ids[k] = i - 1
    BY <2>2, <2>4
  <2>6. QED
    BY <2>5, <2>1, <2>3, <2>4, <1>4
<1>7. ids \in Seq(Nat) /\ Len(ids) = Len(values) /\ DOMAIN ids = DOMAIN values
  <2>1. DOMAIN values = 1..Len(values) /\ Len(values) \in Nat
    BY <1>1
  <2>2. ids \in [1..Len(values) -> Nat]
    BY <2>1, <1>6
  <2>3. QED
    BY <2>1, <2>2
<1> HIDE DEF ids
<1>8. compressed \in DictionarySegment
  BY <1>1, <1>2, <1>3, <1>5, <1>7 DEF DictionarySegment, FittedAttributeVector, Values
<1>9. ASSUME NEW i \in 0..(n - 1) PROVE \E k \in DOMAIN values : ids[k] = i
  <2>1. i + 1 \in DOMAIN d
    BY <1>4
  <2>2. PICK k \in DOMAIN values : values[k] = d[i + 1]
    BY <2>1, <1>2 DEF ValuesIn
  <2>3. ids[k] \in Nat /\ ids[k] + 1 \in DOMAIN d /\ d[ids[k] + 1] = d[i + 1]
    BY <2>2, <1>4, <1>6
  <2>4. ~(ids[k] + 1 < i + 1) /\ ~(i + 1 < ids[k] + 1)
    <3>1. d[i + 1] \in Int
      BY <2>1, <1>2
    <3>2. QED
      BY <3>1, <2>1, <2>3, <1>2 DEF Increasing
  <2>5. ids[k] = i
    BY <2>3, <2>4
  <2>6. QED
    BY <2>5
<1>10. CompressedFrom(compressed, values)
  <2>1. /\ compressed.dictionary = d /\ compressed.attribute_vector.ids = ids
        /\ compressed.attribute_vector.max = max
    BY <1>3
  <2>2. /\ d \in Seq(Int) /\ Increasing(d) /\ Len(d) <= U32Max
        /\ ids \in Seq(Nat) /\ Len(ids) = Len(values)
    BY <1>2, <1>4, <1>7 DEF n
  <2>3. \A k \in DOMAIN values : ids[k] < Len(d) /\ ids[k] < max /\ d[ids[k] + 1] = values[k]
    BY <1>6 DEF n
  <2>4. \A i \in 0..(Len(d) - 1) : \E k \in DOMAIN values : ids[k] = i
    BY <1>9 DEF n
  <2>5. QED
    BY <2>1, <2>2, <2>3, <2>4 DEF CompressedFrom
<1>11. QED
  BY <1>8, <1>10 DEF compressed, values

\* Compression is lossless: DictionarySegment(segment) has the size and the entries of the
\* value segment it is built from, and all its value ids point into its dictionary.
THEOREM CompressionIsLossless ==
    ASSUME NEW segment \in ValueSegment, ~DictionaryTooLarge(segment.values)
    PROVE  LET compressed == CompressedSegment(segment)
           IN  /\ compressed \in DictionarySegment
               /\ WellFormed(compressed)
               /\ Segment_size(compressed) = Segment_size(segment)
               /\ \A k \in 1..Segment_size(segment) : Entry(compressed, k) = Entry(segment, k)
<1> DEFINE values == segment.values
           compressed == CompressedSegment(segment)
           d == compressed.dictionary
           ids == compressed.attribute_vector.ids
<1>1. values \in Seq(Int) /\ segment.kind = "value"
  BY DEF ValueSegment, Values
<1>2. compressed \in DictionarySegment /\ CompressedFrom(compressed, values)
  BY CompressedSegmentFacts
<1> HIDE DEF compressed, values
<1>3. /\ compressed.kind = "dictionary" /\ ids \in Seq(Nat) /\ Len(ids) = Len(values)
      /\ DOMAIN ids = 1..Len(values) /\ DOMAIN values = 1..Len(values)
  BY <1>1, <1>2 DEF CompressedFrom, DictionarySegment
<1>4. \A k \in DOMAIN values : ids[k] < Len(d) /\ d[ids[k] + 1] = values[k]
  BY <1>2 DEF CompressedFrom
<1>5. WellFormed(compressed)
  BY <1>3, <1>4 DEF WellFormed
<1>6. Segment_size(compressed) = Len(values) /\ Segment_size(segment) = Len(values)
  BY <1>1, <1>3 DEF Segment_size, values
<1>7. ASSUME NEW k \in 1..Len(values) PROVE Entry(compressed, k) = Entry(segment, k)
  <2>1. Entry(compressed, k) = d[ids[k] + 1]
    BY <1>3 DEF Entry
  <2>2. Entry(segment, k) = values[k]
    BY <1>1 DEF Entry, values
  <2>3. QED
    BY <2>1, <2>2, <1>3, <1>4
<1>8. QED
  BY <1>2, <1>5, <1>6, <1>7 DEF compressed

-----------------------------------------------------------------------------
(* Searching and scanning *)

\* A nonempty set of positions has a least member.
LEMMA LeastPosition ==
    ASSUME NEW n \in Nat, NEW U \in SUBSET (1..n), U # {}
    PROVE  \E v \in U : \A w \in U : ~(w < v)
<1>1. U \in SUBSET Int /\ IsFiniteSet(U)
  <2>1. IsFiniteSet(1..n)
    BY FS_Interval
  <2>2. IsFiniteSet(U)
    BY <2>1, FS_Subset
  <2>3. U \in SUBSET Int
    OBVIOUS
  <2>4. QED
    BY <2>2, <2>3
<1>2. Cardinality(U) \in Nat /\ Cardinality(U) # 0
  BY <1>1, FS_EmptySet, FS_CardinalityType
<1>3. \E v \in U : Rank(U, v) = 1 - 1
  <2>1. 1 \in 1..Cardinality(U)
    BY <1>2
  <2>2. QED
    BY <1>1, <2>1, RankIsOnto
<1>4. PICK v \in U : Rank(U, v) = 0
  BY <1>3
<1>5. {w \in U : w < v} = {}
  <2>1. IsFiniteSet({w \in U : w < v})
    BY <1>1, FS_Subset
  <2>2. QED
    BY <1>4, <2>1, FS_EmptySet DEF Rank
<1>6. QED
  BY <1>5

\* lower_bound splits a sorted dictionary into the entries below v and the others.
LEMMA LowerBoundSplits ==
    ASSUME NEW d \in Seq(Int), Increasing(d), Len(d) <= U32Max, NEW v \in Int,
           NEW i \in DOMAIN d
    PROVE  /\ lower_bound(d, v) \in 0..U32Max
           /\ (i - 1 < lower_bound(d, v)) <=> (d[i] < v)
           /\ lower_bound(d, v) # INVALID_VALUE_ID =>
                  /\ lower_bound(d, v) + 1 \in DOMAIN d
                  /\ d[lower_bound(d, v) + 1] >= v
<1> DEFINE First(j) == d[j] >= v /\ \A k \in 1..(j - 1) : d[k] < v
           U == {j \in DOMAIN d : d[j] >= v}
<1>1. /\ DOMAIN d = 1..Len(d) /\ Len(d) \in Nat /\ U32Max \in Nat
      /\ \A j \in DOMAIN d : d[j] \in Int
  BY WidthAssumption
<1>2. CASE U = {}
  <2>1. lower_bound(d, v) = U32Max
    BY <1>2 DEF lower_bound, INVALID_VALUE_ID
  <2>2. d[i] < v
    BY <1>1, <1>2
  <2>3. QED
    BY <2>1, <2>2, <1>1 DEF INVALID_VALUE_ID
<1>3. CASE U # {}
  <2>1. PICK m \in U : \A w \in U : ~(w < m)
    BY <1>1, <1>3, LeastPosition
  <2>2. First(m) /\ m \in DOMAIN d
    <3>1. \A k \in 1..(m - 1) : k \in DOMAIN d /\ k < m
      BY <1>1, <2>1
    <3>2. \A k \in 1..(m - 1) : d[k] < v
      <4> TAKE k \in 1..(m - 1)
      <4>1. k \notin U
        BY <3>1, <2>1
      <4>2. QED
        BY <3>1, <4>1, <1>1
    <3>3. QED
      BY <3>2, <2>1
  <2>3. (CHOOSE j \in DOMAIN d : First(j)) \in DOMAIN d
        /\ First(CHOOSE j \in DOMAIN d : First(j))
    BY <2>2
  <2> DEFINE f == CHOOSE j \in DOMAIN d : First(j)
  <2>4. lower_bound(d, v) = f - 1
    BY <1>3 DEF lower_bound
  <2>5. f \in DOMAIN d /\ First(f)
    BY <2>3
  <2> HIDE DEF f
  <2>6. (i < f) <=> (d[i] < v)
    <3>1. CASE i < f
      BY <3>1, <2>5, <1>1
    <3>2. CASE i = f
      BY <3>2, <2>5, <1>1
    <3>3. CASE f < i
      BY <3>3, <2>5, <1>1 DEF Increasing
    <3>4. QED
      BY <3>1, <3>2, <3>3, <2>5, <1>1
  <2>7. QED
    BY <2>4, <2>5, <2>6, <1>1 DEF INVALID_VALUE_ID
<1>4. QED
  BY <1>2, <1>3

\* upper_bound splits it into the entries up to v and the others.
LEMMA UpperBoundSplits ==
    ASSUME NEW d \in Seq(Int), Increasing(d), Len(d) <= U32Max, NEW v \in Int,
           NEW i \in DOMAIN d
    PROVE  /\ upper_bound(d, v) \in 0..U32Max
           /\ (i - 1 < upper_bound(d, v)) <=> (d[i] <= v)
           /\ upper_bound(d, v) # INVALID_VALUE_ID => upper_bound(d, v) + 1 \in DOMAIN d
<1> DEFINE First(j) == d[j] > v /\ \A k \in 1..(j - 1) : d[k] <= v
           U == {j \in DOMAIN d : d[j] > v}
<1>1. /\ DOMAIN d = 1..Len(d) /\ Len(d) \in Nat /\ U32Max \in Nat
      /\ \A j \in DOMAIN d : d[j] \in Int
  BY WidthAssumption
<1>2. CASE U = {}
  <2>1. upper_bound(d, v) = U32Max
    BY <1>2 DEF upper_bound, INVALID_VALUE_ID
  <2>2. d[i] <= v
    BY <1>1, <1>2
  <2>3. QED
    BY <2>1, <2>2, <1>1 DEF INVALID_VALUE_ID
<1>3. CASE U # {}
  <2>1. PICK m \in U : \A w \in U : ~(w < m)
    BY <1>1, <1>3, LeastPosition
  <2>2. First(m) /\ m \in DOMAIN d
    <3>1. \A k \in 1..(m - 1) : k \in DOMAIN d /\ k < m
      BY <1>1, <2>1
    <3>2. \A k \in 1..(m - 1) : d[k] <= v
      <4> TAKE k \in 1..(m - 1)
      <4>1. k \notin U
        BY <3>1, <2>1
      <4>2. QED
        BY <3>1, <4>1, <1>1
    <3>3. QED
      BY <3>2, <2>1
  <2>3. (CHOOSE j \in DOMAIN d : First(j)) \in DOMAIN d
        /\ First(CHOOSE j \in DOMAIN d : First(j))
    BY <2>2
  <2> DEFINE f == CHOOSE j \in DOMAIN d : First(j)
  <2>4. upper_bound(d, v) = f - 1
    BY <1>3 DEF upper_bound
  <2>5. f \in DOMAIN d /\ First(f)
    BY <2>3
  <2> HIDE DEF f
  <2>6. (i < f) <=> (d[i] <= v)
    <3>1. CASE i < f
      BY <3>1, <2>5, <1>1
    <3>2. CASE i = f
      BY <3>2, <2>5, <1>1
    <3>3. CASE f < i
      BY <3>3, <2>5, <1>1 DEF Increasing
    <3>4. QED
      BY <3>1, <3>2, <3>3, <2>5, <1>1
  <2>7. QED
    BY <2>4, <2>5, <2>6, <1>1 DEF INVALID_VALUE_ID
<1>4. QED
  BY <1>2, <1>3

\* The two searches count: the id lower_bound returns is the number of smaller entries, the
\* one of upper_bound that of the entries up to v, and INVALID_VALUE_ID stands for all.
LEMMA BoundsCountEntries ==
    ASSUME NEW d \in Seq(Int), Increasing(d), Len(d) <= U32Max, NEW v \in Int
    PROVE  LET Id(n) == IF n < Len(d) THEN n ELSE INVALID_VALUE_ID
           IN  /\ lower_bound(d, v) = Id(Cardinality({i \in DOMAIN d : d[i] < v}))
               /\ upper_bound(d, v) = Id(Cardinality({i \in DOMAIN d : d[i] <= v}))
<1> DEFINE Id(n) == IF n < Len(d) THEN n ELSE INVALID_VALUE_ID
           n == Len(d)
           B == {i \in DOMAIN d : d[i] < v}
           C == {i \in DOMAIN d : d[i] <= v}
<1>1. DOMAIN d = 1..n /\ n \in Nat /\ U32Max \in Nat /\ n <= U32Max
  BY WidthAssumption
<1>2. ASSUME NEW m \in Nat PROVE Cardinality(1..m) = m
  BY FS_Interval
\* A search that returns id finds this set of entries before it.
<1>3. ASSUME NEW id \in 0..U32Max, NEW S,
             S = {i \in DOMAIN d : i - 1 < id}, id # U32Max => id + 1 \in DOMAIN d
      PROVE  id = Id(Cardinality(S))
  <2>1. CASE id = U32Max
    <3>1. S = 1..n
      BY <2>1, <1>1, <1>3
    <3>2. QED
      BY <2>1, <3>1, <1>1, <1>2 DEF INVALID_VALUE_ID
  <2>2. CASE id # U32Max
    <3>1. id \in Nat /\ id < n
      BY <2>2, <1>1, <1>3
    <3>2. S = 1..id
      BY <3>1, <1>1, <1>3
    <3>3. Cardinality(S) = id
      BY <3>1, <3>2, <1>2
    <3>4. QED
      BY <3>1, <3>3
  <2>3. QED
    BY <2>1, <2>2
<1>4. CASE n = 0
  <2>1. lower_bound(d, v) = U32Max /\ upper_bound(d, v) = U32Max
    BY <1>1, <1>4 DEF lower_bound, upper_bound, INVALID_VALUE_ID
  <2>2. B = {} /\ C = {}
    BY <1>1, <1>4
  <2>3. Cardinality({}) = 0
    BY FS_EmptySet
  <2>4. QED
    BY <2>1, <2>2, <2>3, <1>4 DEF INVALID_VALUE_ID
<1>5. CASE n # 0
  <2> DEFINE lo == lower_bound(d, v)
             up == upper_bound(d, v)
  <2>1. 1 \in DOMAIN d
    BY <1>1, <1>5
  <2>2. /\ lo \in 0..U32Max /\ (lo # U32Max => lo + 1 \in DOMAIN d)
        /\ \A i \in DOMAIN d : (i - 1 < lo) <=> (d[i] < v)
    BY <2>1, LowerBoundSplits DEF INVALID_VALUE_ID
  <2>3. /\ up \in 0..U32Max /\ (up # U32Max => up + 1 \in DOMAIN d)
        /\ \A i \in DOMAIN d : (i - 1 < up) <=> (d[i] <= v)
    BY <2>1, UpperBoundSplits DEF INVALID_VALUE_ID
  <2> HIDE DEF lo, up, Id
  <2>4. B = {i \in DOMAIN d : i - 1 < lo} /\ C = {i \in DOMAIN d : i - 1 < up}
    BY <2>2, <2>3
  <2>5. lo = Id(Cardinality(B)) /\ up = Id(Cardinality(C))
    BY <2>2, <2>3, <2>4, <1>3
  <2>6. QED
    BY <2>5 DEF lo, up, Id
<1>6. QED
  BY <1>4, <1>5

\* For every sorted dictionary that fits the width of value ids, every scan type and every
\* search value, in the dictionary or not: the id of an entry passes compare_by_value_id
\* exactly when the entry passes compare.  INVALID_VALUE_ID needs no case of its own.
THEOREM CompareByValueIdIsCompare ==
    ASSUME NEW d \in Seq(Int), Increasing(d), Len(d) <= U32Max, NEW v \in Int,
           NEW i \in DOMAIN d, NEW scan_type \in ScanTypes
    PROVE  compare_by_value_id(scan_type, i - 1, get_value_id(scan_type, d, v))
               <=> compare(scan_type, d[i], v)
<1> DEFINE lo == lower_bound(d, v)
           up == upper_bound(d, v)
           ex == exact_value_id(d, v)
<1>1. /\ DOMAIN d = 1..Len(d) /\ Len(d) \in Nat /\ U32Max \in Nat
      /\ \A j \in DOMAIN d : d[j] \in Int
  BY WidthAssumption
<1>2. /\ lo \in 0..U32Max
      /\ lo # INVALID_VALUE_ID => lo + 1 \in DOMAIN d /\ d[lo + 1] >= v
      /\ \A j \in DOMAIN d : (j - 1 < lo) <=> (d[j] < v)
  BY LowerBoundSplits
<1>3. up \in 0..U32Max /\ ((i - 1 < up) <=> (d[i] <= v))
  BY UpperBoundSplits
<1>4. ex = IF lo # INVALID_VALUE_ID /\ d[lo + 1] # v THEN INVALID_VALUE_ID ELSE lo
  BY DEF exact_value_id
<1> HIDE DEF lo, up, ex
<1>5. (i - 1 = ex) <=> (d[i] = v)
  <2>1. CASE lo = INVALID_VALUE_ID
    <3>1. ex = U32Max /\ lo = U32Max
      BY <2>1, <1>4 DEF INVALID_VALUE_ID
    <3>2. i - 1 < U32Max /\ d[i] < v
      BY <3>1, <1>1, <1>2
    <3>3. QED
      BY <3>1, <3>2, <1>1
  <2>2. CASE lo # INVALID_VALUE_ID /\ d[lo + 1] # v
    <3>1. ex = U32Max /\ i - 1 # U32Max
      BY <2>2, <1>1, <1>4 DEF INVALID_VALUE_ID
    <3>2. lo + 1 \in DOMAIN d /\ d[lo + 1] > v
      BY <2>2, <1>1, <1>2
    <3>3. d[i] # v
      <4>1. CASE i < lo + 1
        BY <4>1, <1>1, <1>2
      <4>2. CASE i = lo + 1
        BY <4>2, <3>2, <1>1
      <4>3. CASE lo + 1 < i
        <5>1. d[lo + 1] < d[i]
          BY <4>3, <3>2 DEF Increasing
        <5>2. QED
          BY <5>1, <3>2, <1>1
      <4>4. QED
        BY <4>1, <4>2, <4>3, <1>1, <1>2
    <3>4. QED
      BY <3>1, <3>3
  <2>3. CASE lo # INVALID_VALUE_ID /\ d[lo + 1] = v
    <3>1. ex = lo /\ lo + 1 \in DOMAIN d
      BY <2>3, <1>2, <1>4
    <3>2. \A j \in DOMAIN d : d[j] = d[lo + 1] => j = lo + 1
      <4> TAKE j \in DOMAIN d
      <4>1. (j < lo + 1 => d[j] < d[lo + 1]) /\ (lo + 1 < j => d[lo + 1] < d[j])
        BY <3>1 DEF Increasing
      <4>2. QED
        BY <4>1, <3>1, <1>1, <1>2
    <3>3. QED
      BY <2>3, <3>1, <3>2, <1>1, <1>2
  <2>4. QED
    BY <2>1, <2>2, <2>3
<1>6. CASE scan_type \in {"OpEquals", "OpNotEquals"}
  <2>1. get_value_id(scan_type, d, v) = ex
    BY <1>6 DEF get_value_id, ex
  <2>2. QED
    BY <1>5, <1>6, <2>1 DEF compare, compare_by_value_id
<1>7. CASE scan_type \in {"OpLessThan", "OpGreaterThanEquals"}
  <2>1. get_value_id(scan_type, d, v) = lo
    BY <1>7 DEF get_value_id, lo
  <2>2. (i - 1 < lo) <=> (d[i] < v)
    BY <1>2
  <2>3. (i - 1 >= lo) <=> (d[i] >= v)
    BY <2>2, <1>1, <1>2
  <2>4. QED
    BY <1>7, <2>1, <2>2, <2>3 DEF compare, compare_by_value_id
<1>8. CASE scan_type \in {"OpLessThanEquals", "OpGreaterThan"}
  <2>1. get_value_id(scan_type, d, v) = up
    BY <1>8 DEF get_value_id, up
  <2>2. (i - 1 >= up) <=> (d[i] > v)
    BY <1>1, <1>3
  <2>3. QED
    BY <1>3, <1>8, <2>1, <2>2 DEF compare, compare_by_value_id
<1>9. QED
  BY <1>6, <1>7, <1>8 DEF ScanTypes

\* Compression is invisible to a scan: it selects the same positions of a segment before
\* and after compress_chunk has replaced it.
THEOREM ScanIgnoresCompression ==
    ASSUME NEW segment \in ValueSegment, ~DictionaryTooLarge(segment.values),
           NEW v \in Int, NEW scan_type \in ScanTypes, NEW k \in 1..Segment_size(segment)
    PROVE  Selects(scan_type, CompressedSegment(segment), v, k)
               <=> Selects(scan_type, segment, v, k)
<1> DEFINE compressed == CompressedSegment(segment)
           d == compressed.dictionary
           id == compressed.attribute_vector.ids[k]
<1>1. segment.values \in Seq(Int) /\ segment.kind = "value"
  BY DEF ValueSegment, Values
<1>2. /\ compressed \in DictionarySegment /\ WellFormed(compressed)
      /\ Segment_size(compressed) = Segment_size(segment)
      /\ Entry(compressed, k) = Entry(segment, k)
  BY CompressionIsLossless
<1>3. d = initialize_dictionary(segment.values)
  BY DEF CompressedSegment
<1>4. d \in Seq(Int) /\ Increasing(d) /\ Len(d) = Cardinality(ValuesIn(segment.values))
  BY <1>1, <1>3, DictionaryIsSorted
<1> HIDE DEF compressed
<1>5. Len(d) <= U32Max
  <2>1. ~(Cardinality(ValuesIn(segment.values)) > U32Max)
    BY DEF DictionaryTooLarge
  <2>2. Len(d) \in Nat /\ U32Max \in Nat
    BY <1>4, WidthAssumption
  <2>3. QED
    BY <2>1, <2>2, <1>4
<1>6. compressed.kind = "dictionary" /\ compressed.attribute_vector.ids \in Seq(Nat)
  BY <1>2 DEF DictionarySegment, FittedAttributeVector
<1>7. k \in DOMAIN compressed.attribute_vector.ids
  <2>1. Segment_size(compressed) = Len(compressed.attribute_vector.ids)
    BY <1>6 DEF Segment_size
  <2>2. k \in 1..Len(compressed.attribute_vector.ids)
    BY <2>1, <1>2
  <2>3. \A s \in Seq(Nat) : DOMAIN s = 1..Len(s)
    OBVIOUS
  <2>4. QED
    BY <2>2, <2>3, <1>6
<1>8. id \in Nat /\ id < Len(d)
  BY <1>2, <1>6, <1>7 DEF WellFormed
<1>9. Entry(compressed, k) = d[id + 1] /\ Entry(segment, k) = segment.values[k]
  BY <1>1, <1>6 DEF Entry
<1> HIDE DEF d, id
<1>10. id + 1 \in DOMAIN d /\ (id + 1) - 1 = id
  BY <1>4, <1>8
<1>11. compare_by_value_id(scan_type, id, get_value_id(scan_type, d, v))
          <=> compare(scan_type, d[id + 1], v)
  BY <1>4, <1>5, <1>10, CompareByValueIdIsCompare
<1>12. Selects(scan_type, compressed, v, k)
          <=> compare_by_value_id(scan_type, id, get_value_id(scan_type, d, v))
  BY <1>6 DEF Selects, d, id
<1>13. Selects(scan_type, segment, v, k) <=> compare(scan_type, segment.values[k], v)
  BY <1>1 DEF Selects
<1>14. QED
  BY <1>2, <1>9, <1>11, <1>12, <1>13 DEF compressed
=============================================================================
