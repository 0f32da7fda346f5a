---------------------- MODULE SegmentCompressionProofs ----------------------
(***************************************************************************)
(* Safety of SegmentCompression for every set of data types and variants,  *)
(* every width of value ids, and both builds.                              *)
(***************************************************************************)
EXTENDS SegmentCompression, SegmentProofs

\* The dictionary of the segment, if it has one, is sorted, small enough for its value ids
\* and used to the last entry, and the largest number of their width is no value id.
DictionaryInv ==
    segment.kind = "dictionary" =>
        LET d == segment.dictionary
            ids == segment.attribute_vector.ids
        IN  /\ Increasing(d) /\ Len(d) <= U32Max
            /\ \A k \in DOMAIN ids : ids[k] < Len(d) /\ ids[k] < segment.attribute_vector.max
            /\ \A i \in 0..(Len(d) - 1) : \E k \in DOMAIN ids : ids[k] = i

\* The inductive invariant.
IInv == TypeOK /\ HoldsAppendedValues /\ DictionaryInv

-----------------------------------------------------------------------------
\* A segment of a kind is of the type of that kind.
LEMMA KindOfSegment ==
    ASSUME segment \in Segment
    PROVE  /\ segment.kind = "value" => segment \in ValueSegment
           /\ segment.kind = "dictionary" => segment \in DictionarySegment
           /\ segment.kind \in {"value", "dictionary"}
  BY DEF Segment, ValueSegment, DictionarySegment

\* An empty value segment satisfies the inductive invariant.
LEMMA InitIInv == Init => IInv
<1> SUFFICES ASSUME Init PROVE IInv
  OBVIOUS
<1>1. PICK type \in DataTypes : segment = EmptyValueSegment(type)
  BY DEF Init
<1>2. segment \in Segment /\ Segment_size(segment) = 0
  BY <1>1, EmptySegmentFacts
<1>3. segment.kind = "value"
  BY <1>1 DEF EmptyValueSegment
<1>4. appended = <<>> /\ outcome = "ok"
  BY DEF Init
<1>5. HoldsAppendedValues
  BY <1>2, <1>4 DEF HoldsAppendedValues
<1>6. TypeOK
  BY <1>2, <1>4 DEF TypeOK
<1>7. QED
  BY <1>3, <1>5, <1>6 DEF IInv, DictionaryInv

\* ValueSegment::append adds the cast value behind the others.
LEMMA AppendKeepsIInv ==
    ASSUME IInv, NEW variant \in Variants, append(variant)
    PROVE  IInv'
<1> DEFINE v == type_cast(segment.type, variant)
<1>1. /\ segment \in Segment /\ appended \in Seq(Int)
      /\ Segment_size(segment) = Len(appended)
      /\ \A k \in DOMAIN appended : Entry(segment, k) = appended[k]
  BY DEF IInv, TypeOK, HoldsAppendedValues, Values
<1>2. /\ Accepts(segment, variant) /\ variant \in AllTypeVariant
      /\ segment' = ValueSegment_append(segment, variant)
      /\ appended' = Append(appended, v) /\ outcome' = "ok"
  BY VariantsAssumption DEF append
<1>3. /\ segment' \in Segment /\ segment'.kind = "value"
      /\ Segment_size(segment') = Segment_size(segment) + 1
      /\ \A k \in 1..Segment_size(segment) : Entry(segment', k) = Entry(segment, k)
      /\ Entry(segment', Segment_size(segment')) = v
  BY <1>1, <1>2, SegmentAppendFacts
<1>4. v \in Int
  <2>1. segment.type \in DataTypes
    BY <1>1 DEF Segment, ValueSegment, DictionarySegment
  <2>2. v # Throws
    BY <1>2 DEF Accepts
  <2>3. QED
    BY <1>2, <2>1, <2>2 DEF AllTypeVariant, Values, type_cast
<1> HIDE DEF v
<1>5. /\ appended' \in Seq(Int) /\ Len(appended') = Len(appended) + 1
      /\ DOMAIN appended' = 1..(Len(appended) + 1) /\ Len(appended) \in Nat
      /\ appended'[Len(appended) + 1] = v
      /\ \A k \in 1..Len(appended) : appended'[k] = appended[k] /\ k \in DOMAIN appended
  BY <1>1, <1>2, <1>4
<1>6. ASSUME NEW k \in DOMAIN appended' PROVE Entry(segment', k) = appended'[k]
  <2>1. CASE k = Len(appended) + 1
    BY <2>1, <1>1, <1>3, <1>5
  <2>2. CASE k # Len(appended) + 1
    <3>1. k \in 1..Len(appended)
      BY <2>2, <1>5
    <3>2. QED
      BY <3>1, <1>1, <1>3, <1>5
  <2>3. QED
    BY <2>1, <2>2
<1>7. HoldsAppendedValues'
  BY <1>1, <1>3, <1>5, <1>6 DEF HoldsAppendedValues
<1>8. TypeOK'
  BY <1>2, <1>3, <1>5 DEF TypeOK, Values
<1>9. QED
  BY <1>3, <1>7, <1>8 DEF IInv, DictionaryInv

\* The constructor of DictionarySegment keeps the values.
LEMMA CompressKeepsIInv ==
    ASSUME IInv, compress
    PROVE  IInv'
<1>1. /\ segment \in ValueSegment /\ ~DictionaryTooLarge(segment.values)
      /\ segment' = CompressedSegment(segment) /\ appended' = appended /\ outcome' = "ok"
  BY KindOfSegment DEF IInv, TypeOK, compress
<1>2. /\ segment' \in DictionarySegment
      /\ Segment_size(segment') = Segment_size(segment)
      /\ \A k \in 1..Segment_size(segment) : Entry(segment', k) = Entry(segment, k)
  BY <1>1, CompressionIsLossless
<1>3. CompressedFrom(segment', segment.values)
  BY <1>1, CompressedSegmentFacts
<1>4. /\ appended \in Seq(Int) /\ DOMAIN appended = 1..Len(appended)
      /\ Segment_size(segment) = Len(appended)
      /\ \A k \in DOMAIN appended : Entry(segment, k) = appended[k]
  BY DEF IInv, TypeOK, HoldsAppendedValues, Values
<1>5. HoldsAppendedValues'
  BY <1>1, <1>2, <1>4 DEF HoldsAppendedValues
<1>6. TypeOK'
  BY <1>1, <1>2, <1>4 DEF TypeOK, Values, Segment
<1>7. segment.values \in Seq(Int)
  BY <1>1 DEF ValueSegment, Values
<1>8. DOMAIN segment'.attribute_vector.ids = DOMAIN segment.values
  BY <1>3, <1>7 DEF CompressedFrom
<1>9. DictionaryInv'
  BY <1>3, <1>8 DEF CompressedFrom, DictionaryInv
<1>10. QED
  BY <1>5, <1>6, <1>9 DEF IInv

\* Appending and compressing keep it.
LEMMA NextKeepsIInv == IInv /\ [Next]_vars => IInv'
<1> SUFFICES ASSUME IInv, [Next]_vars PROVE IInv'
  OBVIOUS
<1>1. CASE \E variant \in Variants : append(variant)
  BY <1>1, AppendKeepsIInv
<1>2. CASE compress
  BY <1>2, CompressKeepsIInv
<1>3. ASSUME UNCHANGED <<segment, appended>>, outcome' \in {outcome, "throws"} PROVE IInv'
  BY <1>3 DEF IInv, TypeOK, HoldsAppendedValues, DictionaryInv
<1>4. CASE \E variant \in Variants : append_throws(variant)
  BY <1>3, <1>4 DEF append_throws
<1>5. CASE compress_throws
  BY <1>3, <1>5 DEF compress_throws
<1>6. CASE UNCHANGED vars
  BY <1>3, <1>6 DEF vars
<1>7. QED
  BY <1>1, <1>2, <1>4, <1>5, <1>6 DEF Next

\* It holds in every state.
LEMMA SpecIInv == Spec => []IInv
BY InitIInv, NextKeepsIInv, PTL DEF Spec

-----------------------------------------------------------------------------
\* Whatever is appended and whichever casts fail, the variables keep their types.
THEOREM SegmentTypeOK == Spec => []TypeOK
<1>1. IInv => TypeOK
  BY DEF IInv
<1>2. QED
  BY <1>1, SpecIInv, PTL

\* The segment holds exactly the values whose append returned, in their order, before and
\* after it is compressed.
THEOREM SegmentHoldsAppendedValues == Spec => []HoldsAppendedValues
<1>1. IInv => HoldsAppendedValues
  BY DEF IInv
<1>2. QED
  BY <1>1, SpecIInv, PTL

\* The dictionary is strictly increasing, and the value ids in use are exactly its positions.
THEOREM SegmentDictionaryOK == Spec => []DictionaryOK
<1>1. ASSUME IInv PROVE DictionaryOK
  <2> SUFFICES ASSUME segment.kind = "dictionary" PROVE DictionaryOK
    BY DEF DictionaryOK
  <2> DEFINE d == segment.dictionary
             ids == segment.attribute_vector.ids
  <2>1. segment \in DictionarySegment
    BY <1>1, KindOfSegment DEF IInv, TypeOK
  <2>2. ids \in Seq(Nat) /\ d \in Seq(Int)
    BY <2>1 DEF DictionarySegment, FittedAttributeVector, Values
  <2>3. \A i, j \in DOMAIN d : i < j => d[i] < d[j]
    BY <1>1 DEF IInv, DictionaryInv, Increasing
  <2>4. ASSUME NEW k \in DOMAIN ids PROVE ids[k] \in 0..(Len(d) - 1)
    <3>1. ids[k] < Len(d)
      BY <1>1 DEF IInv, DictionaryInv
    <3>2. ids[k] \in Nat /\ Len(d) \in Nat
      BY <2>2
    <3>3. QED
      BY <3>1, <3>2
  <2>5. \A i \in 0..(Len(d) - 1) : \E k \in DOMAIN ids : ids[k] = i
    BY <1>1 DEF IInv, DictionaryInv
  <2>6. {ids[k] : k \in DOMAIN ids} = 0..(Len(d) - 1)
    BY <2>4, <2>5
  <2>7. QED
    BY <2>3, <2>6 DEF DictionaryOK
<1>2. QED
  BY <1>1, SpecIInv, PTL

\* No stored value id is the number INVALID_VALUE_ID becomes when it is narrowed.
THEOREM SegmentSentinelIsFree == Spec => []SentinelIsFree
<1>1. IInv => SentinelIsFree
  BY DEF IInv, DictionaryInv, SentinelIsFree
<1>2. QED
  BY <1>1, SpecIInv, PTL

\* The searches of a dictionary count its smaller (or equal) entries for every search value,
\* and return INVALID_VALUE_ID exactly when no entry is left.
THEOREM SegmentBoundsOK == Spec => []BoundsOK
<1>1. ASSUME IInv PROVE BoundsOK
  <2> SUFFICES ASSUME segment.kind = "dictionary" PROVE BoundsOK
    BY DEF BoundsOK
  <2> DEFINE d == segment.dictionary
             Id(n) == IF n < Len(d) THEN n ELSE INVALID_VALUE_ID
  <2>1. segment \in DictionarySegment
    BY <1>1, KindOfSegment DEF IInv, TypeOK
  <2>2. d \in Seq(Int) /\ Increasing(d) /\ Len(d) <= U32Max
    BY <1>1, <2>1 DEF DictionarySegment, Values, IInv, DictionaryInv
  <2>3. Probes \in SUBSET Int
    <3>1. segment.type \in DataTypes
      BY <2>1 DEF DictionarySegment
    <3>2. \A variant \in Variants : variant[segment.type] \in Int \cup {Throws}
      BY <3>1, VariantsAssumption DEF AllTypeVariant, Values
    <3> DEFINE all == {variant[segment.type] : variant \in Variants} \ {Throws}
    <3>3. \A v \in all : v \in Int /\ v - 1 \in Int /\ v + 1 \in Int
      BY <3>2
    <3>4. Probes = all \cup {v - 1 : v \in all} \cup {v + 1 : v \in all}
      BY DEF Probes
    <3> HIDE DEF all
    <3>5. QED
      BY <3>3, <3>4
  <2>4. ASSUME NEW v \in Probes
        PROVE  /\ lower_bound(d, v) = Id(Cardinality({i \in DOMAIN d : d[i] < v}))
               /\ upper_bound(d, v) = Id(Cardinality({i \in DOMAIN d : d[i] <= v}))
    BY <2>2, <2>3, BoundsCountEntries
  <2>5. QED
    BY <2>4 DEF BoundsOK
<1>2. QED
  BY <1>1, SpecIInv, PTL
=============================================================================
