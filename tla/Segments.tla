------------------------------ MODULE Segments ------------------------------
(***************************************************************************)
(* The segments of a column (src/lib/storage/value_segment.cpp,            *)
(* dictionary_segment.hpp, fitted_attribute_vector.hpp) as operators on    *)
(* records, with the casts and type look-ups they use (type_cast.hpp,      *)
(* resolve_type.hpp).                                                      *)
(*                                                                         *)
(* The data is abstracted to what the code compares.  The values of one    *)
(* data type are represented by integers in the order of operator< on that *)
(* type.  An AllTypeVariant is represented by what type_cast makes of it:  *)
(* a function from each data type to the value stored in a segment of that *)
(* type, or to Throws when the cast raises an exception.                   *)
(***************************************************************************)
EXTENDS Integers, Sequences, FiniteSets

CONSTANTS
    DataTypes,  \* the type strings of all_type_variant.hpp: "int", "string", ...
    Throws,     \* the outcome of a call that raises an exception
    U8Max, U16Max, U32Max,  \* numeric_limits<uintN_t>::max(), scaled down for TLC
    IsDebug     \* IS_DEBUG: are the DebugAsserts compiled in?

ASSUME BuildAssumption == IsDebug \in BOOLEAN
ASSUME WidthAssumption == /\ {U8Max, U16Max, U32Max} \subseteq Nat
                          /\ 0 < U8Max /\ U8Max < U16Max /\ U16Max < U32Max
ASSUME ThrowsAssumption == Throws \notin Int

Values == Int
AllTypeVariant == [DataTypes -> Values \cup {Throws}]

\* A DebugAssert that fails raises std::logic_error; a release build skips it.
DebugAssert(expr) == IsDebug => expr

type_cast(type, variant) == variant[type]

-----------------------------------------------------------------------------
(* ValueSegment<T> *)

ValueSegment == [kind : {"value"}, type : DataTypes, values : Seq(Values)]

EmptyValueSegment(type) == [kind |-> "value", type |-> type, values |-> <<>>]

ValueSegment_append(segment, variant) ==
    [segment EXCEPT !.values = Append(@, type_cast(segment.type, variant))]

-----------------------------------------------------------------------------
(* DictionarySegment<T>: a sorted dictionary, and for every row the value  *)
(* id of its value.  A value id is a zero-based position in the dictionary *)
(* and is kept in the narrowest of three unsigned types.                   *)

INVALID_VALUE_ID == U32Max

FittedAttributeVector == [max : {U8Max, U16Max, U32Max}, ids : Seq(Nat)]

DictionarySegment == [kind : {"dictionary"}, type : DataTypes,
                      dictionary : Seq(Values), attribute_vector : FittedAttributeVector]

Segment == ValueSegment \cup DictionarySegment

ValuesIn(values) == {values[i] : i \in DOMAIN values}

\* The number of members of S that std::sort puts in front of v.
Rank(S, v) == Cardinality({w \in S : w < v})

\* Variant: neither sorted nor freed of duplicates.
Mutant_UnsortedDictionary(values) == values

\* Copy, sort, unique and erase: position i holds the member of rank i - 1.
initialize_dictionary(values) ==
    LET S == ValuesIn(values)
    IN  [i \in 1..Cardinality(S) |-> CHOOSE v \in S : Rank(S, v) = i - 1]

\* std::lower_bound: the first position that is not less than v.
lower_bound(dictionary, v) ==
    IF \E i \in DOMAIN dictionary : dictionary[i] >= v
    THEN (CHOOSE i \in DOMAIN dictionary :
             dictionary[i] >= v /\ \A j \in 1..(i - 1) : dictionary[j] < v) - 1
    ELSE INVALID_VALUE_ID

\* Variant: the search of lower_bound.
Mutant_UpperBoundNotStrict(dictionary, v) == lower_bound(dictionary, v)

\* std::upper_bound: the first position that is greater than v.
upper_bound(dictionary, v) ==
    IF \E i \in DOMAIN dictionary : dictionary[i] > v
    THEN (CHOOSE i \in DOMAIN dictionary :
             dictionary[i] > v /\ \A j \in 1..(i - 1) : dictionary[j] <= v) - 1
    ELSE INVALID_VALUE_ID

\* Variants: the narrowest width for every dictionary, and a width whose largest
\* number may be taken by a value id.
Mutant_AlwaysNarrow(unique_values_count) == U8Max
Mutant_NoFreeId(unique_values_count) ==
    IF unique_values_count <= U8Max + 1 THEN U8Max
    ELSE IF unique_values_count <= U16Max + 1 THEN U16Max
    ELSE U32Max

\* The largest id of the attribute vector chosen for a dictionary of that size.
AttributeVectorMax(unique_values_count) ==
    IF unique_values_count <= U8Max THEN U8Max
    ELSE IF unique_values_count <= U16Max THEN U16Max
    ELSE U32Max

\* Variant: the ids are taken from upper_bound.
Mutant_UpperBoundIds(dictionary, values) ==
    [max |-> AttributeVectorMax(Len(dictionary)),
     ids |-> [i \in DOMAIN values |-> upper_bound(dictionary, values[i])]]

\* back_inserter into a std::vector<U> narrows every ValueID to U.
initialize_attribute_vector(dictionary, values) ==
    LET max == AttributeVectorMax(Len(dictionary))
    IN  [max |-> max,
         ids |-> [i \in DOMAIN values |-> lower_bound(dictionary, values[i]) % (max + 1)]]

\* "Not implemented attribute vector size."
DictionaryTooLarge(values) == Cardinality(ValuesIn(values)) > U32Max

\* The constructor DictionarySegment(base_segment).
CompressedSegment(segment) ==
    LET dictionary == initialize_dictionary(segment.values)
    IN  [kind |-> "dictionary", type |-> segment.type, dictionary |-> dictionary,
         attribute_vector |-> initialize_attribute_vector(dictionary, segment.values)]

-----------------------------------------------------------------------------
(* BaseSegment *)

Segment_size(segment) ==
    IF segment.kind = "value" THEN Len(segment.values)
    ELSE Len(segment.attribute_vector.ids)

\* Variant: a failed cast goes unnoticed.
Mutant_AcceptsUncast(segment, variant) == segment.kind = "value"

\* Does segment->append(variant) return?  A dictionary segment always throws.
Accepts(segment, variant) ==
    segment.kind = "value" /\ type_cast(segment.type, variant) # Throws

\* The k-th value a segment holds, as its representation defines it; what operator[]
\* returns for it is ValueAt.
Entry(segment, k) ==
    IF segment.kind = "value" THEN segment.values[k]
    ELSE segment.dictionary[segment.attribute_vector.ids[k] + 1]

\* Value ids of a dictionary segment point into its dictionary.
WellFormed(segment) ==
    segment.kind = "dictionary" =>
        \A k \in DOMAIN segment.attribute_vector.ids :
            segment.attribute_vector.ids[k] < Len(segment.dictionary)

\* operator[](k - 1), with the bounds checks each kind of segment makes.
ValueAt(segment, k) ==
    IF segment.kind = "value"
    THEN IF DebugAssert(k <= Len(segment.values)) THEN segment.values[k] ELSE Throws
    ELSE IF DebugAssert(k <= Len(segment.dictionary) /\ k <= Len(segment.attribute_vector.ids))
         THEN segment.dictionary[segment.attribute_vector.ids[k] + 1] ELSE Throws
=============================================================================
