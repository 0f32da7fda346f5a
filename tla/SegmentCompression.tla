------------------------- MODULE SegmentCompression -------------------------
(***************************************************************************)
(* The life of one segment: a ValueSegment is filled by append and then    *)
(* turned into a DictionarySegment, as Table::compress_chunk does for each *)
(* column.  The variable appended is the history the segment must keep:    *)
(* the cast of every value whose append returned.                          *)
(***************************************************************************)
EXTENDS Segments

CONSTANTS
    Variants,   \* the AllTypeVariants that are appended
    MaxRows     \* bound: appends that return

ASSUME VariantsAssumption == Variants \subseteq AllTypeVariant
ASSUME MaxRowsAssumption == MaxRows \in Nat

VARIABLES segment, appended, outcome
vars == <<segment, appended, outcome>>

Init == /\ \E type \in DataTypes : segment = EmptyValueSegment(type)
        /\ appended = <<>>
        /\ outcome = "ok"

\* ValueSegment::append
append(variant) ==
    /\ Accepts(segment, variant)
    /\ Len(appended) < MaxRows
    /\ segment' = ValueSegment_append(segment, variant)
    /\ appended' = Append(appended, type_cast(segment.type, variant))
    /\ outcome' = "ok"

\* append on an immutable segment, or with a value that cannot be cast
append_throws(variant) ==
    /\ ~Accepts(segment, variant)
    /\ outcome' = "throws"
    /\ UNCHANGED <<segment, appended>>

\* The segment is replaced by DictionarySegment(segment).
compress ==
    /\ segment.kind = "value"
    /\ ~DictionaryTooLarge(segment.values)
    /\ segment' = CompressedSegment(segment)
    /\ outcome' = "ok"
    /\ UNCHANGED appended

\* The constructor refuses a segment of another kind, or too many distinct values.
compress_throws ==
    /\ \/ segment.kind = "dictionary" /\ IsDebug
       \/ segment.kind = "value" /\ DictionaryTooLarge(segment.values)
    /\ outcome' = "throws"
    /\ UNCHANGED <<segment, appended>>

Next == \/ \E variant \in Variants : append(variant) \/ append_throws(variant)
        \/ compress
        \/ compress_throws

Spec == Init /\ [][Next]_vars

-----------------------------------------------------------------------------
\* A segment holds values of the kind type_cast returns, also when a cast has thrown.
TypeOK == /\ segment \in Segment
          /\ appended \in Seq(Values)
          /\ outcome \in {"ok", "throws"}

\* The segment holds exactly the values whose append returned, in that order,
\* before and after compression (ValueSegment::append, the constructor of
\* DictionarySegment and the width of its attribute vector).
HoldsAppendedValues ==
    /\ Segment_size(segment) = Len(appended)
    /\ \A k \in DOMAIN appended : Entry(segment, k) = appended[k]

\* operator[] returns the value at every valid position (dictionary_segment.hpp:
\* "return the value at a certain position").
ReadBack == \A k \in DOMAIN appended : ValueAt(segment, k) = appended[k]

\* The dictionary is strictly increasing, every value id points into it and every
\* entry of it is used (_initialize_dictionary sorts and removes duplicates).
DictionaryOK ==
    segment.kind = "dictionary" =>
        LET dictionary == segment.dictionary
            ids == segment.attribute_vector.ids
        IN  /\ \A i, j \in DOMAIN dictionary : i < j => dictionary[i] < dictionary[j]
            /\ {ids[k] : k \in DOMAIN ids} = 0..(Len(dictionary) - 1)

\* No stored value id is the down-cast of INVALID_VALUE_ID, which is the largest number
\* of the vector's width (the comment on INVALID_VALUE_ID relies on that number being free).
SentinelIsFree ==
    segment.kind = "dictionary" =>
        \A k \in DOMAIN segment.attribute_vector.ids :
            segment.attribute_vector.ids[k] < segment.attribute_vector.max

\* lower_bound and upper_bound count the smaller (or equal) entries of the dictionary,
\* and are INVALID_VALUE_ID exactly when no entry is left, for every search value.
Probes == LET all == {variant[segment.type] : variant \in Variants} \ {Throws}
          IN  all \cup {v - 1 : v \in all} \cup {v + 1 : v \in all}

BoundsOK ==
    segment.kind = "dictionary" =>
        LET d == segment.dictionary
            Id(n) == IF n < Len(d) THEN n ELSE INVALID_VALUE_ID
        IN  \A v \in Probes :
                /\ lower_bound(d, v) = Id(Cardinality({i \in DOMAIN d : d[i] < v}))
                /\ upper_bound(d, v) = Id(Cardinality({i \in DOMAIN d : d[i] <= v}))
=============================================================================
