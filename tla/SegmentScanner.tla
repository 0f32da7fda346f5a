--------------------------- MODULE SegmentScanner ---------------------------
(***************************************************************************)
(* The six segment scanners (src/lib/operators/segment_scanner.hpp).  A    *)
(* value segment is scanned by comparing its values with the search value, *)
(* a dictionary segment by comparing its value ids with one value id that  *)
(* is looked up once.  A scan visits the positions it is given from left   *)
(* to right (the index fetchers, whose start_index - 1 wraps around and is *)
(* incremented back before its first use).                                 *)
(***************************************************************************)
EXTENDS Segments

ScanTypes == {"OpEquals", "OpNotEquals", "OpLessThan", "OpLessThanEquals",
              "OpGreaterThan", "OpGreaterThanEquals"}

\* A position of a table.
RowID(chunk_id, chunk_offset) == [chunk_id |-> chunk_id, chunk_offset |-> chunk_offset]

compare(scan_type, value, cmp_value) ==
    CASE scan_type = "OpEquals"            -> value = cmp_value
      [] scan_type = "OpNotEquals"         -> value # cmp_value
      [] scan_type = "OpLessThan"          -> value < cmp_value
      [] scan_type = "OpLessThanEquals"    -> value <= cmp_value
      [] scan_type = "OpGreaterThan"       -> value > cmp_value
      [] scan_type = "OpGreaterThanEquals" -> value >= cmp_value

\* Of EqualsScanner and NotEqualsScanner: the id of the search value itself.
exact_value_id(dictionary, cmp_value) ==
    LET value_id == lower_bound(dictionary, cmp_value)
    IN  IF value_id # INVALID_VALUE_ID /\ dictionary[value_id + 1] # cmp_value
        THEN INVALID_VALUE_ID ELSE value_id

\* Variant: the scanners for <= and > look for the first value >= the search value.
Mutant_AlwaysLowerBound(scan_type, dictionary, cmp_value) ==
    IF scan_type \in {"OpEquals", "OpNotEquals"} THEN exact_value_id(dictionary, cmp_value)
    ELSE lower_bound(dictionary, cmp_value)

get_value_id(scan_type, dictionary, cmp_value) ==
    CASE scan_type \in {"OpEquals", "OpNotEquals"} -> exact_value_id(dictionary, cmp_value)
      [] scan_type \in {"OpLessThan", "OpGreaterThanEquals"} -> lower_bound(dictionary, cmp_value)
      [] scan_type \in {"OpLessThanEquals", "OpGreaterThan"} -> upper_bound(dictionary, cmp_value)

compare_by_value_id(scan_type, value_id, cmp_value_id) ==
    CASE scan_type = "OpEquals"    -> value_id = cmp_value_id
      [] scan_type = "OpNotEquals" -> value_id # cmp_value_id
      [] scan_type \in {"OpLessThan", "OpLessThanEquals"} -> value_id < cmp_value_id
      [] scan_type \in {"OpGreaterThan", "OpGreaterThanEquals"} -> value_id >= cmp_value_id

\* Does the scan select position k of the segment?
Selects(scan_type, segment, cmp_value, k) ==
    IF segment.kind = "value"
    THEN compare(scan_type, segment.values[k], cmp_value)
    ELSE compare_by_value_id(scan_type, segment.attribute_vector.ids[k],
                             get_value_id(scan_type, segment.dictionary, cmp_value))

\* The loop of scan: the positions that are in a set, in the order it visits them.
Picked(positions, selected) ==
    LET picked[n \in 0..Len(positions)] ==
            IF n = 0 THEN <<>>
            ELSE IF positions[n] \in selected THEN Append(picked[n - 1], positions[n])
            ELSE picked[n - 1]
    IN  picked[Len(positions)]

\* scan with a PosListIndexFetcher: positions is a part of a position list that lies in
\* the chunk the segment belongs to.
scan_positions(scan_type, segment, cmp_value, positions) ==
    Picked(positions, {row_id \in ValuesIn(positions) :
                           Selects(scan_type, segment, cmp_value, row_id.chunk_offset)})

\* scan with a ContinuousIndexFetcher: every position of the segment.
scan_segment(scan_type, chunk_id, segment, cmp_value) ==
    scan_positions(scan_type, segment, cmp_value,
                   [k \in 1..Segment_size(segment) |-> RowID(chunk_id, k)])
=============================================================================
