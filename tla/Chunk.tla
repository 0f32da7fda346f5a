------------------------------- MODULE Chunk -------------------------------
(***************************************************************************)
(* A chunk (src/lib/storage/chunk.cpp): a sequence of segments, one per    *)
(* column.  A row is a sequence of AllTypeVariants.                        *)
(***************************************************************************)
EXTENDS Segments

Chunk == Seq(Segment)

Chunk_column_count(chunk) == Len(chunk)

\* Chunk::size asks the first segment only.
Chunk_size(chunk) == IF chunk = <<>> THEN 0 ELSE Segment_size(chunk[1])

\* Have the segments 1..i of the chunk all accepted their value of the row?
AppendedUpTo(chunk, values, i) == \A j \in 1..i : Accepts(chunk[j], values[j])

\* Does Chunk::append pass its arity check?
ArityMatches(chunk, values) == DebugAssert(Len(values) = Len(chunk))

\* Chunk::append returns ...
Chunk_append_returns(chunk, values) ==
    ArityMatches(chunk, values) /\ AppendedUpTo(chunk, values, Len(chunk))

\* Variants: the arity is checked after the loop, and the loop goes on after a
\* segment has thrown.
Mutant_LateArityCheck(chunk, values) ==
    [i \in DOMAIN chunk |->
        IF i <= Len(values) /\ AppendedUpTo(chunk, values, i)
        THEN ValueSegment_append(chunk[i], values[i]) ELSE chunk[i]]
Mutant_LoopGoesOn(chunk, values) ==
    [i \in DOMAIN chunk |->
        IF ArityMatches(chunk, values) /\ Accepts(chunk[i], values[i])
        THEN ValueSegment_append(chunk[i], values[i]) ELSE chunk[i]]

\* ... and this is the chunk it leaves, returning or not: the segments before
\* the one that throws keep their new value.
Chunk_append(chunk, values) ==
    [i \in DOMAIN chunk |->
        IF ArityMatches(chunk, values) /\ AppendedUpTo(chunk, values, i)
        THEN ValueSegment_append(chunk[i], values[i]) ELSE chunk[i]]

\* The entries of row k, as the representation of each segment defines them.
ChunkRow(chunk, k) == [i \in DOMAIN chunk |-> Entry(chunk[i], k)]
=============================================================================
