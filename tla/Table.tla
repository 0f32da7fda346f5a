------------------------------- MODULE Table -------------------------------
(***************************************************************************)
(* A table (src/lib/storage/table.cpp), driven by one caller: the class    *)
(* documents its writers as not thread-safe.  Every public operation that  *)
(* changes a table is an action.  An operation that raises an exception    *)
(* keeps what it changed before, and the caller may go on using the table. *)
(*                                                                         *)
(* _current_chunk is a shared_ptr that usually points to a chunk that is   *)
(* also in _chunks.  It is modelled by the position of that chunk, or by 0 *)
(* when the chunk it points to is in no position of _chunks; then detached *)
(* is the content of that chunk.  _column_names has the length of          *)
(* _column_types, and no operation that changes the table reads a name.    *)
(*                                                                         *)
(* Positions start at 1 here and at 0 in the code.  Calls that a release   *)
(* build answers with undefined behaviour, because the DebugAssert that    *)
(* refuses them is compiled out, are outside the model.                    *)
(***************************************************************************)
EXTENDS Chunk

CONSTANTS
    ChunkSize,      \* _chunk_size
    TypeStrings,    \* the strings passed as column types, known or not
    Rows,           \* the rows passed to append
    EmplacedChunks, \* the chunks passed to emplace_chunk
    MaxColumns,     \* bound: column definitions
    MaxChunks,      \* bound: chunks in the table
    MaxChunkRows    \* bound: rows of the chunk that is appended to

ASSUME ChunkSizeAssumption == ChunkSize \in 0..U32Max
ASSUME RowsAssumption == Rows \subseteq Seq(AllTypeVariant)
ASSUME BoundsAssumption == {MaxColumns, MaxChunks, MaxChunkRows} \subseteq Nat
\* A release build stores a null pointer as the segment of an unknown type.
ASSUME TypeStringsAssumption == IsDebug \/ TypeStrings \subseteq DataTypes

\* Callers emplace chunks whose segments have one length.
ASSUME EmplacedChunksAssumption ==
    \A chunk \in EmplacedChunks :
        /\ chunk \in Chunk
        /\ \A i \in DOMAIN chunk : /\ WellFormed(chunk[i])
                                   /\ Segment_size(chunk[i]) = Chunk_size(chunk)

VARIABLES
    column_types,  \* _column_types
    chunks,        \* _chunks
    current,       \* the position of *_current_chunk in _chunks, or 0
    detached,      \* *_current_chunk when current = 0
    last           \* the last call, its outcome and the row an append has added

vars == <<column_types, chunks, current, detached, last>>

-----------------------------------------------------------------------------
CurrentChunk == IF current = 0 THEN detached ELSE chunks[current]

\* Variant: only the current chunk is looked at.
Mutant_CurrentChunkIsEmpty == Chunk_size(CurrentChunk) = 0

\* row_count() == 0
HasNoRows == \A c \in DOMAIN chunks : Chunk_size(chunks[c]) = 0

\* Variant: one row too many.
Mutant_FullTooLate(chunk) == Chunk_size(chunk) > ChunkSize

is_full(chunk) == Chunk_size(chunk) = ChunkSize

\* make_shared_by_data_type<BaseSegment, ValueSegment> finds every column type.
AllTypesKnown == \A i \in DOMAIN column_types : column_types[i] \in DataTypes

\* The chunk that create_new_chunk fills with an empty segment per column.
NewChunk == [i \in DOMAIN column_types |-> EmptyValueSegment(column_types[i])]

\* The segments it has added when it meets the first unknown type and throws.
UnfinishedChunk ==
    LET unknown == CHOOSE i \in DOMAIN column_types :
                       /\ column_types[i] \notin DataTypes
                       /\ \A j \in 1..(i - 1) : column_types[j] \in DataTypes
    IN  [i \in 1..(unknown - 1) |-> EmptyValueSegment(column_types[i])]

\* An assignment to the object _current_chunk points to.
UpdateCurrentChunk(chunk) ==
    \/ /\ current = 0
       /\ detached' = chunk
       /\ UNCHANGED <<chunks, current>>
    \/ /\ current # 0
       /\ chunks' = [chunks EXCEPT ![current] = chunk]
       /\ UNCHANGED <<current, detached>>

\* Variant: the new chunk is not pushed.
Mutant_NotPushed(chunk) ==
    /\ Len(chunks) < MaxChunks
    /\ current' = Len(chunks) + 1
    /\ detached' = <<>>
    /\ UNCHANGED chunks

\* _current_chunk = chunk, and it is pushed to _chunks.
PushChunk(chunk) ==
    /\ Len(chunks) < MaxChunks
    /\ chunks' = Append(chunks, chunk)
    /\ current' = Len(chunks) + 1
    /\ detached' = <<>>

\* _current_chunk is assigned before the loop over the types throws.
FailToCreateChunk ==
    /\ current' = 0
    /\ detached' = UnfinishedChunk
    /\ UNCHANGED chunks

Returns(call) == last' = [call |-> call, outcome |-> "ok", row |-> <<>>]
Fails(call)   == last' = [call |-> call, outcome |-> "throws", row |-> <<>>]

-----------------------------------------------------------------------------
Init == /\ column_types = <<>>
        /\ chunks = << <<>> >>
        /\ current = 1
        /\ detached = <<>>
        /\ last = [call |-> "Table", outcome |-> "ok", row |-> <<>>]

\* The DebugAsserts of add_column_definition.
MayDefineColumn == /\ DebugAssert(Len(column_types) < U16Max)
                   /\ DebugAssert(HasNoRows)

add_column_definition(type) ==
    \/ /\ MayDefineColumn
       /\ Len(column_types) < MaxColumns
       /\ column_types' = Append(column_types, type)
       /\ Returns("add_column_definition")
       /\ UNCHANGED <<chunks, current, detached>>
    \/ /\ ~MayDefineColumn
       /\ Fails("add_column_definition")
       /\ UNCHANGED <<column_types, chunks, current, detached>>

\* The definition is added first, and stays when the type is unknown.
add_column(type) ==
    \/ /\ MayDefineColumn
       /\ Len(column_types) < MaxColumns
       /\ column_types' = Append(column_types, type)
       /\ \/ /\ type \in DataTypes
             /\ UpdateCurrentChunk(Append(CurrentChunk, EmptyValueSegment(type)))
             /\ Returns("add_column")
          \/ /\ type \notin DataTypes
             /\ Fails("add_column")
             /\ UNCHANGED <<chunks, current, detached>>
    \/ /\ ~MayDefineColumn
       /\ Fails("add_column")
       /\ UNCHANGED <<column_types, chunks, current, detached>>

create_new_chunk ==
    /\ \/ AllTypesKnown /\ PushChunk(NewChunk) /\ Returns("create_new_chunk")
       \/ ~AllTypesKnown /\ FailToCreateChunk /\ Fails("create_new_chunk")
    /\ UNCHANGED column_types

\* _current_chunk->append(values), for the chunk _current_chunk points to by then.
AppendOutcome(chunk, values) ==
    \/ /\ Chunk_append_returns(chunk, values)
       /\ last' = [call |-> "append", outcome |-> "ok", row |-> values]
    \/ /\ ~Chunk_append_returns(chunk, values)
       /\ Fails("append")

\* A release build reads past the end of a row that is too short.
DefinedAppend(chunk, values) == IsDebug \/ Len(values) >= Len(chunk)

append(values) ==
    /\ \/ /\ ~is_full(CurrentChunk)
          /\ DefinedAppend(CurrentChunk, values)
          /\ Chunk_size(CurrentChunk) < MaxChunkRows
          /\ UpdateCurrentChunk(Chunk_append(CurrentChunk, values))
          /\ AppendOutcome(CurrentChunk, values)
       \/ /\ is_full(CurrentChunk)
          /\ AllTypesKnown
          /\ DefinedAppend(NewChunk, values)
          /\ PushChunk(Chunk_append(NewChunk, values))
          /\ AppendOutcome(NewChunk, values)
       \/ /\ is_full(CurrentChunk)
          /\ ~AllTypesKnown
          /\ FailToCreateChunk
          /\ Fails("append")
    /\ UNCHANGED column_types

\* Variant: a chunk that is pushed does not become the current chunk.
Mutant_EmplaceKeepsCurrent(chunk) ==
    /\ Chunk_size(chunk) <= ChunkSize
    /\ ~HasNoRows
    /\ Len(chunks) < MaxChunks
    /\ chunks' = Append(chunks, chunk)
    /\ Returns("emplace_chunk")
    /\ UNCHANGED <<column_types, current, detached>>

\* table.hpp:51 says "If the first chunk is empty, it is replaced."  The code replaces it
\* only when no chunk has a row; an empty first chunk followed by rows stays, and the new
\* chunk comes after these rows.  The columns are compared only when the table has rows.
emplace_chunk(chunk) ==
    /\ \/ /\ DebugAssert(Chunk_size(chunk) <= ChunkSize)
          /\ \/ /\ HasNoRows
                /\ chunks' = [chunks EXCEPT ![1] = chunk]
                /\ current' = 1
                /\ detached' = <<>>
                /\ Returns("emplace_chunk")
             \/ /\ ~HasNoRows
                /\ DebugAssert(Chunk_column_count(chunk) = Len(column_types))
                /\ PushChunk(chunk)
                /\ Returns("emplace_chunk")
             \/ /\ ~HasNoRows
                /\ ~DebugAssert(Chunk_column_count(chunk) = Len(column_types))
                /\ Fails("emplace_chunk")
                /\ UNCHANGED <<chunks, current, detached>>
       \/ /\ ~DebugAssert(Chunk_size(chunk) <= ChunkSize)
          /\ Fails("emplace_chunk")
          /\ UNCHANGED <<chunks, current, detached>>
    /\ UNCHANGED column_types

\* Variant: a chunk need not be full.
Mutant_CompressibleNotFull(chunk) ==
    \A i \in DOMAIN chunk : /\ i \in DOMAIN column_types
                            /\ chunk[i].kind = "value"
                            /\ chunk[i].type = column_types[i]

\* The checks before and in the loop over the columns: every segment must be a
\* ValueSegment of the type its column is defined with ...
Compressible(chunk) ==
    /\ DebugAssert(is_full(chunk))
    /\ \A i \in DOMAIN chunk : /\ i \in DOMAIN column_types
                               /\ chunk[i].kind = "value"
                               /\ chunk[i].type = column_types[i]

\* ... with no more distinct values than a value id can name.
TooLargeToCompress(chunk) == \E i \in DOMAIN chunk : DictionaryTooLarge(chunk[i].values)

\* Of the calls that are not Compressible only a debug build throws.
CompressionThrows(chunk_id) ==
    \/ IsDebug /\ ~(chunk_id \in DOMAIN chunks /\ Compressible(chunks[chunk_id]))
    \/ /\ chunk_id \in DOMAIN chunks
       /\ Compressible(chunks[chunk_id])
       /\ TooLargeToCompress(chunks[chunk_id])

CompressedChunk(chunk) == [i \in DOMAIN chunk |-> CompressedSegment(chunk[i])]

\* _chunks[chunk_id] is replaced, _current_chunk still points to the old chunk.
compress_chunk(chunk_id) ==
    /\ \/ /\ chunk_id \in DOMAIN chunks
          /\ Compressible(chunks[chunk_id])
          /\ ~TooLargeToCompress(chunks[chunk_id])
          /\ chunks' = [chunks EXCEPT ![chunk_id] = CompressedChunk(chunks[chunk_id])]
          /\ \/ /\ current = chunk_id
                /\ current' = 0
                /\ detached' = chunks[chunk_id]
             \/ /\ current # chunk_id
                /\ UNCHANGED <<current, detached>>
          /\ Returns("compress_chunk")
       \/ /\ CompressionThrows(chunk_id)
          /\ Fails("compress_chunk")
          /\ UNCHANGED <<chunks, current, detached>>
    /\ UNCHANGED column_types

Next == \/ \E type \in TypeStrings : add_column_definition(type) \/ add_column(type)
        \/ create_new_chunk
        \/ \E values \in Rows : append(values)
        \/ \E chunk \in EmplacedChunks : emplace_chunk(chunk)
        \/ \E chunk_id \in 1..(MaxChunks + 1) : compress_chunk(chunk_id)

Spec == Init /\ [][Next]_vars

-----------------------------------------------------------------------------
Calls == {"Table", "add_column_definition", "add_column", "create_new_chunk",
          "append", "emplace_chunk", "compress_chunk"}

\* A table always has a chunk, and _current_chunk is one of its chunks or detached.
TypeOK == /\ column_types \in Seq(TypeStrings)
          /\ chunks \in Seq(Chunk) /\ chunks # <<>>
          /\ current \in 0..Len(chunks)
          /\ detached \in Chunk
          /\ last \in [call : Calls, outcome : {"ok", "throws"}, row : Seq(AllTypeVariant)]

\* Whatever entry the table holds at a chunk, column and offset, a step leaves it
\* there: appends, failed calls, compression and emplaced chunks move and change
\* nothing.  The RowIDs in the position lists of ReferenceSegments rely on it.
KeepsEntries(old, new) ==
    \A i \in DOMAIN old : \A k \in 1..Segment_size(old[i]) :
        /\ i \in DOMAIN new
        /\ k <= Segment_size(new[i])
        /\ Entry(new[i], k) = Entry(old[i], k)

EntriesAreKept ==
    \A c \in DOMAIN chunks : c \in DOMAIN chunks' /\ KeepsEntries(chunks[c], chunks'[c])

StableEntries == [][EntriesAreKept]_vars

\* Chunk::size is the length of the longest segment, also after an append that threw
\* half way and in the chunk _current_chunk points to.
Lopsided(chunk) == \E i \in DOMAIN chunk : Segment_size(chunk[i]) > Chunk_size(chunk)

FirstSegmentIsLongest ==
    ~Lopsided(detached) /\ \A c \in DOMAIN chunks : ~Lopsided(chunks[c])

\* Every value id of a compressed column points into its dictionary, so that no read of
\* a stored position leaves the dictionary.
ChunkWellFormed(chunk) == \A i \in DOMAIN chunk : WellFormed(chunk[i])

ValueIdsInDictionary ==
    ChunkWellFormed(detached) /\ \A c \in DOMAIN chunks : ChunkWellFormed(chunks[c])

\* table.hpp: "the parameter specifies the maximum chunk size".
ChunkSizeRespected == \A c \in DOMAIN chunks : Chunk_size(chunks[c]) <= ChunkSize

\* When the chunk that append fills is no longer in the table, it is full, so that the
\* next append starts a new chunk; and while it is in the table, no rows come after it.
AppendTargetInTable ==
    /\ current = 0 => is_full(detached)
    /\ current # 0 => \A c \in DOMAIN chunks : c > current => Chunk_size(chunks[c]) = 0

\* table.hpp on append: "inserts a row at the end of the table".  When append returns,
\* one chunk has one more row, it holds the cast values, and only empty chunks follow.
RowIsAtEnd(values) ==
    \E c \in DOMAIN chunks' :
        LET n == Chunk_size(chunks'[c])
        IN  /\ n = 1 + IF c \in DOMAIN chunks THEN Chunk_size(chunks[c]) ELSE 0
            /\ \A i \in DOMAIN chunks'[c] :
                  /\ Segment_size(chunks'[c][i]) = n
                  /\ Entry(chunks'[c][i], n) = type_cast(chunks'[c][i].type, values[i])
            /\ \A d \in DOMAIN chunks' : d > c => Chunk_size(chunks'[d]) = 0

ReturnedAppendIsStored ==
    [][last'.call = "append" /\ last'.outcome = "ok" /\ last'.row # <<>>
           => RowIsAtEnd(last'.row)]_vars

\* chunk_test.cpp, AddValuesToChunk: after an append that throws, size() is what it was.
FailedAppendAddsNoRow ==
    [][last'.call = "append" /\ last'.outcome = "throws"
           => \A c \in DOMAIN chunks : Chunk_size(chunks'[c]) = Chunk_size(chunks[c])]_vars
=============================================================================
