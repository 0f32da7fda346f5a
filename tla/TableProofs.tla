---------------------------- MODULE TableProofs ----------------------------
(***************************************************************************)
(* Safety of Table for every chunk size, every set of types, rows and      *)
(* emplaced chunks, and both builds.  The theorems about chunks come       *)
(* first, then one step lemma per way a call changes the table.            *)
(*                                                                         *)
(* The second part proves that a table implements RowStore.  The abstract  *)
(* rows are the concatenation of the rows of the chunks, so every way a    *)
(* call changes the chunks is first described by what it does to the       *)
(* sequence of the rows of each chunk.                                     *)
(***************************************************************************)
EXTENDS TableRows, SegmentProofs, SequenceFacts

\* A chunk whose size is that of its longest segment, and whose segments are well-formed.
GoodChunk(chunk) == /\ chunk \in Chunk
                    /\ ~Lopsided(chunk)
                    /\ ChunkWellFormed(chunk)

-----------------------------------------------------------------------------
(* Segments and chunks *)

\* The shape of a chunk: its length, its segments and Chunk::size.
LEMMA ChunkFacts ==
    ASSUME NEW chunk \in Chunk
    PROVE  /\ Len(chunk) \in Nat /\ DOMAIN chunk = 1..Len(chunk)
           /\ \A i \in DOMAIN chunk : chunk[i] \in Segment /\ Segment_size(chunk[i]) \in Nat
           /\ chunk = <<>> <=> Len(chunk) = 0
           /\ Chunk_size(chunk) \in Nat
           /\ chunk # <<>> => 1 \in DOMAIN chunk /\ Chunk_size(chunk) = Segment_size(chunk[1])
<1>1. /\ Len(chunk) \in Nat /\ DOMAIN chunk = 1..Len(chunk)
      /\ \A i \in DOMAIN chunk : chunk[i] \in Segment
      /\ chunk = <<>> <=> Len(chunk) = 0
  BY DEF Chunk
<1>2. \A i \in DOMAIN chunk : Segment_size(chunk[i]) \in Nat
  BY <1>1, SegmentSizeType
<1>3. chunk # <<>> => 1 \in DOMAIN chunk
  BY <1>1
<1>4. QED
  BY <1>1, <1>2, <1>3 DEF Chunk_size

\* A chunk of empty value segments, as create_new_chunk builds it.
LEMMA EmptyChunkIsGood ==
    ASSUME NEW n \in Nat, NEW types \in [1..n -> DataTypes]
    PROVE  LET chunk == [i \in 1..n |-> EmptyValueSegment(types[i])]
           IN  GoodChunk(chunk) /\ Chunk_size(chunk) = 0
<1> DEFINE chunk == [i \in 1..n |-> EmptyValueSegment(types[i])]
<1>1. \A i \in 1..n : /\ chunk[i] \in Segment /\ Segment_size(chunk[i]) = 0
                      /\ WellFormed(chunk[i])
  BY EmptySegmentFacts
<1>2. chunk \in Chunk /\ DOMAIN chunk = 1..n
  <2>1. chunk \in [1..n -> Segment]
    BY <1>1
  <2>2. QED
    BY <2>1 DEF Chunk
<1> HIDE DEF chunk
<1>3. Chunk_size(chunk) = 0
  BY <1>1, <1>2, ChunkFacts DEF Chunk_size
<1>4. QED
  BY <1>1, <1>2, <1>3 DEF GoodChunk, Lopsided, ChunkWellFormed, chunk

\* Chunk::append, returning or not, leaves a good chunk that keeps its entries and is at
\* most one row longer.
LEMMA ChunkAppendKeeps ==
    ASSUME NEW chunk, GoodChunk(chunk), NEW values \in Seq(AllTypeVariant),
           DefinedAppend(chunk, values)
    PROVE  LET new == Chunk_append(chunk, values)
           IN  /\ GoodChunk(new) /\ KeepsEntries(chunk, new)
               /\ Chunk_size(new) \in {Chunk_size(chunk), Chunk_size(chunk) + 1}
<1> DEFINE new == Chunk_append(chunk, values)
           Added(i) == ArityMatches(chunk, values) /\ AppendedUpTo(chunk, values, i)
<1>1. chunk \in Chunk /\ ~Lopsided(chunk) /\ ChunkWellFormed(chunk)
  BY DEF GoodChunk
<1>2. /\ Len(chunk) \in Nat /\ DOMAIN chunk = 1..Len(chunk)
      /\ \A i \in DOMAIN chunk : chunk[i] \in Segment /\ Segment_size(chunk[i]) \in Nat
  BY <1>1, ChunkFacts
<1>3. \A i \in DOMAIN chunk : Added(i) => values[i] \in AllTypeVariant
  <2>1. ArityMatches(chunk, values) => Len(values) >= Len(chunk)
    BY <1>2 DEF ArityMatches, DefinedAppend, DebugAssert
  <2>2. QED
    BY <2>1, <1>2
<1>4. ASSUME NEW i \in DOMAIN chunk, Added(i) PROVE Accepts(chunk[i], values[i]) /\ Added(1)
  BY <1>2, <1>4 DEF AppendedUpTo
<1>5. DOMAIN new = DOMAIN chunk
  BY DEF Chunk_append
<1>6. ASSUME NEW i \in DOMAIN chunk
      PROVE  /\ Added(i) => new[i] = ValueSegment_append(chunk[i], values[i])
             /\ ~Added(i) => new[i] = chunk[i]
  BY DEF Chunk_append
<1> HIDE DEF new, Added
<1>7. ASSUME NEW i \in DOMAIN chunk
      PROVE  /\ new[i] \in Segment /\ WellFormed(new[i])
             /\ Segment_size(new[i]) = Segment_size(chunk[i]) + (IF Added(i) THEN 1 ELSE 0)
             /\ \A k \in 1..Segment_size(chunk[i]) : Entry(new[i], k) = Entry(chunk[i], k)
  <2>1. CASE Added(i)
    BY <2>1, <1>2, <1>3, <1>4, <1>6, SegmentAppendFacts
  <2>2. CASE ~Added(i)
    BY <2>2, <1>1, <1>2, <1>6 DEF ChunkWellFormed
  <2>3. QED
    BY <2>1, <2>2
<1>8. new \in Chunk
  <2>1. new \in [1..Len(chunk) -> Segment]
    <3>1. new = [i \in DOMAIN chunk |-> new[i]]
      BY DEF new, Chunk_append
    <3>2. QED
      BY <3>1, <1>2, <1>7
  <2>2. QED
    BY <2>1, <1>2 DEF Chunk
<1>9. KeepsEntries(chunk, new)
  BY <1>2, <1>5, <1>7 DEF KeepsEntries
<1>10. CASE chunk = <<>>
  <2>1. DOMAIN chunk = {} /\ new = <<>>
    BY <1>10, <1>2, <1>5, <1>8 DEF Chunk
  <2>2. Chunk_size(new) = Chunk_size(chunk)
    BY <1>10, <2>1
  <2>3. QED
    BY <1>10, <2>1, <2>2, <1>8, <1>9, <1>1 DEF GoodChunk, Lopsided, ChunkWellFormed, new
<1>11. CASE chunk # <<>>
  <2>1. 1 \in DOMAIN chunk /\ new # <<>>
    BY <1>11, <1>2, <1>5
  <2>2. Chunk_size(chunk) = Segment_size(chunk[1]) /\ Chunk_size(new) = Segment_size(new[1])
    BY <1>11, <2>1 DEF Chunk_size
  <2>3. ASSUME NEW i \in DOMAIN chunk PROVE Segment_size(new[i]) <= Segment_size(new[1])
    <3>1. Segment_size(chunk[i]) <= Segment_size(chunk[1])
      BY <1>1, <1>2, <2>1, <2>2 DEF Lopsided
    <3>2. Added(i) => Added(1)
      BY <1>4
    <3>3. QED
      BY <3>1, <3>2, <1>2, <1>7, <2>1
  <2>4. ~Lopsided(new)
    <3>1. \A i \in DOMAIN chunk : Segment_size(new[i]) \in Nat
      BY <1>7, SegmentSizeType
    <3>2. QED
      BY <3>1, <2>1, <2>2, <2>3, <1>5 DEF Lopsided
  <2>5. ChunkWellFormed(new)
    BY <1>5, <1>7 DEF ChunkWellFormed
  <2>6. Chunk_size(new) \in {Chunk_size(chunk), Chunk_size(chunk) + 1}
    BY <2>1, <2>2, <1>7, <1>2
  <2>7. QED
    BY <2>4, <2>5, <2>6, <1>8, <1>9 DEF GoodChunk, new
<1>12. QED
  BY <1>10, <1>11

\* Chunk::add_segment with an empty segment, as add_column calls it.
LEMMA AddSegmentKeeps ==
    ASSUME NEW chunk, GoodChunk(chunk), NEW type \in DataTypes
    PROVE  LET new == Append(chunk, EmptyValueSegment(type))
           IN  /\ GoodChunk(new) /\ KeepsEntries(chunk, new)
               /\ Chunk_size(new) = Chunk_size(chunk)
<1> DEFINE e == EmptyValueSegment(type)
           new == Append(chunk, e)
<1>1. chunk \in Chunk /\ ~Lopsided(chunk) /\ ChunkWellFormed(chunk)
  BY DEF GoodChunk
<1>2. /\ Len(chunk) \in Nat /\ DOMAIN chunk = 1..Len(chunk)
      /\ \A i \in DOMAIN chunk : chunk[i] \in Segment /\ Segment_size(chunk[i]) \in Nat
      /\ chunk = <<>> <=> Len(chunk) = 0
      /\ Chunk_size(chunk) \in Nat
      /\ chunk # <<>> => 1 \in DOMAIN chunk /\ Chunk_size(chunk) = Segment_size(chunk[1])
  BY <1>1, ChunkFacts
<1>3. e \in Segment /\ Segment_size(e) = 0 /\ WellFormed(e)
  BY EmptySegmentFacts
<1> HIDE DEF e
<1>4. /\ new \in Chunk /\ Len(new) = Len(chunk) + 1 /\ DOMAIN new = 1..(Len(chunk) + 1)
      /\ \A i \in 1..Len(chunk) : new[i] = chunk[i]
      /\ new[Len(chunk) + 1] = e
  BY <1>1, <1>3 DEF Chunk
<1> HIDE DEF new
<1>5. new # <<>> /\ Chunk_size(new) = Segment_size(new[1])
  <2>1. Len(new) # 0
    BY <1>2, <1>4
  <2>2. QED
    BY <2>1, <1>4, ChunkFacts
<1>6. Chunk_size(new) = Chunk_size(chunk)
  <2>1. CASE chunk = <<>>
    BY <2>1, <1>2, <1>3, <1>4, <1>5 DEF Chunk_size
  <2>2. CASE chunk # <<>>
    BY <2>2, <1>2, <1>4, <1>5
  <2>3. QED
    BY <2>1, <2>2
<1>7. ~Lopsided(new)
  <2>1. ASSUME NEW i \in DOMAIN new PROVE Segment_size(new[i]) <= Chunk_size(new)
    <3>1. CASE i = Len(chunk) + 1
      BY <3>1, <1>2, <1>3, <1>4, <1>6
    <3>2. CASE i \in 1..Len(chunk)
      BY <3>2, <1>1, <1>2, <1>4, <1>6 DEF Lopsided
    <3>3. QED
      BY <3>1, <3>2, <1>2, <1>4
  <2>2. \A i \in DOMAIN new : Segment_size(new[i]) \in Nat /\ Chunk_size(new) \in Nat
    BY <1>4, ChunkFacts
  <2>3. QED
    BY <2>1, <2>2 DEF Lopsided
<1>8. ChunkWellFormed(new)
  BY <1>1, <1>2, <1>3, <1>4 DEF ChunkWellFormed
<1>9. KeepsEntries(chunk, new)
  BY <1>2, <1>4 DEF KeepsEntries
<1>10. QED
  BY <1>4, <1>6, <1>7, <1>8, <1>9 DEF GoodChunk, new, e

\* compress_chunk builds a good chunk of the same size with the same entries.
LEMMA CompressedChunkKeeps ==
    ASSUME NEW chunk, GoodChunk(chunk),
           \A i \in DOMAIN chunk : chunk[i].kind = "value",
           ~TooLargeToCompress(chunk)
    PROVE  LET new == CompressedChunk(chunk)
           IN  /\ GoodChunk(new) /\ KeepsEntries(chunk, new)
               /\ Chunk_size(new) = Chunk_size(chunk)
<1> DEFINE new == CompressedChunk(chunk)
<1>1. chunk \in Chunk /\ ~Lopsided(chunk)
  BY DEF GoodChunk
<1>2. /\ Len(chunk) \in Nat /\ DOMAIN chunk = 1..Len(chunk)
      /\ \A i \in DOMAIN chunk : chunk[i] \in Segment /\ Segment_size(chunk[i]) \in Nat
  BY <1>1, ChunkFacts
<1>3. \A i \in DOMAIN chunk : chunk[i] \in ValueSegment
  BY <1>2 DEF Segment, DictionarySegment
<1>4. \A i \in DOMAIN chunk : ~DictionaryTooLarge(chunk[i].values)
  BY DEF TooLargeToCompress
<1>5. DOMAIN new = DOMAIN chunk /\ \A i \in DOMAIN chunk : new[i] = CompressedSegment(chunk[i])
  BY DEF CompressedChunk
<1>6. ASSUME NEW i \in DOMAIN chunk
      PROVE  /\ new[i] \in Segment /\ WellFormed(new[i])
             /\ Segment_size(new[i]) = Segment_size(chunk[i])
             /\ \A k \in 1..Segment_size(chunk[i]) : Entry(new[i], k) = Entry(chunk[i], k)
  BY <1>3, <1>4, <1>5, CompressionIsLossless DEF Segment
<1>7. new \in Chunk
  <2>1. new \in [1..Len(chunk) -> Segment]
    <3>1. new = [i \in DOMAIN chunk |-> new[i]]
      BY DEF CompressedChunk
    <3>2. QED
      BY <3>1, <1>2, <1>6
  <2>2. QED
    BY <2>1, <1>2 DEF Chunk
<1> HIDE DEF new
<1>8. Chunk_size(new) = Chunk_size(chunk)
  <2>1. CASE chunk = <<>>
    <3>1. new = <<>>
      BY <2>1, <1>2, <1>5, <1>7 DEF Chunk
    <3>2. QED
      BY <2>1, <3>1
  <2>2. CASE chunk # <<>>
    <3>1. 1 \in DOMAIN chunk /\ new # <<>>
      BY <2>2, <1>1, <1>5, ChunkFacts
    <3>2. QED
      BY <2>2, <3>1, <1>6 DEF Chunk_size
  <2>3. QED
    BY <2>1, <2>2
<1>9. ~Lopsided(new) /\ ChunkWellFormed(new) /\ KeepsEntries(chunk, new)
  BY <1>1, <1>2, <1>5, <1>6, <1>8 DEF Lopsided, ChunkWellFormed, KeepsEntries
<1>10. QED
  BY <1>7, <1>8, <1>9 DEF GoodChunk, new

-----------------------------------------------------------------------------
(* The table *)

\* What every call maintains about the chunks the table owns or points to.
ChunksInv == /\ chunks \in Seq(Chunk) /\ chunks # <<>>
             /\ current \in 0..Len(chunks)
             /\ GoodChunk(detached)
             /\ \A c \in DOMAIN chunks : GoodChunk(chunks[c])

\* The shape of a table, and the chunk that append fills.
LEMMA ChunksFacts ==
    ASSUME ChunksInv
    PROVE  /\ Len(chunks) \in Nat /\ Len(chunks) >= 1 /\ DOMAIN chunks = 1..Len(chunks)
           /\ current \in Nat /\ (current # 0 => current \in DOMAIN chunks)
           /\ GoodChunk(CurrentChunk) /\ CurrentChunk \in Chunk
           /\ \A c \in DOMAIN chunks : chunks[c] \in Chunk /\ Chunk_size(chunks[c]) \in Nat
<1>1. Len(chunks) \in Nat /\ Len(chunks) >= 1 /\ DOMAIN chunks = 1..Len(chunks)
  BY DEF ChunksInv
<1>2. current \in Nat /\ (current # 0 => current \in DOMAIN chunks)
  BY <1>1 DEF ChunksInv
<1>3. GoodChunk(CurrentChunk)
  BY <1>2 DEF ChunksInv, CurrentChunk
<1>4. \A c \in DOMAIN chunks : chunks[c] \in Chunk
  BY DEF ChunksInv, GoodChunk
<1>5. QED
  BY <1>1, <1>2, <1>3, <1>4, ChunkFacts DEF GoodChunk

\* Nothing happens to the entries of a chunk that stays the same.
LEMMA SameChunkKeeps ==
    ASSUME NEW chunk, GoodChunk(chunk)
    PROVE  KeepsEntries(chunk, chunk)
<1>1. \A i \in DOMAIN chunk : Segment_size(chunk[i]) \in Nat
  BY ChunkFacts DEF GoodChunk
<1>2. QED
  BY <1>1 DEF KeepsEntries

\* Calls that touch no chunk.
LEMMA NoChunkChanges ==
    ASSUME ChunksInv, UNCHANGED <<chunks, current, detached>>
    PROVE  ChunksInv' /\ EntriesAreKept
<1>1. ChunksInv'
  BY DEF ChunksInv
<1>2. EntriesAreKept
  BY SameChunkKeeps DEF ChunksInv, EntriesAreKept
<1>3. QED
  BY <1>1, <1>2

\* A change of the chunk _current_chunk points to that keeps its entries.
LEMMA UpdateKeeps ==
    ASSUME ChunksInv, NEW new, UpdateCurrentChunk(new),
           GoodChunk(new), KeepsEntries(CurrentChunk, new)
    PROVE  ChunksInv' /\ EntriesAreKept
<1> USE ChunksFacts
<1>0. new \in Chunk
  BY DEF GoodChunk
<1>1. CASE current = 0
  <2>1. detached' = new /\ chunks' = chunks /\ current' = current
    BY <1>1 DEF UpdateCurrentChunk
  <2>2. ChunksInv'
    BY <2>1 DEF ChunksInv
  <2>3. EntriesAreKept
    BY <2>1, SameChunkKeeps DEF EntriesAreKept, ChunksInv
  <2>4. QED
    BY <2>2, <2>3
<1>2. CASE current # 0
  <2>1. chunks' = [chunks EXCEPT ![current] = new] /\ current' = current /\ detached' = detached
    BY <1>2 DEF UpdateCurrentChunk
  <2>2. /\ chunks' \in Seq(Chunk) /\ Len(chunks') = Len(chunks) /\ DOMAIN chunks' = DOMAIN chunks
        /\ chunks'[current] = new
        /\ \A c \in DOMAIN chunks : c # current => chunks'[c] = chunks[c]
    BY <2>1, <1>0, <1>2 DEF ChunksInv
  <2>3. \A c \in DOMAIN chunks : GoodChunk(chunks'[c]) /\ KeepsEntries(chunks[c], chunks'[c])
    BY <2>2, <1>2, SameChunkKeeps DEF ChunksInv, CurrentChunk
  <2>4. ChunksInv'
    BY <2>1, <2>2, <2>3 DEF ChunksInv
  <2>5. QED
    BY <2>2, <2>3, <2>4 DEF EntriesAreKept
<1>3. QED
  BY <1>1, <1>2

\* The empty chunk is good.
LEMMA NoSegmentsIsGood == GoodChunk(<<>>) /\ Chunk_size(<<>>) = 0
BY DEF GoodChunk, Chunk, Lopsided, ChunkWellFormed, Chunk_size

\* A chunk that is pushed to _chunks and becomes the current chunk.
LEMMA PushKeeps ==
    ASSUME ChunksInv, NEW new, GoodChunk(new), PushChunk(new)
    PROVE  ChunksInv' /\ EntriesAreKept
<1> USE ChunksFacts
<1>0. new \in Chunk
  BY DEF GoodChunk
<1>1. chunks' = Append(chunks, new) /\ current' = Len(chunks) + 1 /\ detached' = <<>>
  BY DEF PushChunk
<1>2. /\ chunks' \in Seq(Chunk) /\ Len(chunks') = Len(chunks) + 1
      /\ DOMAIN chunks' = 1..(Len(chunks) + 1)
      /\ chunks'[Len(chunks) + 1] = new
      /\ \A c \in DOMAIN chunks : chunks'[c] = chunks[c]
  BY <1>0, <1>1 DEF ChunksInv
<1>3. \A c \in DOMAIN chunks' : GoodChunk(chunks'[c])
  BY <1>2 DEF ChunksInv
<1>4. ChunksInv'
  BY <1>1, <1>2, <1>3, NoSegmentsIsGood DEF ChunksInv
<1>5. \A c \in DOMAIN chunks : c \in DOMAIN chunks' /\ KeepsEntries(chunks[c], chunks'[c])
  BY <1>2, SameChunkKeeps DEF ChunksInv
<1>6. QED
  BY <1>4, <1>5 DEF EntriesAreKept

\* Some column has the first unknown type, and create_new_chunk stops there.
LEMMA UnfinishedChunkIsGood ==
    ASSUME column_types \in Seq(TypeStrings), ~AllTypesKnown
    PROVE  GoodChunk(UnfinishedChunk) /\ Chunk_size(UnfinishedChunk) = 0
<1> DEFINE U == {i \in DOMAIN column_types : column_types[i] \notin DataTypes}
           IsFirst(i) == /\ column_types[i] \notin DataTypes
                         /\ \A j \in 1..(i - 1) : column_types[j] \in DataTypes
           m == CHOOSE i \in DOMAIN column_types : IsFirst(i)
<1>1. DOMAIN column_types = 1..Len(column_types) /\ Len(column_types) \in Nat
  OBVIOUS
<1>2. U \in SUBSET Int /\ IsFiniteSet(U) /\ U # {}
  <2>1. U # {}
    BY DEF AllTypesKnown
  <2>2. IsFiniteSet(1..Len(column_types))
    BY <1>1, FS_Interval
  <2>3. IsFiniteSet(U)
    BY <1>1, <2>2, FS_Subset
  <2>4. QED
    BY <1>1, <2>1, <2>3
<1>3. Cardinality(U) \in Nat /\ Cardinality(U) # 0
  BY <1>2, FS_EmptySet, FS_CardinalityType
<1>4. PICK v \in U : Rank(U, v) = 0
  <2> HIDE DEF U
  <2>1. 1 \in 1..Cardinality(U)
    BY <1>3
  <2>2. \E v \in U : Rank(U, v) = 1 - 1
    BY <1>2, <2>1, RankIsOnto
  <2>3. QED
    BY <2>2
<1>5. {w \in U : w < v} = {}
  <2>1. IsFiniteSet({w \in U : w < v})
    BY <1>2, FS_Subset
  <2>2. QED
    BY <1>4, <2>1, FS_EmptySet DEF Rank
<1>6. v \in DOMAIN column_types /\ IsFirst(v)
  <2>1. \A j \in 1..(v - 1) : j \in DOMAIN column_types /\ j < v
    BY <1>1
  <2>2. QED
    BY <2>1, <1>5
<1>7. m \in DOMAIN column_types /\ IsFirst(m)
  BY <1>6
<1>8. UnfinishedChunk = [i \in 1..(m - 1) |-> EmptyValueSegment(column_types[i])]
  BY DEF UnfinishedChunk
<1> HIDE DEF m
<1> DEFINE types == [i \in 1..(m - 1) |-> column_types[i]]
<1>9. m - 1 \in Nat /\ types \in [1..(m - 1) -> DataTypes]
  BY <1>1, <1>7
<1>10. UnfinishedChunk = [i \in 1..(m - 1) |-> EmptyValueSegment(types[i])]
  BY <1>8
<1> HIDE DEF types
<1>11. QED
  BY <1>9, <1>10, EmptyChunkIsGood

\* The chunk create_new_chunk builds when it knows every type.
LEMMA NewChunkIsGood ==
    ASSUME column_types \in Seq(TypeStrings), AllTypesKnown
    PROVE  GoodChunk(NewChunk) /\ Chunk_size(NewChunk) = 0
<1>1. Len(column_types) \in Nat /\ DOMAIN column_types = 1..Len(column_types)
      /\ column_types \in [1..Len(column_types) -> DataTypes]
  BY DEF AllTypesKnown
<1>2. QED
  BY <1>1, EmptyChunkIsGood DEF NewChunk

\* create_new_chunk that throws leaves _chunks alone.
LEMMA FailToCreateKeeps ==
    ASSUME ChunksInv, column_types \in Seq(TypeStrings), ~AllTypesKnown, FailToCreateChunk
    PROVE  ChunksInv' /\ EntriesAreKept
<1> USE ChunksFacts
<1>1. current' = 0 /\ detached' = UnfinishedChunk /\ chunks' = chunks
  BY DEF FailToCreateChunk
<1>2. ChunksInv'
  BY <1>1, UnfinishedChunkIsGood DEF ChunksInv
<1>3. QED
  BY <1>1, <1>2, SameChunkKeeps DEF EntriesAreKept, ChunksInv

\* The inductive invariant: TypeOK, and every chunk is good.
IInv == TypeOK /\ ChunksInv

\* compress_chunk that returns keeps the entries of every chunk.
LEMMA CompressKeeps ==
    ASSUME ChunksInv, NEW c \in DOMAIN chunks, Compressible(chunks[c]),
           ~TooLargeToCompress(chunks[c]),
           chunks' = [chunks EXCEPT ![c] = CompressedChunk(chunks[c])],
           \/ current = c /\ current' = 0 /\ detached' = chunks[c]
           \/ current # c /\ UNCHANGED <<current, detached>>
    PROVE  /\ ChunksInv' /\ EntriesAreKept
           /\ Len(chunks') = Len(chunks) /\ DOMAIN chunks' = DOMAIN chunks
           /\ \A d \in DOMAIN chunks : Chunk_size(chunks'[d]) = Chunk_size(chunks[d])
<1> DEFINE new == CompressedChunk(chunks[c])
<1> USE ChunksFacts
<1>1. \A i \in DOMAIN chunks[c] : chunks[c][i].kind = "value"
  BY DEF Compressible
<1>2. /\ GoodChunk(new) /\ KeepsEntries(chunks[c], new)
      /\ Chunk_size(new) = Chunk_size(chunks[c])
  BY <1>1, CompressedChunkKeeps DEF ChunksInv
<1> HIDE DEF new
<1>3. new \in Chunk
  BY <1>2 DEF GoodChunk
<1>4. /\ chunks' \in Seq(Chunk) /\ Len(chunks') = Len(chunks) /\ DOMAIN chunks' = DOMAIN chunks
      /\ chunks'[c] = new
      /\ \A d \in DOMAIN chunks : d # c => chunks'[d] = chunks[d]
  BY <1>3 DEF ChunksInv, new
<1>5. \A d \in DOMAIN chunks : GoodChunk(chunks'[d]) /\ KeepsEntries(chunks[d], chunks'[d])
  BY <1>2, <1>4, SameChunkKeeps DEF ChunksInv
<1>6. current' \in 0..Len(chunks') /\ GoodChunk(detached') /\ chunks' # <<>>
  BY <1>4 DEF ChunksInv
<1>7. ChunksInv'
  BY <1>4, <1>5, <1>6 DEF ChunksInv
<1>8. QED
  BY <1>2, <1>4, <1>5, <1>7 DEF EntriesAreKept

\* An emplaced chunk is good.
LEMMA EmplacedIsGood ==
    ASSUME NEW chunk \in EmplacedChunks
    PROVE  GoodChunk(chunk)
<1>1. chunk \in Chunk /\ \A i \in DOMAIN chunk : WellFormed(chunk[i])
      /\ Segment_size(chunk[i]) = Chunk_size(chunk)
  BY EmplacedChunksAssumption
<1>2. Chunk_size(chunk) \in Nat
  BY <1>1, ChunkFacts
<1>3. QED
  BY <1>1, <1>2 DEF GoodChunk, Lopsided, ChunkWellFormed

\* A table without rows has no entries at all, because no segment is longer than the
\* first one of its chunk: replacing its first chunk loses nothing.
LEMMA ReplaceFirstKeeps ==
    ASSUME ChunksInv, HasNoRows, NEW new, GoodChunk(new),
           chunks' = [chunks EXCEPT ![1] = new], current' = 1, detached' = <<>>
    PROVE  ChunksInv' /\ EntriesAreKept
<1> USE ChunksFacts
<1>0. new \in Chunk /\ 1 \in DOMAIN chunks
  BY DEF GoodChunk
<1>1. /\ chunks' \in Seq(Chunk) /\ Len(chunks') = Len(chunks) /\ DOMAIN chunks' = DOMAIN chunks
      /\ chunks'[1] = new
      /\ \A d \in DOMAIN chunks : d # 1 => chunks'[d] = chunks[d]
  BY <1>0 DEF ChunksInv
<1>2. \A d \in DOMAIN chunks : GoodChunk(chunks'[d])
  BY <1>1 DEF ChunksInv
<1>3. ChunksInv'
  BY <1>1, <1>2, NoSegmentsIsGood DEF ChunksInv
<1>4. KeepsEntries(chunks[1], new)
  <2>1. Chunk_size(chunks[1]) = 0 /\ ~Lopsided(chunks[1]) /\ chunks[1] \in Chunk
    BY <1>0 DEF HasNoRows, ChunksInv, GoodChunk
  <2>2. \A i \in DOMAIN chunks[1] : Segment_size(chunks[1][i]) = 0
    BY <2>1, ChunkFacts DEF Lopsided
  <2>3. QED
    BY <2>2 DEF KeepsEntries
<1>5. QED
  BY <1>1, <1>3, <1>4, SameChunkKeeps DEF EntriesAreKept, ChunksInv

-----------------------------------------------------------------------------
(* One step of the table *)

\* How a call that is not append reports its outcome.
LEMMA OutcomeType ==
    ASSUME NEW call \in Calls, Returns(call) \/ Fails(call)
    PROVE  last' \in [call : Calls, outcome : {"ok", "throws"}, row : Seq(AllTypeVariant)]
<1> DEFINE none == <<>>
<1>1. none \in Seq(AllTypeVariant)
  OBVIOUS
<1>2. \/ last' = [call |-> call, outcome |-> "ok", row |-> none]
      \/ last' = [call |-> call, outcome |-> "throws", row |-> none]
  BY DEF Returns, Fails
<1> HIDE DEF none
<1>3. QED
  BY <1>1, <1>2

\* add_column_definition and add_column
LEMMA ColumnSteps ==
    ASSUME IInv, NEW type \in TypeStrings, add_column_definition(type) \/ add_column(type)
    PROVE  IInv' /\ EntriesAreKept
<1>1. ChunksInv' /\ EntriesAreKept
  <2>1. CASE UNCHANGED <<chunks, current, detached>>
    BY <2>1, NoChunkChanges DEF IInv
  <2>2. CASE /\ type \in DataTypes
             /\ UpdateCurrentChunk(Append(CurrentChunk, EmptyValueSegment(type)))
    <3>1. GoodChunk(CurrentChunk)
      BY ChunksFacts DEF IInv
    <3>2. /\ GoodChunk(Append(CurrentChunk, EmptyValueSegment(type)))
          /\ KeepsEntries(CurrentChunk, Append(CurrentChunk, EmptyValueSegment(type)))
      BY <2>2, <3>1, AddSegmentKeeps
    <3>3. QED
      BY <2>2, <3>2, UpdateKeeps DEF IInv
  <2>3. QED
    BY <2>1, <2>2 DEF add_column_definition, add_column
<1>2. column_types' \in Seq(TypeStrings)
  <2>1. column_types' = column_types \/ column_types' = Append(column_types, type)
    BY DEF add_column_definition, add_column
  <2>2. column_types \in Seq(TypeStrings)
    BY DEF IInv, TypeOK
  <2>3. QED
    BY <2>1, <2>2
<1>3. last' \in [call : Calls, outcome : {"ok", "throws"}, row : Seq(AllTypeVariant)]
  <2>1. Returns("add_column_definition") \/ Fails("add_column_definition")
        \/ Returns("add_column") \/ Fails("add_column")
    BY DEF add_column_definition, add_column
  <2>2. QED
    BY <2>1, OutcomeType DEF Calls
<1>4. QED
  BY <1>1, <1>2, <1>3 DEF IInv, TypeOK, ChunksInv, GoodChunk

\* create_new_chunk
LEMMA CreateStep ==
    ASSUME IInv, create_new_chunk
    PROVE  IInv' /\ EntriesAreKept
<1>1. column_types \in Seq(TypeStrings) /\ column_types' = column_types
  BY DEF IInv, TypeOK, create_new_chunk
<1>2. ChunksInv' /\ EntriesAreKept
  <2>1. CASE AllTypesKnown
    BY <2>1, <1>1, NewChunkIsGood, PushKeeps DEF IInv, create_new_chunk
  <2>2. CASE ~AllTypesKnown
    BY <2>2, <1>1, FailToCreateKeeps DEF IInv, create_new_chunk
  <2>3. QED
    BY <2>1, <2>2
<1>3. last' \in [call : Calls, outcome : {"ok", "throws"}, row : Seq(AllTypeVariant)]
  <2>1. Returns("create_new_chunk") \/ Fails("create_new_chunk")
    BY DEF create_new_chunk
  <2>2. QED
    BY <2>1, OutcomeType DEF Calls
<1>4. QED
  BY <1>1, <1>2, <1>3 DEF IInv, TypeOK, ChunksInv, GoodChunk

\* append, in the current chunk, in a new one, or with a new one that cannot be created
LEMMA AppendStep ==
    ASSUME IInv, NEW values \in Rows, append(values)
    PROVE  IInv' /\ EntriesAreKept
<1>1. column_types \in Seq(TypeStrings) /\ column_types' = column_types
  BY DEF IInv, TypeOK, append
<1>2. values \in Seq(AllTypeVariant)
  BY RowsAssumption
<1>3. ChunksInv' /\ EntriesAreKept
  <2>1. CASE /\ DefinedAppend(CurrentChunk, values)
             /\ UpdateCurrentChunk(Chunk_append(CurrentChunk, values))
    <3>1. GoodChunk(CurrentChunk)
      BY ChunksFacts DEF IInv
    <3>2. /\ GoodChunk(Chunk_append(CurrentChunk, values))
          /\ KeepsEntries(CurrentChunk, Chunk_append(CurrentChunk, values))
      BY <2>1, <3>1, <1>2, ChunkAppendKeeps
    <3>3. QED
      BY <2>1, <3>2, UpdateKeeps DEF IInv
  <2>2. CASE /\ AllTypesKnown
             /\ DefinedAppend(NewChunk, values)
             /\ PushChunk(Chunk_append(NewChunk, values))
    <3>1. GoodChunk(NewChunk)
      BY <2>2, <1>1, NewChunkIsGood
    <3>2. GoodChunk(Chunk_append(NewChunk, values))
      BY <2>2, <3>1, <1>2, ChunkAppendKeeps
    <3>3. QED
      BY <2>2, <3>2, PushKeeps DEF IInv
  <2>3. CASE ~AllTypesKnown /\ FailToCreateChunk
    BY <2>3, <1>1, FailToCreateKeeps DEF IInv
  <2>4. QED
    BY <2>1, <2>2, <2>3 DEF append
<1>4. last' \in [call : Calls, outcome : {"ok", "throws"}, row : Seq(AllTypeVariant)]
  <2>1. Fails("append") \/ last' = [call |-> "append", outcome |-> "ok", row |-> values]
    BY DEF append, AppendOutcome
  <2>2. "append" \in Calls
    BY DEF Calls
  <2>3. QED
    BY <2>1, <2>2, <1>2, OutcomeType
<1>5. QED
  BY <1>1, <1>3, <1>4 DEF IInv, TypeOK, ChunksInv, GoodChunk

\* emplace_chunk
LEMMA EmplaceStep ==
    ASSUME IInv, NEW chunk \in EmplacedChunks, emplace_chunk(chunk)
    PROVE  IInv' /\ EntriesAreKept
<1>1. column_types \in Seq(TypeStrings) /\ column_types' = column_types
  BY DEF IInv, TypeOK, emplace_chunk
<1>2. GoodChunk(chunk)
  BY EmplacedIsGood
<1>3. ChunksInv' /\ EntriesAreKept
  <2>1. CASE /\ HasNoRows /\ chunks' = [chunks EXCEPT ![1] = chunk]
             /\ current' = 1 /\ detached' = <<>>
    BY <2>1, <1>2, ReplaceFirstKeeps DEF IInv
  <2>2. CASE PushChunk(chunk)
    BY <2>2, <1>2, PushKeeps DEF IInv
  <2>3. CASE UNCHANGED <<chunks, current, detached>>
    BY <2>3, NoChunkChanges DEF IInv
  <2>4. QED
    BY <2>1, <2>2, <2>3 DEF emplace_chunk
<1>4. last' \in [call : Calls, outcome : {"ok", "throws"}, row : Seq(AllTypeVariant)]
  <2>1. Returns("emplace_chunk") \/ Fails("emplace_chunk")
    BY DEF emplace_chunk
  <2>2. QED
    BY <2>1, OutcomeType DEF Calls
<1>5. QED
  BY <1>1, <1>3, <1>4 DEF IInv, TypeOK, ChunksInv, GoodChunk

\* compress_chunk
LEMMA CompressStep ==
    ASSUME IInv, NEW chunk_id, compress_chunk(chunk_id)
    PROVE  IInv' /\ EntriesAreKept
<1>1. column_types \in Seq(TypeStrings) /\ column_types' = column_types
  BY DEF IInv, TypeOK, compress_chunk
<1>2. ChunksInv' /\ EntriesAreKept
  <2>1. CASE UNCHANGED <<chunks, current, detached>>
    BY <2>1, NoChunkChanges DEF IInv
  <2>2. CASE /\ chunk_id \in DOMAIN chunks
             /\ Compressible(chunks[chunk_id])
             /\ ~TooLargeToCompress(chunks[chunk_id])
             /\ chunks' = [chunks EXCEPT ![chunk_id] = CompressedChunk(chunks[chunk_id])]
             /\ \/ current = chunk_id /\ current' = 0 /\ detached' = chunks[chunk_id]
                \/ current # chunk_id /\ UNCHANGED <<current, detached>>
    BY <2>2, CompressKeeps DEF IInv
  <2>3. QED
    BY <2>1, <2>2 DEF compress_chunk
<1>3. last' \in [call : Calls, outcome : {"ok", "throws"}, row : Seq(AllTypeVariant)]
  <2>1. Returns("compress_chunk") \/ Fails("compress_chunk")
    BY DEF compress_chunk
  <2>2. QED
    BY <2>1, OutcomeType DEF Calls
<1>4. QED
  BY <1>1, <1>2, <1>3 DEF IInv, TypeOK, ChunksInv, GoodChunk

\* The initial state.
LEMMA InitIInv == Init => IInv
<1> SUFFICES ASSUME Init PROVE IInv
  OBVIOUS
<1>1. chunks = << <<>> >> /\ Len(chunks) = 1 /\ DOMAIN chunks = 1..1 /\ chunks[1] = <<>>
  BY DEF Init
<1>2. <<>> \in Chunk
  BY DEF Chunk
<1>3. chunks \in Seq(Chunk)
  BY <1>1, <1>2
<1>4. ChunksInv
  BY <1>1, <1>3, NoSegmentsIsGood DEF Init, ChunksInv
<1>5. TypeOK
  BY <1>2, <1>4 DEF Init, TypeOK, ChunksInv, Calls
<1>6. QED
  BY <1>4, <1>5 DEF IInv

\* Every step maintains the invariant and keeps the entries.
LEMMA NextIInv == IInv /\ [Next]_vars => IInv' /\ (EntriesAreKept \/ UNCHANGED vars)
<1> SUFFICES ASSUME IInv, [Next]_vars PROVE IInv' /\ (EntriesAreKept \/ UNCHANGED vars)
  OBVIOUS
<1>1. CASE \E type \in TypeStrings : add_column_definition(type) \/ add_column(type)
  BY <1>1, ColumnSteps
<1>2. CASE create_new_chunk
  BY <1>2, CreateStep
<1>3. CASE \E values \in Rows : append(values)
  BY <1>3, AppendStep
<1>4. CASE \E chunk \in EmplacedChunks : emplace_chunk(chunk)
  BY <1>4, EmplaceStep
<1>5. CASE \E chunk_id \in 1..(MaxChunks + 1) : compress_chunk(chunk_id)
  BY <1>5, CompressStep
<1>6. CASE UNCHANGED vars
  BY <1>6 DEF IInv, TypeOK, ChunksInv, vars
<1>7. QED
  BY <1>1, <1>2, <1>3, <1>4, <1>5, <1>6 DEF Next

\* Every state of a table satisfies the inductive invariant.
THEOREM TableInvariant == Spec => []IInv
BY InitIInv, NextIInv, PTL DEF Spec

\* Every state of a table is well typed, whatever calls fail.
THEOREM TableTypeOK == Spec => []TypeOK
<1>1. IInv => TypeOK
  BY DEF IInv
<1>2. QED
  BY <1>1, TableInvariant, PTL

\* Chunk::size, which looks at the first segment only, is the length of the longest
\* segment of every chunk, torn rows included.
THEOREM TableFirstSegmentIsLongest == Spec => []FirstSegmentIsLongest
<1>1. IInv => FirstSegmentIsLongest
  BY DEF IInv, ChunksInv, GoodChunk, FirstSegmentIsLongest
<1>2. QED
  BY <1>1, TableInvariant, PTL

\* No read of a stored position of a compressed column leaves the dictionary.
THEOREM TableValueIdsInDictionary == Spec => []ValueIdsInDictionary
<1>1. IInv => ValueIdsInDictionary
  BY DEF IInv, ChunksInv, GoodChunk, ValueIdsInDictionary
<1>2. QED
  BY <1>1, TableInvariant, PTL

\* No call moves, changes or removes an entry of the table, in either build: a RowID that
\* is valid stays valid and denotes the same value across appends, failures, compression.
THEOREM TableStableEntries == Spec => StableEntries
<1>1. IInv /\ [Next]_vars => [EntriesAreKept]_vars
  BY NextIInv
<1>2. QED
  BY <1>1, TableInvariant, PTL DEF Spec, StableEntries

-----------------------------------------------------------------------------
(* Sizes.  How each way of changing the table changes Chunk::size, in terms   *)
(* of which the remaining invariants are stated.                              *)

\* Only the chunk _current_chunk points to changes.
LEMMA UpdateSizes ==
    ASSUME ChunksInv, NEW new, UpdateCurrentChunk(new)
    PROVE  /\ current' = current /\ DOMAIN chunks' = DOMAIN chunks /\ CurrentChunk' = new
           /\ \A c \in DOMAIN chunks : c # current => chunks'[c] = chunks[c]
           /\ current # 0 => chunks'[current] = new
           /\ current = 0 => detached' = new
<1> USE ChunksFacts
<1>1. CASE current = 0
  BY <1>1 DEF UpdateCurrentChunk, CurrentChunk
<1>2. CASE current # 0
  <2>1. chunks' = [chunks EXCEPT ![current] = new] /\ current' = current
    BY <1>2 DEF UpdateCurrentChunk
  <2>2. QED
    BY <1>2, <2>1 DEF CurrentChunk
<1>3. QED
  BY <1>1, <1>2

\* The other chunks stay where they are, and the pushed chunk is the last one.
LEMMA PushSizes ==
    ASSUME ChunksInv, NEW new, PushChunk(new)
    PROVE  /\ current' = Len(chunks) + 1 /\ current' # 0
           /\ DOMAIN chunks' = 1..(Len(chunks) + 1) /\ CurrentChunk' = new
           /\ \A c \in DOMAIN chunks : chunks'[c] = chunks[c]
           /\ chunks'[Len(chunks) + 1] = new
<1> USE ChunksFacts
<1>1. chunks' = Append(chunks, new) /\ current' = Len(chunks) + 1
  BY DEF PushChunk
<1>2. QED
  BY <1>1 DEF CurrentChunk, ChunksInv

\* No chunk of the table, and not the chunk append fills, exceeds the chunk size.
SizeInv == Chunk_size(CurrentChunk) <= ChunkSize /\ ChunkSizeRespected

\* The chunk sizes after a step.
LEMMA SizeStep ==
    ASSUME IsDebug, ChunkSize # 0, IInv, SizeInv, [Next]_vars
    PROVE  SizeInv'
<1> USE ChunksFacts
<1>0. /\ ChunksInv /\ column_types \in Seq(TypeStrings) /\ ChunkSize \in Nat /\ ChunkSize >= 1
      /\ GoodChunk(CurrentChunk) /\ Chunk_size(CurrentChunk) \in Nat
      /\ Chunk_size(CurrentChunk) <= ChunkSize
      /\ \A c \in DOMAIN chunks : Chunk_size(chunks[c]) <= ChunkSize
  BY ChunkSizeAssumption, WidthAssumption, ChunkFacts
     DEF IInv, TypeOK, SizeInv, ChunkSizeRespected
<1>1. ASSUME UNCHANGED <<chunks, current, detached>> PROVE SizeInv'
  BY <1>0, <1>1 DEF SizeInv, ChunkSizeRespected, CurrentChunk
<1>2. ASSUME NEW new, UpdateCurrentChunk(new), Chunk_size(new) <= ChunkSize PROVE SizeInv'
  <2>1. /\ current' = current /\ DOMAIN chunks' = DOMAIN chunks /\ CurrentChunk' = new
        /\ \A c \in DOMAIN chunks : c # current => chunks'[c] = chunks[c]
        /\ current # 0 => chunks'[current] = new
    BY <1>0, <1>2, UpdateSizes
  <2>2. \A c \in DOMAIN chunks' : Chunk_size(chunks'[c]) <= ChunkSize
    BY <2>1, <1>0, <1>2
  <2>3. QED
    BY <2>1, <2>2, <1>2 DEF SizeInv, ChunkSizeRespected
<1>3. ASSUME NEW new, PushChunk(new), Chunk_size(new) <= ChunkSize PROVE SizeInv'
  <2>1. /\ DOMAIN chunks' = 1..(Len(chunks) + 1) /\ CurrentChunk' = new
        /\ \A c \in DOMAIN chunks : chunks'[c] = chunks[c]
        /\ chunks'[Len(chunks) + 1] = new
    BY <1>0, <1>3, PushSizes
  <2>2. \A c \in DOMAIN chunks' : Chunk_size(chunks'[c]) <= ChunkSize
    BY <2>1, <1>0, <1>3
  <2>3. QED
    BY <2>1, <2>2, <1>3 DEF SizeInv, ChunkSizeRespected
<1>4. ASSUME FailToCreateChunk, ~AllTypesKnown PROVE SizeInv'
  <2>1. chunks' = chunks /\ CurrentChunk' = UnfinishedChunk
    BY <1>4 DEF FailToCreateChunk, CurrentChunk
  <2>2. Chunk_size(UnfinishedChunk) = 0
    BY <1>0, <1>4, UnfinishedChunkIsGood
  <2>3. QED
    BY <2>1, <2>2, <1>0 DEF SizeInv, ChunkSizeRespected
<1>5. ASSUME NEW type \in TypeStrings, add_column_definition(type) \/ add_column(type)
      PROVE  SizeInv'
  <2>1. CASE UNCHANGED <<chunks, current, detached>>
    BY <2>1, <1>1
  <2>2. CASE /\ type \in DataTypes
             /\ UpdateCurrentChunk(Append(CurrentChunk, EmptyValueSegment(type)))
    BY <2>2, <1>0, <1>2, AddSegmentKeeps
  <2>3. QED
    BY <1>5, <2>1, <2>2 DEF add_column_definition, add_column
<1>6. ASSUME create_new_chunk PROVE SizeInv'
  BY <1>0, <1>3, <1>4, <1>6, NewChunkIsGood DEF create_new_chunk
<1>7. ASSUME NEW values \in Rows, append(values) PROVE SizeInv'
  <2>0. values \in Seq(AllTypeVariant)
    BY RowsAssumption
  <2>1. CASE /\ ~is_full(CurrentChunk) /\ DefinedAppend(CurrentChunk, values)
             /\ UpdateCurrentChunk(Chunk_append(CurrentChunk, values))
    <3>1. Chunk_size(Chunk_append(CurrentChunk, values))
              \in {Chunk_size(CurrentChunk), Chunk_size(CurrentChunk) + 1}
      BY <2>0, <2>1, <1>0, ChunkAppendKeeps
    <3>2. Chunk_size(CurrentChunk) < ChunkSize
      BY <2>1, <1>0 DEF is_full
    <3>3. QED
      BY <2>1, <3>1, <3>2, <1>0, <1>2
  <2>2. CASE /\ AllTypesKnown /\ DefinedAppend(NewChunk, values)
             /\ PushChunk(Chunk_append(NewChunk, values))
    <3>1. GoodChunk(NewChunk) /\ Chunk_size(NewChunk) = 0
      BY <2>2, <1>0, NewChunkIsGood
    <3>2. Chunk_size(Chunk_append(NewChunk, values)) \in {0, 1}
      BY <2>0, <2>2, <3>1, ChunkAppendKeeps
    <3>3. QED
      BY <2>2, <3>2, <1>0, <1>3
  <2>3. CASE ~AllTypesKnown /\ FailToCreateChunk
    BY <2>3, <1>4
  <2>4. QED
    BY <1>7, <2>1, <2>2, <2>3 DEF append
<1>8. ASSUME NEW chunk \in EmplacedChunks, emplace_chunk(chunk) PROVE SizeInv'
  <2>1. CASE UNCHANGED <<chunks, current, detached>>
    BY <2>1, <1>1
  <2>2. CASE Chunk_size(chunk) <= ChunkSize /\ PushChunk(chunk)
    BY <2>2, <1>3
  <2>3. CASE /\ Chunk_size(chunk) <= ChunkSize
             /\ chunks' = [chunks EXCEPT ![1] = chunk] /\ current' = 1
    <3>1. /\ DOMAIN chunks' = DOMAIN chunks /\ chunks'[1] = chunk /\ 1 \in DOMAIN chunks
          /\ \A c \in DOMAIN chunks : c # 1 => chunks'[c] = chunks[c]
      BY <2>3, <1>0
    <3>2. CurrentChunk' = chunk
      BY <2>3, <3>1 DEF CurrentChunk
    <3>3. QED
      BY <2>3, <3>1, <3>2, <1>0 DEF SizeInv, ChunkSizeRespected
  <2>4. QED
    BY <1>8, <2>1, <2>2, <2>3 DEF emplace_chunk, DebugAssert
<1>9. ASSUME NEW chunk_id, compress_chunk(chunk_id) PROVE SizeInv'
  <2>1. CASE UNCHANGED <<chunks, current, detached>>
    BY <2>1, <1>1
  <2>2. CASE /\ chunk_id \in DOMAIN chunks
             /\ Compressible(chunks[chunk_id])
             /\ ~TooLargeToCompress(chunks[chunk_id])
             /\ chunks' = [chunks EXCEPT ![chunk_id] = CompressedChunk(chunks[chunk_id])]
             /\ \/ current = chunk_id /\ current' = 0 /\ detached' = chunks[chunk_id]
                \/ current # chunk_id /\ UNCHANGED <<current, detached>>
    <3>1. /\ DOMAIN chunks' = DOMAIN chunks
          /\ \A d \in DOMAIN chunks : Chunk_size(chunks'[d]) = Chunk_size(chunks[d])
      BY <2>2, <1>0, CompressKeeps
    <3>2. CASE current' = 0 /\ detached' = chunks[chunk_id]
      BY <3>1, <3>2, <2>2, <1>0 DEF SizeInv, ChunkSizeRespected, CurrentChunk
    <3>3. CASE UNCHANGED <<current, detached>>
      BY <3>1, <3>3, <2>2, <1>0 DEF SizeInv, ChunkSizeRespected, CurrentChunk
    <3>4. QED
      BY <3>2, <3>3, <2>2
  <2>3. QED
    BY <1>9, <2>1, <2>2 DEF compress_chunk
<1>10. CASE UNCHANGED vars
  BY <1>10, <1>1 DEF vars
<1>11. QED
  BY <1>5, <1>6, <1>7, <1>8, <1>9, <1>10 DEF Next

\* In a debug build with a chunk size of at least 1 no chunk exceeds the chunk size, torn
\* rows, failed calls and emplaced chunks included.
THEOREM TableChunkSizeRespected ==
    ASSUME IsDebug, ChunkSize # 0
    PROVE  Spec => []ChunkSizeRespected
<1>1. Init => SizeInv
  <2> SUFFICES ASSUME Init PROVE SizeInv
    OBVIOUS
  <2>1. CurrentChunk = <<>> /\ DOMAIN chunks = 1..1 /\ chunks[1] = <<>>
    BY DEF Init, CurrentChunk
  <2>2. ChunkSize \in Nat
    BY ChunkSizeAssumption, WidthAssumption
  <2>3. QED
    BY <2>1, <2>2, NoSegmentsIsGood DEF SizeInv, ChunkSizeRespected
<1>2. IInv /\ SizeInv /\ [Next]_vars => SizeInv'
  BY SizeStep
<1>3. SizeInv => ChunkSizeRespected
  BY DEF SizeInv
<1>4. QED
  BY <1>1, <1>2, <1>3, TableInvariant, PTL DEF Spec

\* The target of append after a step.
LEMMA AppendTargetStep ==
    ASSUME IsDebug, TypeStrings \subseteq DataTypes, IInv, AppendTargetInTable, [Next]_vars
    PROVE  AppendTargetInTable'
<1> USE ChunksFacts
<1>0. /\ ChunksInv /\ column_types \in Seq(TypeStrings) /\ GoodChunk(CurrentChunk)
      /\ current = 0 => is_full(detached)
      /\ current # 0 => \A c \in DOMAIN chunks : c > current => Chunk_size(chunks[c]) = 0
  BY DEF IInv, TypeOK, AppendTargetInTable
<1>a. AllTypesKnown
  BY <1>0 DEF AllTypesKnown
<1>1. ASSUME UNCHANGED <<chunks, current, detached>> PROVE AppendTargetInTable'
  BY <1>0, <1>1 DEF AppendTargetInTable, is_full
<1>2. ASSUME NEW new, UpdateCurrentChunk(new),
             current = 0 => Chunk_size(new) = Chunk_size(CurrentChunk)
      PROVE  AppendTargetInTable'
  <2>1. /\ current' = current /\ DOMAIN chunks' = DOMAIN chunks
        /\ \A c \in DOMAIN chunks : c # current => chunks'[c] = chunks[c]
        /\ current = 0 => detached' = new
    BY <1>0, <1>2, UpdateSizes
  <2>2. current' = 0 => is_full(detached')
    BY <2>1, <1>0, <1>2 DEF is_full, CurrentChunk
  <2>3. current' # 0 => \A c \in DOMAIN chunks' : c > current' => Chunk_size(chunks'[c]) = 0
    BY <2>1, <1>0
  <2>4. QED
    BY <2>2, <2>3 DEF AppendTargetInTable, is_full
<1>3. ASSUME NEW new, PushChunk(new) PROVE AppendTargetInTable'
  <2>1. current' = Len(chunks) + 1 /\ DOMAIN chunks' = 1..(Len(chunks) + 1)
    BY <1>0, <1>3, PushSizes
  <2>2. QED
    BY <2>1, <1>0 DEF AppendTargetInTable
<1>5. ASSUME NEW type \in TypeStrings, add_column_definition(type) \/ add_column(type)
      PROVE  AppendTargetInTable'
  <2>1. CASE UNCHANGED <<chunks, current, detached>>
    BY <2>1, <1>1
  <2>2. CASE /\ type \in DataTypes
             /\ UpdateCurrentChunk(Append(CurrentChunk, EmptyValueSegment(type)))
    BY <2>2, <1>0, <1>2, AddSegmentKeeps
  <2>3. QED
    BY <1>5, <2>1, <2>2 DEF add_column_definition, add_column
<1>6. ASSUME create_new_chunk PROVE AppendTargetInTable'
  BY <1>a, <1>3, <1>6 DEF create_new_chunk
<1>7. ASSUME NEW values \in Rows, append(values) PROVE AppendTargetInTable'
  <2>1. CASE /\ ~is_full(CurrentChunk)
             /\ UpdateCurrentChunk(Chunk_append(CurrentChunk, values))
    <3>1. current # 0
      BY <2>1, <1>0 DEF CurrentChunk
    <3>2. QED
      BY <2>1, <3>1, <1>2
  <2>2. CASE PushChunk(Chunk_append(NewChunk, values))
    BY <2>2, <1>3
  <2>3. QED
    BY <1>7, <1>a, <2>1, <2>2 DEF append
<1>8. ASSUME NEW chunk \in EmplacedChunks, emplace_chunk(chunk) PROVE AppendTargetInTable'
  <2>1. CASE UNCHANGED <<chunks, current, detached>>
    BY <2>1, <1>1
  <2>2. CASE PushChunk(chunk)
    BY <2>2, <1>3
  <2>3. CASE HasNoRows /\ chunks' = [chunks EXCEPT ![1] = chunk] /\ current' = 1
    BY <2>3, <1>0 DEF AppendTargetInTable, HasNoRows
  <2>4. QED
    BY <1>8, <2>1, <2>2, <2>3 DEF emplace_chunk
<1>9. ASSUME NEW chunk_id, compress_chunk(chunk_id) PROVE AppendTargetInTable'
  <2>1. CASE UNCHANGED <<chunks, current, detached>>
    BY <2>1, <1>1
  <2>2. CASE /\ chunk_id \in DOMAIN chunks
             /\ Compressible(chunks[chunk_id])
             /\ ~TooLargeToCompress(chunks[chunk_id])
             /\ chunks' = [chunks EXCEPT ![chunk_id] = CompressedChunk(chunks[chunk_id])]
             /\ \/ current = chunk_id /\ current' = 0 /\ detached' = chunks[chunk_id]
                \/ current # chunk_id /\ UNCHANGED <<current, detached>>
    <3>1. /\ DOMAIN chunks' = DOMAIN chunks
          /\ \A d \in DOMAIN chunks : Chunk_size(chunks'[d]) = Chunk_size(chunks[d])
      BY <2>2, <1>0, CompressKeeps
    <3>2. is_full(chunks[chunk_id])
      BY <2>2 DEF Compressible, DebugAssert
    <3>3. CASE current' = 0 /\ detached' = chunks[chunk_id]
      BY <3>2, <3>3 DEF AppendTargetInTable, is_full
    <3>4. CASE UNCHANGED <<current, detached>>
      BY <3>1, <3>4, <1>0 DEF AppendTargetInTable, is_full
    <3>5. QED
      BY <3>3, <3>4, <2>2
  <2>3. QED
    BY <1>9, <2>1, <2>2 DEF compress_chunk
<1>10. CASE UNCHANGED vars
  BY <1>10, <1>1 DEF vars
<1>11. QED
  BY <1>5, <1>6, <1>7, <1>8, <1>9, <1>10 DEF Next

\* In a debug build that knows all column types, append never fills a chunk that is not
\* in the table: compress_chunk leaves _current_chunk behind only when it is full.
THEOREM TableAppendTargetInTable ==
    ASSUME IsDebug, TypeStrings \subseteq DataTypes
    PROVE  Spec => []AppendTargetInTable
<1>1. Init => AppendTargetInTable
  BY DEF Init, AppendTargetInTable
<1>2. IInv /\ AppendTargetInTable /\ [Next]_vars => AppendTargetInTable'
  BY AppendTargetStep
<1>3. QED
  BY <1>1, <1>2, TableInvariant, PTL DEF Spec

-----------------------------------------------------------------------------
(* Rows.  When every value of a row can be cast to every type, an append   *)
(* adds a value to all segments of a chunk or to none: a segment that      *)
(* throws is then a dictionary segment, and there is one in the first      *)
(* place as well, so that the loop of Chunk::append throws at once.        *)

RowsAreCastable ==
    \A values \in Rows : \A i \in DOMAIN values : \A type \in DataTypes :
        type_cast(type, values[i]) # Throws

HeadDecides(chunk) ==
    \A i \in DOMAIN chunk : chunk[1].kind = "value" => chunk[i].kind = "value"

Even(chunk) == \A i \in DOMAIN chunk : Segment_size(chunk[i]) = Chunk_size(chunk)

\* What an append needs of the chunks of a table: a release build does not keep their
\* segments equally long, because it lets a caller add a column to a table with rows.
RowChunk(chunk) == HeadDecides(chunk) /\ DebugAssert(Even(chunk))
RowsInv == \A c \in DOMAIN chunks : RowChunk(chunks[c])

\* Chunk::append of castable values stores the whole row or nothing.
LEMMA CastableAppend ==
    ASSUME NEW chunk, GoodChunk(chunk), HeadDecides(chunk),
           NEW values \in Seq(AllTypeVariant), DefinedAppend(chunk, values),
           \A i \in DOMAIN values : \A type \in DataTypes : type_cast(type, values[i]) # Throws
    PROVE  LET new == Chunk_append(chunk, values)
           IN  /\ DOMAIN new = DOMAIN chunk
               /\ ~Chunk_append_returns(chunk, values) => new = chunk
               /\ Chunk_append_returns(chunk, values) =>
                     \A i \in DOMAIN chunk :
                         /\ i \in DOMAIN values
                         /\ new[i].kind = "value" /\ new[i].type = chunk[i].type
                         /\ Segment_size(new[i]) = Segment_size(chunk[i]) + 1
                         /\ Entry(new[i], Segment_size(new[i]))
                                = type_cast(chunk[i].type, values[i])
<1> DEFINE new == Chunk_append(chunk, values)
<1>1. chunk \in Chunk /\ Len(chunk) \in Nat /\ DOMAIN chunk = 1..Len(chunk)
      /\ \A i \in DOMAIN chunk : chunk[i] \in Segment
  BY ChunkFacts DEF GoodChunk
<1>2. ArityMatches(chunk, values) => Len(values) >= Len(chunk)
  BY <1>1 DEF ArityMatches, DefinedAppend, DebugAssert
<1>3. Len(values) \in Nat /\ DOMAIN values = 1..Len(values)
      /\ \A i \in DOMAIN values : values[i] \in AllTypeVariant
  OBVIOUS
<1>4. DOMAIN new = DOMAIN chunk
  BY DEF Chunk_append
<1>5. ASSUME ~Chunk_append_returns(chunk, values) PROVE new = chunk
  <2>1. CASE ~ArityMatches(chunk, values)
    <3>1. new = [i \in DOMAIN chunk |-> chunk[i]]
      BY <2>1 DEF Chunk_append
    <3>2. QED
      BY <3>1, <1>1 DEF Chunk
  <2>2. CASE ArityMatches(chunk, values)
    <3>1. PICK j \in 1..Len(chunk) : ~Accepts(chunk[j], values[j])
      BY <2>2, <1>5 DEF Chunk_append_returns, AppendedUpTo
    <3>2. chunk[j].type \in DataTypes
      BY <1>1, <3>1 DEF Segment, ValueSegment, DictionarySegment
    <3>3. type_cast(chunk[j].type, values[j]) # Throws
      BY <1>1, <1>2, <1>3, <2>2, <3>2
    <3>4. chunk[1].kind # "value"
      BY <1>1, <3>1, <3>3 DEF Accepts, HeadDecides
    <3>5. \A i \in DOMAIN chunk : ~AppendedUpTo(chunk, values, i)
      BY <1>1, <3>4 DEF AppendedUpTo, Accepts
    <3>6. new = [i \in DOMAIN chunk |-> chunk[i]]
      BY <3>5 DEF Chunk_append
    <3>7. QED
      BY <3>6, <1>1 DEF Chunk
  <2>3. QED
    BY <2>1, <2>2
<1>6. ASSUME Chunk_append_returns(chunk, values), NEW i \in DOMAIN chunk
      PROVE  /\ i \in DOMAIN values
             /\ new[i].kind = "value" /\ new[i].type = chunk[i].type
             /\ Segment_size(new[i]) = Segment_size(chunk[i]) + 1
             /\ Entry(new[i], Segment_size(new[i])) = type_cast(chunk[i].type, values[i])
  <2>1. ArityMatches(chunk, values) /\ AppendedUpTo(chunk, values, i)
    BY <1>1, <1>6 DEF Chunk_append_returns, AppendedUpTo
  <2>2. new[i] = ValueSegment_append(chunk[i], values[i])
    BY <2>1 DEF Chunk_append
  <2>3. i \in DOMAIN values /\ values[i] \in AllTypeVariant
    BY <1>1, <1>2, <1>3, <2>1
  <2>4. Accepts(chunk[i], values[i])
    BY <1>1, <2>1 DEF AppendedUpTo
  <2> HIDE DEF new
  <2>5. QED
    BY <1>1, <2>2, <2>3, <2>4, SegmentAppendFacts
<1>7. QED
  BY <1>4, <1>5, <1>6

\* The chunks that appends, columns and compression leave behind.
LEMMA RowChunkAfterAppend ==
    ASSUME NEW chunk, GoodChunk(chunk), RowChunk(chunk),
           NEW values \in Seq(AllTypeVariant), DefinedAppend(chunk, values),
           \A i \in DOMAIN values : \A type \in DataTypes : type_cast(type, values[i]) # Throws
    PROVE  LET new == Chunk_append(chunk, values)
           IN  RowChunk(new) /\ (Even(chunk) => Even(new))
<1> DEFINE new == Chunk_append(chunk, values)
<1>1. HeadDecides(chunk) /\ chunk \in Chunk
  BY DEF RowChunk, GoodChunk
<1>2. CASE ~Chunk_append_returns(chunk, values)
  BY <1>1, <1>2, CastableAppend
<1>3. CASE Chunk_append_returns(chunk, values)
  <2>1. /\ DOMAIN new = DOMAIN chunk
        /\ \A i \in DOMAIN chunk : /\ new[i].kind = "value"
                                   /\ Segment_size(new[i]) = Segment_size(chunk[i]) + 1
    BY <1>1, <1>3, CastableAppend
  <2>2. GoodChunk(new)
    BY ChunkAppendKeeps
  <2> HIDE DEF new
  <2>3. /\ DOMAIN chunk = 1..Len(chunk) /\ Len(chunk) \in Nat
        /\ DOMAIN new # {} => new # <<>> /\ 1 \in DOMAIN chunk
    BY <1>1, <2>1, ChunkFacts
  <2>4. ASSUME Even(chunk) PROVE Even(new)
    <3>1. ASSUME NEW i \in DOMAIN new PROVE Segment_size(new[i]) = Chunk_size(new)
      <4>1. Chunk_size(new) = Segment_size(new[1])
        BY <2>3, <3>1 DEF Chunk_size
      <4>2. Segment_size(chunk[i]) = Segment_size(chunk[1])
        BY <2>1, <2>3, <2>4, <3>1 DEF Even
      <4>3. QED
        BY <4>1, <4>2, <2>1, <2>3, <3>1
    <3>2. QED
      BY <3>1 DEF Even
  <2>5. QED
    BY <2>1, <2>4 DEF RowChunk, HeadDecides, DebugAssert, new
<1>4. QED
  BY <1>2, <1>3

\* add_column adds an empty segment to a chunk without rows.
LEMMA RowChunkAfterAddSegment ==
    ASSUME NEW chunk, GoodChunk(chunk), RowChunk(chunk), NEW type \in DataTypes,
           DebugAssert(Chunk_size(chunk) = 0)
    PROVE  RowChunk(Append(chunk, EmptyValueSegment(type)))
<1> DEFINE e == EmptyValueSegment(type)
           new == Append(chunk, e)
<1>1. chunk \in Chunk /\ Len(chunk) \in Nat /\ DOMAIN chunk = 1..Len(chunk)
      /\ \A i \in DOMAIN chunk : chunk[i] \in Segment
  BY ChunkFacts DEF GoodChunk
<1>2. e.kind = "value" /\ Segment_size(e) = 0 /\ e \in Segment
  BY EmptySegmentFacts DEF EmptyValueSegment
<1>3. Chunk_size(new) = Chunk_size(chunk)
  BY AddSegmentKeeps
<1> HIDE DEF e
<1>4. /\ DOMAIN new = 1..(Len(chunk) + 1) /\ new[Len(chunk) + 1] = e
      /\ \A i \in 1..Len(chunk) : new[i] = chunk[i]
  BY <1>1, <1>2 DEF Chunk
<1> HIDE DEF new
<1>5. HeadDecides(new)
  <2>1. ASSUME NEW i \in DOMAIN new, new[1].kind = "value" PROVE new[i].kind = "value"
    <3>1. CASE i = Len(chunk) + 1
      BY <3>1, <1>2, <1>4
    <3>2. CASE i \in 1..Len(chunk)
      BY <2>1, <3>2, <1>1, <1>4 DEF RowChunk, HeadDecides
    <3>3. QED
      BY <2>1, <3>1, <3>2, <1>1, <1>4
  <2>2. QED
    BY <2>1 DEF HeadDecides
<1>6. ASSUME IsDebug PROVE Even(new)
  <2>1. Even(chunk) /\ Chunk_size(chunk) = 0
    BY <1>6 DEF RowChunk, DebugAssert
  <2>2. ASSUME NEW i \in DOMAIN new PROVE Segment_size(new[i]) = 0
    <3>1. CASE i = Len(chunk) + 1
      BY <3>1, <1>2, <1>4
    <3>2. CASE i \in 1..Len(chunk)
      BY <3>2, <2>1, <1>1, <1>4 DEF Even
    <3>3. QED
      BY <2>2, <3>1, <3>2, <1>1, <1>4
  <2>3. QED
    BY <2>1, <2>2, <1>3 DEF Even
<1>7. QED
  BY <1>5, <1>6 DEF RowChunk, DebugAssert, new, e

\* compress_chunk turns every segment into a dictionary segment of the same size.
LEMMA RowChunkAfterCompression ==
    ASSUME NEW chunk, GoodChunk(chunk), RowChunk(chunk),
           \A i \in DOMAIN chunk : chunk[i].kind = "value", ~TooLargeToCompress(chunk)
    PROVE  LET new == CompressedChunk(chunk)
           IN  RowChunk(new) /\ (Even(chunk) => Even(new))
<1> DEFINE new == CompressedChunk(chunk)
<1>1. chunk \in Chunk /\ \A i \in DOMAIN chunk : chunk[i] \in ValueSegment
  BY DEF GoodChunk, Chunk, Segment, DictionarySegment
<1>2. \A i \in DOMAIN chunk : ~DictionaryTooLarge(chunk[i].values)
  BY DEF TooLargeToCompress
<1>3. /\ DOMAIN new = DOMAIN chunk
      /\ \A i \in DOMAIN chunk : /\ new[i].kind = "dictionary"
                                 /\ Segment_size(new[i]) = Segment_size(chunk[i])
  BY <1>1, <1>2, CompressionIsLossless DEF CompressedChunk, CompressedSegment
<1>4. Chunk_size(new) = Chunk_size(chunk) /\ (DOMAIN chunk # {} => 1 \in DOMAIN chunk)
  BY <1>1, CompressedChunkKeeps, ChunkFacts
<1> HIDE DEF new
<1>5. HeadDecides(new)
  BY <1>3, <1>4 DEF HeadDecides
<1>6. Even(chunk) => Even(new)
  BY <1>3, <1>4 DEF Even
<1>7. QED
  BY <1>5, <1>6 DEF RowChunk, DebugAssert, new

\* The chunk create_new_chunk makes has value segments without values.
LEMMA RowChunkNew ==
    ASSUME column_types \in Seq(TypeStrings), AllTypesKnown
    PROVE  RowChunk(NewChunk) /\ Even(NewChunk)
<1>1. /\ DOMAIN NewChunk = DOMAIN column_types
      /\ \A i \in DOMAIN column_types : /\ NewChunk[i].kind = "value"
                                        /\ Segment_size(NewChunk[i]) = 0
  BY EmptySegmentFacts DEF NewChunk, EmptyValueSegment, AllTypesKnown
<1>2. QED
  BY <1>1, NewChunkIsGood DEF RowChunk, HeadDecides, Even, DebugAssert

\* Callers that emplace chunks of value segments only, or of dictionary segments first.
EmplacedHeadsDecide == \A chunk \in EmplacedChunks : HeadDecides(chunk)

\* The chunks of the table after a step.
LEMMA RowsStep ==
    ASSUME RowsAreCastable, EmplacedHeadsDecide, IInv, RowsInv, [Next]_vars
    PROVE  RowsInv'
<1> USE ChunksFacts
<1>0. /\ ChunksInv /\ column_types \in Seq(TypeStrings) /\ GoodChunk(CurrentChunk)
      /\ \A c \in DOMAIN chunks : RowChunk(chunks[c]) /\ GoodChunk(chunks[c])
      /\ current # 0 => CurrentChunk = chunks[current] /\ RowChunk(CurrentChunk)
  BY DEF IInv, TypeOK, RowsInv, ChunksInv, CurrentChunk
<1>1. ASSUME chunks' = chunks PROVE RowsInv'
  BY <1>0, <1>1 DEF RowsInv
<1>2. ASSUME NEW new, UpdateCurrentChunk(new), current # 0 => RowChunk(new) PROVE RowsInv'
  <2>1. /\ DOMAIN chunks' = DOMAIN chunks
        /\ \A c \in DOMAIN chunks : c # current => chunks'[c] = chunks[c]
        /\ current # 0 => chunks'[current] = new
    BY <1>0, <1>2, UpdateSizes
  <2>2. \A c \in DOMAIN chunks : c = current => current # 0
    OBVIOUS
  <2>3. QED
    BY <2>1, <2>2, <1>0, <1>2 DEF RowsInv
<1>3. ASSUME NEW new, PushChunk(new), RowChunk(new) PROVE RowsInv'
  <2>1. /\ DOMAIN chunks' = 1..(Len(chunks) + 1)
        /\ \A c \in DOMAIN chunks : chunks'[c] = chunks[c]
        /\ chunks'[Len(chunks) + 1] = new
    BY <1>0, <1>3, PushSizes
  <2>2. QED
    BY <2>1, <1>0, <1>3 DEF RowsInv
<1>5. ASSUME NEW type \in TypeStrings, add_column_definition(type) \/ add_column(type)
      PROVE  RowsInv'
  <2>1. CASE UNCHANGED <<chunks, current, detached>>
    BY <2>1, <1>1
  <2>2. CASE /\ MayDefineColumn /\ type \in DataTypes
             /\ UpdateCurrentChunk(Append(CurrentChunk, EmptyValueSegment(type)))
    <3>1. current # 0 => DebugAssert(Chunk_size(CurrentChunk) = 0)
      BY <2>2, <1>0 DEF MayDefineColumn, DebugAssert, HasNoRows
    <3>2. current # 0 => RowChunk(Append(CurrentChunk, EmptyValueSegment(type)))
      BY <2>2, <3>1, <1>0, RowChunkAfterAddSegment
    <3>3. QED
      BY <2>2, <3>2, <1>2
  <2>3. QED
    BY <1>5, <2>1, <2>2 DEF add_column_definition, add_column
<1>6. ASSUME create_new_chunk PROVE RowsInv'
  <2>1. CASE AllTypesKnown /\ PushChunk(NewChunk)
    BY <2>1, <1>0, <1>3, RowChunkNew
  <2>2. CASE FailToCreateChunk
    BY <2>2, <1>1 DEF FailToCreateChunk
  <2>3. QED
    BY <1>6, <2>1, <2>2 DEF create_new_chunk
<1>7. ASSUME NEW values \in Rows, append(values) PROVE RowsInv'
  <2>0. /\ values \in Seq(AllTypeVariant)
        /\ \A i \in DOMAIN values : \A type \in DataTypes : type_cast(type, values[i]) # Throws
    BY RowsAssumption DEF RowsAreCastable
  <2>1. CASE /\ DefinedAppend(CurrentChunk, values)
             /\ UpdateCurrentChunk(Chunk_append(CurrentChunk, values))
    <3>1. current # 0 => RowChunk(Chunk_append(CurrentChunk, values))
      BY <2>0, <2>1, <1>0, RowChunkAfterAppend
    <3>2. QED
      BY <2>1, <3>1, <1>2
  <2>2. CASE /\ AllTypesKnown /\ DefinedAppend(NewChunk, values)
             /\ PushChunk(Chunk_append(NewChunk, values))
    <3>1. GoodChunk(NewChunk) /\ RowChunk(NewChunk)
      BY <2>2, <1>0, NewChunkIsGood, RowChunkNew
    <3>2. RowChunk(Chunk_append(NewChunk, values))
      BY <2>0, <2>2, <3>1, RowChunkAfterAppend
    <3>3. QED
      BY <2>2, <3>2, <1>3
  <2>3. CASE FailToCreateChunk
    BY <2>3, <1>1 DEF FailToCreateChunk
  <2>4. QED
    BY <1>7, <2>1, <2>2, <2>3 DEF append
<1>8. ASSUME NEW chunk \in EmplacedChunks, emplace_chunk(chunk) PROVE RowsInv'
  <2>0. RowChunk(chunk)
    BY EmplacedChunksAssumption DEF RowChunk, EmplacedHeadsDecide, Even, DebugAssert
  <2>1. CASE UNCHANGED <<chunks, current, detached>>
    BY <2>1, <1>1
  <2>2. CASE PushChunk(chunk)
    BY <2>0, <2>2, <1>3
  <2>3. CASE chunks' = [chunks EXCEPT ![1] = chunk]
    BY <2>0, <2>3, <1>0 DEF RowsInv
  <2>4. QED
    BY <1>8, <2>1, <2>2, <2>3 DEF emplace_chunk
<1>9. ASSUME NEW chunk_id, compress_chunk(chunk_id) PROVE RowsInv'
  <2>1. CASE UNCHANGED <<chunks, current, detached>>
    BY <2>1, <1>1
  <2>2. CASE /\ chunk_id \in DOMAIN chunks
             /\ Compressible(chunks[chunk_id])
             /\ ~TooLargeToCompress(chunks[chunk_id])
             /\ chunks' = [chunks EXCEPT ![chunk_id] = CompressedChunk(chunks[chunk_id])]
    <3>1. RowChunk(CompressedChunk(chunks[chunk_id]))
      BY <2>2, <1>0, RowChunkAfterCompression DEF Compressible
    <3>2. QED
      BY <2>2, <3>1, <1>0 DEF RowsInv
  <2>3. QED
    BY <1>9, <2>1, <2>2 DEF compress_chunk
<1>10. CASE UNCHANGED vars
  BY <1>10, <1>1 DEF vars
<1>11. QED
  BY <1>5, <1>6, <1>7, <1>8, <1>9, <1>10 DEF Next

\* The table of a caller whose values can be cast keeps whole rows.
LEMMA RowsInvariant ==
    ASSUME RowsAreCastable, EmplacedHeadsDecide
    PROVE  Spec => []RowsInv
<1>1. Init => RowsInv
  <2> SUFFICES ASSUME Init PROVE RowsInv
    OBVIOUS
  <2>1. DOMAIN chunks = 1..1 /\ DOMAIN chunks[1] = {}
    BY DEF Init
  <2>2. QED
    BY <2>1 DEF RowsInv, RowChunk, HeadDecides, Even, DebugAssert
<1>2. IInv /\ RowsInv /\ [Next]_vars => RowsInv'
  BY RowsStep
<1>3. QED
  BY <1>1, <1>2, TableInvariant, PTL DEF Spec

\* Only append reports a call of append.
LEMMA AppendIsTheCall ==
    ASSUME Next, last'.call = "append"
    PROVE  \E values \in Rows : append(values)
<1>1. \A call : Returns(call) \/ Fails(call) => last'.call = call
  BY DEF Returns, Fails
<1>2. ASSUME NEW type, add_column_definition(type) \/ add_column(type) PROVE FALSE
  BY <1>1, <1>2 DEF add_column_definition, add_column
<1>3. ASSUME create_new_chunk PROVE FALSE
  BY <1>1, <1>3 DEF create_new_chunk
<1>4. ASSUME NEW chunk, emplace_chunk(chunk) PROVE FALSE
  BY <1>1, <1>4 DEF emplace_chunk
<1>5. ASSUME NEW chunk_id, compress_chunk(chunk_id) PROVE FALSE
  BY <1>1, <1>5 DEF compress_chunk
<1>6. QED
  BY <1>2, <1>3, <1>4, <1>5 DEF Next

\* An append that throws for castable values adds nothing to any chunk, in either build:
\* it throws before the first segment has taken its value.
THEOREM TableFailedAppendAddsNoRow ==
    ASSUME RowsAreCastable, EmplacedHeadsDecide
    PROVE  Spec => FailedAppendAddsNoRow
<1> USE ChunksFacts
<1> DEFINE Same == \A c \in DOMAIN chunks : Chunk_size(chunks'[c]) = Chunk_size(chunks[c])
           Failed == last'.call = "append" /\ last'.outcome = "throws"
<1>1. ASSUME IInv, RowsInv, Next, Failed PROVE Same
  <2>1. PICK values \in Rows : append(values)
    BY <1>1, AppendIsTheCall
  <2>2. /\ ChunksInv /\ values \in Seq(AllTypeVariant)
        /\ \A i \in DOMAIN values : \A type \in DataTypes : type_cast(type, values[i]) # Throws
    BY <1>1, RowsAssumption DEF RowsAreCastable, IInv
  <2>3. CASE /\ DefinedAppend(CurrentChunk, values)
             /\ UpdateCurrentChunk(Chunk_append(CurrentChunk, values))
             /\ AppendOutcome(CurrentChunk, values)
    <3>1. ~Chunk_append_returns(CurrentChunk, values)
      BY <1>1, <2>3 DEF AppendOutcome
    <3>2. current # 0 => GoodChunk(CurrentChunk) /\ HeadDecides(CurrentChunk)
      BY <1>1, <2>2 DEF RowsInv, RowChunk, CurrentChunk
    <3>3. current # 0 => Chunk_append(CurrentChunk, values) = chunks[current]
      BY <2>2, <2>3, <3>1, <3>2, CastableAppend DEF CurrentChunk
    <3>4. QED
      BY <2>2, <2>3, <3>3, UpdateSizes
  <2>4. CASE PushChunk(Chunk_append(NewChunk, values))
    BY <2>2, <2>4, PushSizes
  <2>5. CASE FailToCreateChunk
    BY <2>5 DEF FailToCreateChunk
  <2>6. QED
    BY <2>1, <2>3, <2>4, <2>5 DEF append
<1>2. IInv /\ RowsInv /\ [Next]_vars => [Failed => Same]_vars
  BY <1>1
<1>3. QED
  BY <1>2, TableInvariant, RowsInvariant, PTL DEF Spec, FailedAppendAddsNoRow

\* In a debug build, a row that Chunk::append has returned for is the last row of its chunk.
LEMMA ReturnedRowIsLast ==
    ASSUME IsDebug, NEW chunk, GoodChunk(chunk), RowChunk(chunk),
           NEW values \in Seq(AllTypeVariant), values # <<>>, DefinedAppend(chunk, values),
           \A i \in DOMAIN values : \A type \in DataTypes : type_cast(type, values[i]) # Throws,
           Chunk_append_returns(chunk, values)
    PROVE  LET new == Chunk_append(chunk, values)
           IN  /\ Chunk_size(new) = Chunk_size(chunk) + 1
               /\ \A i \in DOMAIN new :
                     /\ Segment_size(new[i]) = Chunk_size(new)
                     /\ new[i].type = chunk[i].type
                     /\ Entry(new[i], Chunk_size(new)) = type_cast(new[i].type, values[i])
<1> DEFINE new == Chunk_append(chunk, values)
<1>1. HeadDecides(chunk) /\ chunk \in Chunk /\ Len(chunk) \in Nat /\ DOMAIN chunk = 1..Len(chunk)
  BY ChunkFacts DEF RowChunk, GoodChunk
<1>2. Len(values) = Len(chunk) /\ Len(values) # 0
  BY DEF Chunk_append_returns, ArityMatches, DebugAssert
<1>3. GoodChunk(new) /\ RowChunk(new)
  BY ChunkAppendKeeps, RowChunkAfterAppend
<1>4. /\ DOMAIN new = DOMAIN chunk
      /\ \A i \in DOMAIN chunk :
            /\ new[i].type = chunk[i].type
            /\ Segment_size(new[i]) = Segment_size(chunk[i]) + 1
            /\ Entry(new[i], Segment_size(new[i])) = type_cast(chunk[i].type, values[i])
  BY <1>1, CastableAppend
<1> HIDE DEF new
<1>5. 1 \in DOMAIN chunk /\ chunk # <<>> /\ new # <<>>
  BY <1>1, <1>2, <1>4
<1>6. Even(new) /\ Chunk_size(new) = Segment_size(new[1])
      /\ Chunk_size(chunk) = Segment_size(chunk[1])
  BY <1>3, <1>5 DEF RowChunk, DebugAssert, Chunk_size
<1>7. QED
  BY <1>4, <1>5, <1>6 DEF Even, new

\* In a debug build that knows all column types, append inserts at the end of the table:
\* when it returns, the row that was passed is the last row, cast to the column types, and
\* no chunk behind it has rows.
THEOREM TableReturnedAppendIsStored ==
    ASSUME IsDebug, TypeStrings \subseteq DataTypes, RowsAreCastable, EmplacedHeadsDecide
    PROVE  Spec => ReturnedAppendIsStored
<1> USE ChunksFacts
<1> DEFINE Returned == last'.call = "append" /\ last'.outcome = "ok" /\ last'.row # <<>>
<1>1. ASSUME IInv, RowsInv, AppendTargetInTable, Next, Returned PROVE RowIsAtEnd(last'.row)
  <2>1. PICK values \in Rows : append(values)
    BY <1>1, AppendIsTheCall
  <2>2. /\ ChunksInv /\ column_types \in Seq(TypeStrings) /\ values \in Seq(AllTypeVariant)
        /\ \A i \in DOMAIN values : \A type \in DataTypes : type_cast(type, values[i]) # Throws
    BY <1>1, RowsAssumption DEF RowsAreCastable, IInv, TypeOK
  <2>3. AllTypesKnown
    BY <2>2 DEF AllTypesKnown
  <2>4. ASSUME NEW chunk, AppendOutcome(chunk, values)
        PROVE  Chunk_append_returns(chunk, values) /\ last'.row = values /\ values # <<>>
    BY <1>1, <2>4 DEF AppendOutcome, Fails
  <2>5. CASE /\ ~is_full(CurrentChunk) /\ DefinedAppend(CurrentChunk, values)
             /\ UpdateCurrentChunk(Chunk_append(CurrentChunk, values))
             /\ AppendOutcome(CurrentChunk, values)
    <3> DEFINE new == Chunk_append(CurrentChunk, values)
    <3>1. current # 0
      BY <1>1, <2>5 DEF AppendTargetInTable, CurrentChunk
    <3>2. current \in DOMAIN chunks /\ CurrentChunk = chunks[current]
      BY <2>2, <3>1 DEF CurrentChunk
    <3>3. GoodChunk(CurrentChunk) /\ RowChunk(CurrentChunk)
      BY <1>1, <2>2, <3>2 DEF RowsInv
    <3>4. /\ Chunk_size(new) = Chunk_size(CurrentChunk) + 1
          /\ \A i \in DOMAIN new :
                /\ Segment_size(new[i]) = Chunk_size(new)
                /\ Entry(new[i], Chunk_size(new)) = type_cast(new[i].type, values[i])
      BY <2>2, <2>4, <2>5, <3>3, ReturnedRowIsLast
    <3>5. /\ DOMAIN chunks' = DOMAIN chunks /\ chunks'[current] = new
          /\ \A c \in DOMAIN chunks : c # current => chunks'[c] = chunks[c]
      BY <2>2, <2>5, <3>1, UpdateSizes
    <3> HIDE DEF new
    <3>6. \A d \in DOMAIN chunks' : d > current => Chunk_size(chunks'[d]) = 0
      BY <1>1, <2>2, <3>1, <3>5 DEF AppendTargetInTable
    <3>7. Chunk_size(new) = 1 + Chunk_size(chunks[current]) /\ last'.row = values
      BY <2>2, <2>4, <2>5, <3>2, <3>4
    <3>8. QED
      BY <3>2, <3>4, <3>5, <3>6, <3>7 DEF RowIsAtEnd
  <2>6. CASE /\ AllTypesKnown /\ DefinedAppend(NewChunk, values)
             /\ PushChunk(Chunk_append(NewChunk, values))
             /\ AppendOutcome(NewChunk, values)
    <3> DEFINE new == Chunk_append(NewChunk, values)
               c == Len(chunks) + 1
    <3>1. GoodChunk(NewChunk) /\ RowChunk(NewChunk) /\ Chunk_size(NewChunk) = 0
      BY <2>2, <2>3, NewChunkIsGood, RowChunkNew
    <3>2. /\ Chunk_size(new) = 1
          /\ \A i \in DOMAIN new :
                /\ Segment_size(new[i]) = Chunk_size(new)
                /\ Entry(new[i], Chunk_size(new)) = type_cast(new[i].type, values[i])
      BY <2>2, <2>4, <2>6, <3>1, ReturnedRowIsLast
    <3>3. DOMAIN chunks' = 1..c /\ chunks'[c] = new /\ c \notin DOMAIN chunks
      BY <2>2, <2>6, PushSizes
    <3>4. c \in DOMAIN chunks' /\ \A d \in DOMAIN chunks' : ~(d > c)
      BY <2>2, <3>3
    <3> HIDE DEF new, c
    <3>5. last'.row = values
      BY <2>4, <2>6
    <3>6. QED
      BY <3>2, <3>3, <3>4, <3>5 DEF RowIsAtEnd
  <2>7. QED
    BY <2>1, <2>3, <2>5, <2>6 DEF append
<1>2. IInv /\ RowsInv /\ AppendTargetInTable /\ [Next]_vars
          => [Returned => RowIsAtEnd(last'.row)]_vars
  BY <1>1
<1>3. QED
  BY <1>2, TableInvariant, RowsInvariant, TableAppendTargetInTable, PTL
     DEF Spec, ReturnedAppendIsStored

-----------------------------------------------------------------------------
(* The rows of one chunk *)

\* A position of a well-formed segment holds a value.
LEMMA EntryType ==
    ASSUME NEW segment \in Segment, WellFormed(segment), NEW k \in 1..Segment_size(segment)
    PROVE  Entry(segment, k) \in Int
<1>1. CASE segment.kind = "value"
  <2>1. segment.values \in Seq(Int) /\ Segment_size(segment) = Len(segment.values)
    BY <1>1 DEF Segment, ValueSegment, DictionarySegment, Segment_size, Values
  <2>2. segment.values[k] \in Int
    BY <2>1
  <2>3. QED
    BY <1>1, <2>2 DEF Entry
<1>2. CASE segment.kind # "value"
  <2> DEFINE ids == segment.attribute_vector.ids
  <2>1. segment \in DictionarySegment
    BY <1>2 DEF Segment, ValueSegment
  <2>2. /\ segment.kind = "dictionary" /\ segment.dictionary \in Seq(Int)
        /\ segment.attribute_vector \in FittedAttributeVector
    BY <2>1 DEF DictionarySegment, Values
  <2>3. ids \in Seq(Nat) /\ Segment_size(segment) = Len(ids)
    BY <1>2, <2>2 DEF FittedAttributeVector, Segment_size
  <2>4. ids[k] \in Nat /\ ids[k] < Len(segment.dictionary)
    BY <2>2, <2>3 DEF WellFormed
  <2>5. segment.dictionary[ids[k] + 1] \in Int
    BY <2>2, <2>4
  <2>6. QED
    BY <1>2, <2>5 DEF Entry
<1>3. QED
  BY <1>1, <1>2

\* A row of values.
Row == Seq(Int)

\* A chunk with segments of one length has as many rows as its size says.
LEMMA ChunkRowsType ==
    ASSUME NEW chunk, GoodChunk(chunk), Even(chunk)
    PROVE  /\ ChunkRows(chunk) \in Seq(Row) /\ Len(ChunkRows(chunk)) = Chunk_size(chunk)
           /\ Chunk_size(chunk) = 0 => ChunkRows(chunk) = <<>>
<1>1. /\ chunk \in Chunk /\ Len(chunk) \in Nat /\ DOMAIN chunk = 1..Len(chunk)
      /\ \A i \in DOMAIN chunk : chunk[i] \in Segment
      /\ Chunk_size(chunk) \in Nat
  BY ChunkFacts DEF GoodChunk
<1>2. ASSUME NEW k \in 1..Chunk_size(chunk) PROVE ChunkRow(chunk, k) \in Row
  <2>1. \A i \in DOMAIN chunk : Entry(chunk[i], k) \in Int
    BY <1>1, EntryType DEF Even, GoodChunk, ChunkWellFormed
  <2>2. ChunkRow(chunk, k) \in [1..Len(chunk) -> Int]
    BY <1>1, <2>1 DEF ChunkRow
  <2>3. QED
    BY <1>1, <2>2 DEF Row
<1>3. ChunkRows(chunk) \in [1..Chunk_size(chunk) -> Row]
  BY <1>2 DEF ChunkRows
<1>4. ChunkRows(chunk) \in Seq(Row) /\ Len(ChunkRows(chunk)) = Chunk_size(chunk)
  BY <1>1, <1>3
<1>5. QED
  BY <1>4

\* A chunk that keeps its entries, columns and size keeps its rows.
LEMMA SameRows ==
    ASSUME NEW old, GoodChunk(old), Even(old), NEW new, KeepsEntries(old, new),
           DOMAIN new = DOMAIN old, Chunk_size(new) = Chunk_size(old)
    PROVE  ChunkRows(new) = ChunkRows(old)
<1>1. ASSUME NEW k \in 1..Chunk_size(old) PROVE ChunkRow(new, k) = ChunkRow(old, k)
  <2>1. \A i \in DOMAIN old : Entry(new[i], k) = Entry(old[i], k)
    BY DEF KeepsEntries, Even
  <2>2. QED
    BY <2>1 DEF ChunkRow
<1>2. QED
  BY <1>1 DEF ChunkRows

\* A row that Chunk::append has returned for is added behind the rows of the chunk.
LEMMA AddedRow ==
    ASSUME IsDebug, NEW chunk, GoodChunk(chunk), RowChunk(chunk),
           NEW values \in Seq(AllTypeVariant), values # <<>>, DefinedAppend(chunk, values),
           \A i \in DOMAIN values : \A type \in DataTypes : type_cast(type, values[i]) # Throws,
           Chunk_append_returns(chunk, values)
    PROVE  LET row == [i \in DOMAIN values |-> type_cast(chunk[i].type, values[i])]
           IN  /\ ChunkRows(Chunk_append(chunk, values)) = ChunkRows(chunk) \o <<row>>
               /\ row \in Row
<1> DEFINE new == Chunk_append(chunk, values)
           row == [i \in DOMAIN values |-> type_cast(chunk[i].type, values[i])]
           n == Chunk_size(chunk)
<1>1. HeadDecides(chunk) /\ chunk \in Chunk /\ Len(chunk) \in Nat /\ DOMAIN chunk = 1..Len(chunk)
      /\ n \in Nat /\ Even(chunk)
  BY ChunkFacts DEF RowChunk, GoodChunk, DebugAssert
<1>2. DOMAIN values = DOMAIN chunk
  <2>1. Len(values) = Len(chunk)
    BY DEF Chunk_append_returns, ArityMatches, DebugAssert
  <2>2. QED
    BY <2>1, <1>1
<1>3. GoodChunk(new) /\ KeepsEntries(chunk, new) /\ RowChunk(new)
  BY ChunkAppendKeeps, RowChunkAfterAppend
<1>4. DOMAIN new = DOMAIN chunk
  BY <1>1, CastableAppend
<1>5. /\ Chunk_size(new) = n + 1
      /\ \A i \in DOMAIN new :
            /\ new[i].type = chunk[i].type
            /\ Entry(new[i], n + 1) = type_cast(new[i].type, values[i])
  BY ReturnedRowIsLast
<1> HIDE DEF new, n
<1>6. \A k \in 1..n : ChunkRow(new, k) = ChunkRow(chunk, k)
  <2>1. ASSUME NEW k \in 1..n, NEW i \in DOMAIN chunk PROVE Entry(new[i], k) = Entry(chunk[i], k)
    BY <1>1, <1>3 DEF KeepsEntries, Even, n
  <2>2. QED
    BY <2>1, <1>4 DEF ChunkRow
<1>7. ChunkRow(new, n + 1) = row
  BY <1>2, <1>4, <1>5 DEF ChunkRow
<1>8. /\ ChunkRows(new) \in Seq(Row) /\ Len(ChunkRows(new)) = n + 1
      /\ ChunkRows(chunk) \in Seq(Row) /\ Len(ChunkRows(chunk)) = n
  BY <1>1, <1>3, <1>5, ChunkRowsType DEF RowChunk, DebugAssert, n
<1>9. /\ \A k \in 1..(n + 1) : ChunkRows(new)[k] = ChunkRow(new, k)
      /\ \A k \in 1..n : ChunkRows(chunk)[k] = ChunkRow(chunk, k)
  BY <1>5 DEF ChunkRows, n
<1> HIDE DEF row
<1>10. row \in Row
  <2>1. n + 1 \in 1..(n + 1)
    BY <1>1
  <2>2. ChunkRows(new)[n + 1] \in Row
    BY <1>8, <2>1, ElementOfSeq
  <2>3. QED
    BY <2>1, <2>2, <1>7, <1>9
<1>11. ChunkRows(new) = ChunkRows(chunk) \o <<row>>
  <2> DEFINE a == ChunkRows(new)
             b == ChunkRows(chunk)
  <2>1. <<row>> \in Seq(Row) /\ Len(<<row>>) = 1 /\ <<row>>[1] = row
    BY <1>10
  <2>2. /\ \A k \in 1..n : a[k] = b[k]
        /\ a[n + 1] = row
    BY <1>1, <1>6, <1>7, <1>9
  <2>3. a \in Seq(Row) /\ b \in Seq(Row) /\ Len(a) = n + 1 /\ Len(b) = n
    BY <1>8
  <2> HIDE DEF a, b
  <2>4. b \o <<row>> \in Seq(Row) /\ Len(b \o <<row>>) = n + 1
    BY <2>1, <2>3, ConcatProperties
  <2>5. ASSUME NEW k \in 1..(n + 1) PROVE a[k] = (b \o <<row>>)[k]
    BY <2>1, <2>2, <2>3, <1>1
  <2>6. a = b \o <<row>>
    BY <2>3, <2>4, <2>5, SeqEqual
  <2>7. QED
    BY <2>6 DEF a, b
<1>12. QED
  BY <1>10, <1>11 DEF new, row

-----------------------------------------------------------------------------
(* The rows of the table *)

RowsOfChunks == [c \in DOMAIN chunks |-> ChunkRows(chunks[c])]

\* The inductive invariant of a caller that keeps columns and chunks in step.
SchemaInv == IInv /\ RowsInv /\ AppendTargetInTable /\ ColumnsMatch

\* The rows of a table, chunk by chunk.
LEMMA StoredFacts ==
    ASSUME IsDebug, SchemaInv
    PROVE  /\ Len(chunks) \in Nat /\ DOMAIN chunks = 1..Len(chunks)
           /\ RowsOfChunks \in Seq(Seq(Row)) /\ Len(RowsOfChunks) = Len(chunks)
           /\ \A c \in DOMAIN chunks :
                 /\ GoodChunk(chunks[c]) /\ Even(chunks[c]) /\ RowChunk(chunks[c])
                 /\ RowsOfChunks[c] = ChunkRows(chunks[c])
                 /\ Chunk_size(chunks[c]) = 0 => RowsOfChunks[c] = <<>>
           /\ StoredRows = FlattenSeq(RowsOfChunks) /\ StoredRows \in Seq(Row)
<1>1. Len(chunks) \in Nat /\ DOMAIN chunks = 1..Len(chunks)
  BY ChunksFacts DEF SchemaInv, IInv
<1>2. \A c \in DOMAIN chunks : GoodChunk(chunks[c]) /\ Even(chunks[c]) /\ RowChunk(chunks[c])
  BY DEF SchemaInv, IInv, ChunksInv, RowsInv, RowChunk, DebugAssert
<1>3. \A c \in DOMAIN chunks : /\ ChunkRows(chunks[c]) \in Seq(Row)
                               /\ Chunk_size(chunks[c]) = 0 => ChunkRows(chunks[c]) = <<>>
  BY <1>2, ChunkRowsType
<1>4. RowsOfChunks \in [1..Len(chunks) -> Seq(Row)]
  BY <1>1, <1>3 DEF RowsOfChunks
<1>5. /\ RowsOfChunks \in Seq(Seq(Row)) /\ Len(RowsOfChunks) = Len(chunks)
      /\ \A c \in DOMAIN chunks : RowsOfChunks[c] = ChunkRows(chunks[c])
  BY <1>1, <1>4 DEF RowsOfChunks
<1>6. StoredRows = FlattenSeq(RowsOfChunks)
  BY DEF StoredRows, RowsOfChunks
<1>7. StoredRows \in Seq(Row)
  BY <1>5, <1>6, FlattenType
<1>8. QED
  BY <1>1, <1>2, <1>3, <1>5, <1>6, <1>7

\* Calls that change no row of a chunk ...
LEMMA KeptRows ==
    ASSUME DOMAIN chunks' = DOMAIN chunks,
           \A c \in DOMAIN chunks : ChunkRows(chunks'[c]) = ChunkRows(chunks[c])
    PROVE  StoredRows' = StoredRows
<1>1. RowsOfChunks' = RowsOfChunks
  BY DEF RowsOfChunks
<1>2. StoredRows' = FlattenSeq(RowsOfChunks') /\ StoredRows = FlattenSeq(RowsOfChunks)
  BY DEF StoredRows, RowsOfChunks
<1>3. QED
  BY <1>1, <1>2

\* ... that push a chunk ...
LEMMA PushedRows ==
    ASSUME IsDebug, SchemaInv, NEW new, PushChunk(new), GoodChunk(new), Even(new)
    PROVE  StoredRows' = StoredRows \o ChunkRows(new)
<1> DEFINE b == ChunkRows(new)
           n == Len(chunks)
<1>1. b \in Seq(Row)
  BY ChunkRowsType
<1>2. /\ DOMAIN chunks' = 1..(n + 1) /\ chunks'[n + 1] = new
      /\ \A c \in DOMAIN chunks : chunks'[c] = chunks[c]
  BY PushSizes DEF SchemaInv, IInv
<1>3. /\ n \in Nat /\ DOMAIN chunks = 1..n
      /\ RowsOfChunks \in Seq(Seq(Row)) /\ Len(RowsOfChunks) = n
      /\ \A c \in DOMAIN chunks : RowsOfChunks[c] = ChunkRows(chunks[c])
      /\ StoredRows = FlattenSeq(RowsOfChunks)
  BY StoredFacts
<1>4. RowsOfChunks' = Append(RowsOfChunks, b)
  <2> DEFINE r == RowsOfChunks
             f == [c \in 1..(n + 1) |-> ChunkRows(chunks'[c])]
  <2>1. RowsOfChunks' = f
    BY <1>2 DEF RowsOfChunks
  <2>2. \A c \in 1..(n + 1) : f[c] = IF c = n + 1 THEN b ELSE r[c]
    BY <1>2, <1>3
  <2>3. r \in Seq(Seq(Row)) /\ Len(r) = n
    BY <1>3
  <2> HIDE DEF r, b
  <2>4. f \in [1..(n + 1) -> Seq(Row)]
    <3>1. \A c \in 1..(n + 1) : c # n + 1 => c \in 1..Len(r)
      BY <2>3, <1>3
    <3>2. \A c \in 1..(n + 1) : f[c] \in Seq(Row)
      BY <3>1, <2>2, <2>3, <1>1, ElementOfSeq
    <3>3. QED
      BY <3>2
  <2> HIDE DEF f
  <2>5. f \in Seq(Seq(Row)) /\ Len(f) = n + 1
    BY <2>4, <1>3
  <2>6. Append(r, b) \in Seq(Seq(Row)) /\ Len(Append(r, b)) = n + 1
        /\ \A c \in 1..(n + 1) : Append(r, b)[c] = IF c = n + 1 THEN b ELSE r[c]
    BY <2>3, <1>1, <1>3
  <2>7. f = Append(r, b)
    BY <2>2, <2>5, <2>6, SeqEqual
  <2>8. QED
    BY <2>1, <2>7 DEF r
<1>5. StoredRows' = FlattenSeq(RowsOfChunks')
  BY DEF StoredRows, RowsOfChunks
<1>6. FlattenSeq(Append(RowsOfChunks, b)) = FlattenSeq(RowsOfChunks) \o b
  <2> HIDE DEF b
  <2>1. QED
    BY <1>1, <1>3, FlattenAppend
<1>7. QED
  BY <1>3, <1>4, <1>5, <1>6

\* ... and that add rows to the last chunk that has any.
LEMMA GrownRows ==
    ASSUME IsDebug, SchemaInv, NEW c \in DOMAIN chunks, NEW b \in Seq(Row),
           DOMAIN chunks' = DOMAIN chunks,
           \A d \in DOMAIN chunks : d # c => chunks'[d] = chunks[d],
           ChunkRows(chunks'[c]) = ChunkRows(chunks[c]) \o b,
           \A d \in DOMAIN chunks : d > c => Chunk_size(chunks[d]) = 0
    PROVE  StoredRows' = StoredRows \o b
<1> DEFINE r == RowsOfChunks
           n == Len(chunks)
<1>1. /\ n \in Nat /\ DOMAIN chunks = 1..n
      /\ r \in Seq(Seq(Row)) /\ Len(r) = n
      /\ \A d \in DOMAIN chunks : r[d] = ChunkRows(chunks[d])
      /\ \A d \in DOMAIN chunks : Chunk_size(chunks[d]) = 0 => r[d] = <<>>
      /\ StoredRows = FlattenSeq(r)
  BY StoredFacts
<1>2. RowsOfChunks' = [d \in 1..n |-> ChunkRows(chunks'[d])]
  BY <1>1 DEF RowsOfChunks
<1>3. DOMAIN r = 1..n
  BY <1>1 DEF RowsOfChunks
<1> HIDE DEF r, n
<1>4. \A d \in 1..n : ChunkRows(chunks'[d]) = IF d = c THEN r[c] \o b ELSE r[d]
  BY <1>1
<1> DEFINE t == [d \in 1..n |-> ChunkRows(chunks'[d])]
<1>5. \A d \in 1..n : t[d] = IF d = c THEN r[d] \o b ELSE r[d]
  BY <1>4
<1>6. t \in Seq(Seq(Row)) /\ Len(t) = n
  <2>1. \A d \in 1..n : r[d] \in Seq(Row) /\ r[d] \o b \in Seq(Row)
    BY <1>1, ConcatProperties
  <2>2. \A d \in 1..n : t[d] \in Seq(Row)
    BY <2>1, <1>5
  <2>3. t \in [1..n -> Seq(Row)]
    BY <2>2
  <2>4. QED
    BY <2>3, <1>1
<1> HIDE DEF t
<1>7. FlattenSeq(t) = FlattenSeq(r) \o b
  <2>1. /\ r \in Seq(Seq(Row)) /\ t \in Seq(Seq(Row)) /\ c \in 1..Len(r) /\ b \in Seq(Row)
        /\ IsExtended(t, r, c, b)
    BY <1>1, <1>5, <1>6 DEF IsExtended
  <2>2. QED
    BY ONLY <2>1, FlattenExtend
<1>8. StoredRows' = FlattenSeq(RowsOfChunks')
  BY DEF StoredRows, RowsOfChunks
<1>9. QED
  BY <1>1, <1>2, <1>7, <1>8 DEF t

-----------------------------------------------------------------------------
(* Every call is a step of RowStore *)

\* What the caller learns of a call.
LEMMA ReportedCall ==
    /\ \A call : Returns(call) /\ call # "append" =>
                    LastCall'.call = call /\ LastCall'.outcome = "ok"
    /\ \A call : Fails(call) => LastCall'.outcome = "throws"
BY DEF Returns, Fails, LastCall

\* A call that throws and changes no row is a failed call of the row store.
LEMMA FailImplements ==
    ASSUME NEW call, Fails(call), StoredRows' = StoredRows
    PROVE  RowStore!Next
BY ReportedCall DEF RowStore!Next, RowStore!fail

\* A call that returns and changes no row is one that reorganises the row store.
LEMMA ReorganiseImplements ==
    ASSUME NEW call \in {"add_column_definition", "add_column", "create_new_chunk",
                         "compress_chunk"},
           Returns(call), StoredRows' = StoredRows
    PROVE  RowStore!Next
BY ReportedCall DEF RowStore!Next, RowStore!reorganise

\* add_column_definition and add_column: a table with rows is refused by a DebugAssert, and
\* a table without rows has none to lose.
LEMMA ColumnImplements ==
    ASSUME IsDebug, SchemaInv, NEW type \in TypeStrings,
           add_column_definition(type) \/ add_column(type)
    PROVE  RowStore!Next
<1> USE StoredFacts
<1>1. StoredRows' = StoredRows
  <2>1. CASE UNCHANGED <<chunks, current, detached>>
    BY <2>1, KeptRows
  <2>2. CASE /\ MayDefineColumn /\ type \in DataTypes
             /\ UpdateCurrentChunk(Append(CurrentChunk, EmptyValueSegment(type)))
    <3> DEFINE new == Append(CurrentChunk, EmptyValueSegment(type))
    <3>1. \A c \in DOMAIN chunks : Chunk_size(chunks[c]) = 0
      BY <2>2 DEF MayDefineColumn, DebugAssert, HasNoRows
    <3>2. /\ DOMAIN chunks' = DOMAIN chunks
          /\ \A c \in DOMAIN chunks : c # current => chunks'[c] = chunks[c]
          /\ current # 0 => chunks'[current] = new
      BY <2>2, UpdateSizes DEF SchemaInv, IInv
    <3>3. \A c \in DOMAIN chunks : c = current => CurrentChunk = chunks[c] /\ current # 0
      BY DEF CurrentChunk
    <3>4. GoodChunk(CurrentChunk)
      BY ChunksFacts DEF SchemaInv, IInv
    <3>5. \A c \in DOMAIN chunks : c = current => Chunk_size(new) = 0
      BY <2>2, <3>1, <3>3, <3>4, AddSegmentKeeps
    <3> HIDE DEF new
    <3>6. ASSUME NEW c \in DOMAIN chunks PROVE Chunk_size(chunks'[c]) = 0
      BY <3>1, <3>2, <3>3, <3>5
    <3>7. \A c \in DOMAIN chunks : ChunkRows(chunks'[c]) = <<>> /\ ChunkRows(chunks[c]) = <<>>
      BY <3>1, <3>6 DEF ChunkRows
    <3>8. QED
      BY <3>2, <3>7, KeptRows
  <2>3. QED
    BY <2>1, <2>2 DEF add_column_definition, add_column
<1>2. Returns("add_column_definition") \/ Fails("add_column_definition")
      \/ Returns("add_column") \/ Fails("add_column")
  BY DEF add_column_definition, add_column
<1>3. QED
  BY <1>1, <1>2, FailImplements, ReorganiseImplements

\* create_new_chunk pushes a chunk without rows, or nothing.
LEMMA CreateImplements ==
    ASSUME IsDebug, SchemaInv, create_new_chunk
    PROVE  RowStore!Next
<1>1. CASE AllTypesKnown /\ PushChunk(NewChunk) /\ Returns("create_new_chunk")
  <2>1. column_types \in Seq(TypeStrings)
    BY DEF SchemaInv, IInv, TypeOK
  <2>2. GoodChunk(NewChunk) /\ Chunk_size(NewChunk) = 0 /\ Even(NewChunk)
    BY <1>1, <2>1, NewChunkIsGood, RowChunkNew DEF RowChunk, DebugAssert
  <2>3. StoredRows' = StoredRows \o <<>>
    BY <1>1, <2>2, ChunkRowsType, PushedRows
  <2>4. StoredRows' = StoredRows
    BY <2>3, StoredFacts, ConcatEmptySeq
  <2>5. QED
    BY <1>1, <2>4, ReorganiseImplements
<1>2. CASE FailToCreateChunk /\ Fails("create_new_chunk")
  BY <1>2, KeptRows, FailImplements DEF FailToCreateChunk
<1>3. QED
  BY <1>1, <1>2 DEF create_new_chunk

\* compress_chunk replaces a chunk by one with the same rows.
LEMMA CompressImplements ==
    ASSUME IsDebug, SchemaInv, NEW chunk_id, compress_chunk(chunk_id)
    PROVE  RowStore!Next
<1>1. StoredRows' = StoredRows
  <2>1. CASE UNCHANGED <<chunks, current, detached>>
    BY <2>1, KeptRows
  <2>2. CASE /\ chunk_id \in DOMAIN chunks
             /\ Compressible(chunks[chunk_id])
             /\ ~TooLargeToCompress(chunks[chunk_id])
             /\ chunks' = [chunks EXCEPT ![chunk_id] = CompressedChunk(chunks[chunk_id])]
    <3> DEFINE old == chunks[chunk_id]
               new == CompressedChunk(old)
    <3>1. GoodChunk(old) /\ Even(old)
      BY <2>2, StoredFacts
    <3>2. KeepsEntries(old, new) /\ Chunk_size(new) = Chunk_size(old)
      BY <2>2, <3>1, CompressedChunkKeeps DEF Compressible
    <3>3. DOMAIN new = DOMAIN old
      BY DEF CompressedChunk
    <3>4. ChunkRows(new) = ChunkRows(old)
      <4> HIDE DEF old, new
      <4>1. QED
        BY <3>1, <3>2, <3>3, SameRows
    <3>5. /\ DOMAIN chunks' = DOMAIN chunks /\ chunks'[chunk_id] = new
          /\ \A c \in DOMAIN chunks : c # chunk_id => chunks'[c] = chunks[c]
      BY <2>2, StoredFacts
    <3>6. QED
      BY <3>4, <3>5, KeptRows
  <2>3. QED
    BY <2>1, <2>2 DEF compress_chunk
<1>2. Returns("compress_chunk") \/ Fails("compress_chunk")
  BY DEF compress_chunk
<1>3. QED
  BY <1>1, <1>2, FailImplements, ReorganiseImplements

\* emplace_chunk adds the rows of the chunk: to a table without rows in the place of its
\* first chunk, to other tables at the end.
LEMMA EmplaceImplements ==
    ASSUME IsDebug, SchemaInv, NEW chunk \in EmplacedChunks, emplace_chunk(chunk)
    PROVE  RowStore!Next
<1> USE StoredFacts
<1> DEFINE b == ChunkRows(chunk)
<1>1. GoodChunk(chunk) /\ Even(chunk)
  BY EmplacedIsGood, EmplacedChunksAssumption DEF Even
<1>2. b \in Seq(Row)
  BY <1>1, ChunkRowsType
<1>3. CASE Fails("emplace_chunk") /\ UNCHANGED <<chunks, current, detached>>
  BY <1>3, KeptRows, FailImplements
<1>4. ASSUME Returns("emplace_chunk"), StoredRows' = StoredRows \o b PROVE RowStore!Next
  BY <1>4, ReportedCall DEF RowStore!Next, RowStore!emplace_chunk
<1>5. CASE PushChunk(chunk) /\ Returns("emplace_chunk")
  BY <1>1, <1>4, <1>5, PushedRows
<1>6. CASE HasNoRows /\ chunks' = [chunks EXCEPT ![1] = chunk] /\ Returns("emplace_chunk")
  <2>1. 1 \in DOMAIN chunks /\ \A c \in DOMAIN chunks : Chunk_size(chunks[c]) = 0
    BY <1>6, ChunksFacts DEF HasNoRows, SchemaInv, IInv
  <2>2. /\ DOMAIN chunks' = DOMAIN chunks /\ chunks'[1] = chunk
        /\ \A d \in DOMAIN chunks : d # 1 => chunks'[d] = chunks[d]
    BY <1>6, <2>1
  <2> HIDE DEF b
  <2>3. ChunkRows(chunks[1]) = <<>> /\ <<>> \o b = b
    BY <2>1, <1>2, ConcatEmptySeq
  <2>4. ChunkRows(chunks'[1]) = ChunkRows(chunks[1]) \o b
    BY <2>2, <2>3 DEF b
  <2>5. StoredRows' = StoredRows \o b
    BY <2>1, <2>2, <2>4, <1>2, GrownRows
  <2>6. QED
    BY <1>4, <1>6, <2>5
<1>7. QED
  BY <1>3, <1>5, <1>6 DEF emplace_chunk

\* The rows that an append to a chunk adds: the cast row when it returns, and none when it
\* throws or when the row has no values.
AddedRows(chunk, values) ==
    IF Chunk_append_returns(chunk, values) /\ values # <<>> THEN <<CastRow(values)>> ELSE <<>>

\* Chunk::append adds these rows to a chunk that has the columns of the table.
LEMMA ChunkAppendRows ==
    ASSUME IsDebug, NEW chunk, GoodChunk(chunk), RowChunk(chunk), ChunkMatchesColumns(chunk),
           NEW values \in Seq(AllTypeVariant), DefinedAppend(chunk, values),
           \A i \in DOMAIN values : \A type \in DataTypes : type_cast(type, values[i]) # Throws
    PROVE  /\ AddedRows(chunk, values) \in Seq(Row)
           /\ ChunkRows(Chunk_append(chunk, values)) = ChunkRows(chunk) \o AddedRows(chunk, values)
<1> DEFINE new == Chunk_append(chunk, values)
<1>1. Even(chunk) /\ HeadDecides(chunk) /\ ChunkRows(chunk) \in Seq(Row)
  BY ChunkRowsType DEF RowChunk, DebugAssert
<1>2. CASE Chunk_append_returns(chunk, values) /\ values # <<>>
  <2> DEFINE row == [i \in DOMAIN values |-> type_cast(chunk[i].type, values[i])]
  <2>1. DOMAIN values = DOMAIN chunk
    <3>1. Len(values) = Len(chunk) /\ chunk \in Chunk
      BY <1>2 DEF Chunk_append_returns, ArityMatches, DebugAssert, GoodChunk
    <3>2. QED
      BY <3>1 DEF Chunk
  <2>2. CastRow(values) = row
    BY <2>1 DEF CastRow, ChunkMatchesColumns
  <2>3. ChunkRows(new) = ChunkRows(chunk) \o <<row>> /\ row \in Row
    BY <1>2, AddedRow
  <2> HIDE DEF row, new
  <2>4. AddedRows(chunk, values) = <<row>> /\ <<row>> \in Seq(Row)
    BY <1>2, <2>2, <2>3 DEF AddedRows
  <2>5. QED
    BY <2>3, <2>4 DEF new
<1>3. CASE ~(Chunk_append_returns(chunk, values) /\ values # <<>>)
  <2>1. AddedRows(chunk, values) = <<>> /\ <<>> \in Seq(Row)
    BY <1>3 DEF AddedRows
  <2>2. new = chunk
    <3>1. CASE ~Chunk_append_returns(chunk, values)
      BY <3>1, <1>1, CastableAppend
    <3>2. CASE Chunk_append_returns(chunk, values) /\ values = <<>>
      <4>1. Len(chunk) = 0 /\ chunk \in Seq(Segment)
        BY <3>2 DEF Chunk_append_returns, ArityMatches, DebugAssert, GoodChunk, Chunk
      <4>2. DOMAIN chunk = {} /\ chunk = <<>>
        BY <4>1
      <4>3. DOMAIN new = {} /\ new = [i \in {} |-> 0]
        BY <4>2 DEF Chunk_append
      <4>4. <<>> = [i \in {} |-> 0]
        OBVIOUS
      <4>5. QED
        BY <4>2, <4>3, <4>4
    <3>3. QED
      BY <1>3, <3>1, <3>2
  <2> HIDE DEF new
  <2>3. ChunkRows(chunk) \o <<>> = ChunkRows(chunk)
    BY <1>1, ConcatEmptySeq
  <2>4. QED
    BY <2>1, <2>2, <2>3 DEF new
<1>4. QED
  BY <1>2, <1>3

\* What append reports, with the rows it adds, is a step of RowStore.
LEMMA OutcomeImplements ==
    ASSUME NEW chunk, NEW values \in Seq(AllTypeVariant), AppendOutcome(chunk, values),
           UNCHANGED column_types,
           StoredRows \in Seq(Row), AddedRows(chunk, values) \in Seq(Row),
           StoredRows' = StoredRows \o AddedRows(chunk, values)
    PROVE  RowStore!Next
<1> DEFINE r == StoredRows
           row == CastRow(values)
<1>1. CASE Chunk_append_returns(chunk, values)
  <2>1. last' = [call |-> "append", outcome |-> "ok", row |-> values]
    BY <1>1 DEF AppendOutcome
  <2>2. CastRow(values)' = row
    BY DEF CastRow
  <2>3. LastCall'.call = "append" /\ LastCall'.outcome = "ok" /\ LastCall'.row = row
    BY <2>1, <2>2 DEF LastCall, CastRow
  <2>4. CASE values # <<>>
    <3>1. AddedRows(chunk, values) = <<row>>
      BY <1>1, <2>4 DEF AddedRows
    <3>2. row \in Row /\ row # <<>>
      <4>1. DOMAIN row = DOMAIN values /\ DOMAIN values # {}
        <5>1. DOMAIN row = DOMAIN values
          BY DEF CastRow
        <5>2. Len(values) # 0 /\ DOMAIN values = 1..Len(values) /\ Len(values) \in Nat
          BY <2>4
        <5>3. 1 \in DOMAIN values
          BY <5>2
        <5>4. QED
          BY <5>1, <5>3
      <4> HIDE DEF row
      <4>2. <<row>> \in Seq(Row)
        BY <3>1
      <4>3. <<row>>[1] \in Row
        BY <4>2
      <4>4. QED
        BY <4>1, <4>3
    <3>3. r \o <<row>> = Append(r, row)
      <4> HIDE DEF r, row
      <4>1. QED
        BY <3>2, AppendIsConcat DEF r
    <3>4. QED
      BY <2>3, <3>1, <3>2, <3>3 DEF RowStore!Next, RowStore!append, Row, Values
  <2>5. CASE values = <<>>
    <3>1. AddedRows(chunk, values) = <<>> /\ row = <<>>
      BY <2>5 DEF AddedRows, CastRow
    <3>2. r \o <<>> = r
      BY ConcatEmptySeq
    <3>3. QED
      BY <2>3, <3>1, <3>2 DEF RowStore!Next, RowStore!append, Row, Values
  <2>6. QED
    BY <2>4, <2>5
<1>2. CASE ~Chunk_append_returns(chunk, values)
  <2>1. Fails("append") /\ AddedRows(chunk, values) = <<>>
    BY <1>2 DEF AppendOutcome, AddedRows
  <2>2. r \o <<>> = r
    BY ConcatEmptySeq
  <2>3. QED
    BY <2>1, <2>2, FailImplements
<1>3. QED
  BY <1>1, <1>2

\* append adds its row to the last chunk with rows, or to a chunk it pushes, or adds none.
LEMMA AppendImplements ==
    ASSUME IsDebug, TypeStrings \subseteq DataTypes, RowsAreCastable, SchemaInv,
           NEW values \in Rows, append(values)
    PROVE  RowStore!Next
<1>1. /\ values \in Seq(AllTypeVariant) /\ UNCHANGED column_types
      /\ \A i \in DOMAIN values : \A type \in DataTypes : type_cast(type, values[i]) # Throws
  BY RowsAssumption DEF RowsAreCastable, append
<1>2. column_types \in Seq(TypeStrings) /\ AllTypesKnown
  BY DEF SchemaInv, IInv, TypeOK, AllTypesKnown
<1>3. StoredRows \in Seq(Row)
  BY StoredFacts
<1>4. CASE /\ ~is_full(CurrentChunk) /\ DefinedAppend(CurrentChunk, values)
           /\ UpdateCurrentChunk(Chunk_append(CurrentChunk, values))
           /\ AppendOutcome(CurrentChunk, values)
  <2> DEFINE old == chunks[current]
             b == AddedRows(old, values)
  <2>1. current # 0 /\ CurrentChunk = old /\ current \in DOMAIN chunks
    BY <1>4, ChunksFacts DEF SchemaInv, IInv, AppendTargetInTable, CurrentChunk
  <2>2. GoodChunk(old) /\ RowChunk(old) /\ ChunkMatchesColumns(old)
    BY <2>1, StoredFacts DEF SchemaInv, ColumnsMatch
  <2>3. DefinedAppend(old, values) /\ AppendOutcome(old, values)
    BY <1>4, <2>1
  <2>4. b \in Seq(Row) /\ ChunkRows(Chunk_append(old, values)) = ChunkRows(old) \o b
    BY <1>1, <2>2, <2>3, ChunkAppendRows
  <2>5. /\ DOMAIN chunks' = DOMAIN chunks /\ chunks'[current] = Chunk_append(old, values)
        /\ \A c \in DOMAIN chunks : c # current => chunks'[c] = chunks[c]
    BY <1>4, <2>1, UpdateSizes DEF SchemaInv, IInv
  <2>6. \A d \in DOMAIN chunks : d > current => Chunk_size(chunks[d]) = 0
    BY <2>1 DEF SchemaInv, AppendTargetInTable
  <2>7. StoredRows' = StoredRows \o b
    <3>1. ChunkRows(chunks'[current]) = ChunkRows(chunks[current]) \o b
      BY <2>4, <2>5
    <3> HIDE DEF b
    <3>2. QED
      BY <2>1, <2>4, <2>5, <2>6, <3>1, GrownRows
  <2> HIDE DEF old
  <2>8. QED
    BY <1>1, <1>3, <2>3, <2>4, <2>7, OutcomeImplements
<1>5. CASE /\ DefinedAppend(NewChunk, values)
           /\ PushChunk(Chunk_append(NewChunk, values)) /\ AppendOutcome(NewChunk, values)
  <2> DEFINE new == Chunk_append(NewChunk, values)
             b == AddedRows(NewChunk, values)
  <2>1. GoodChunk(NewChunk) /\ RowChunk(NewChunk) /\ Chunk_size(NewChunk) = 0
    BY <1>2, NewChunkIsGood, RowChunkNew
  <2>2. ChunkMatchesColumns(NewChunk)
    BY <1>2 DEF NewChunk, ChunkMatchesColumns, EmptyValueSegment
  <2>3. b \in Seq(Row) /\ ChunkRows(new) = ChunkRows(NewChunk) \o b
    BY <1>1, <1>5, <2>1, <2>2, ChunkAppendRows
  <2>4. GoodChunk(new) /\ Even(new)
    BY <1>1, <1>5, <2>1, ChunkAppendKeeps, RowChunkAfterAppend DEF RowChunk, DebugAssert
  <2>5. ChunkRows(NewChunk) = <<>>
    BY <2>1, ChunkRowsType DEF RowChunk, DebugAssert
  <2> HIDE DEF new, b
  <2>6. ChunkRows(new) = b
    BY <2>3, <2>5, ConcatEmptySeq
  <2>7. StoredRows' = StoredRows \o b
    BY <1>5, <2>4, <2>6, PushedRows DEF new
  <2>8. QED
    BY <1>1, <1>3, <1>5, <2>3, <2>7, OutcomeImplements DEF b
<1>6. QED
  BY <1>2, <1>4, <1>5 DEF append

\* One step of the table is one step of RowStore.
LEMMA StepImplements ==
    ASSUME IsDebug, TypeStrings \subseteq DataTypes, RowsAreCastable, SchemaInv, [Next]_vars
    PROVE  [RowStore!Next]_RowStore!vars
<1>1. CASE UNCHANGED vars
  <2>1. StoredRows' = StoredRows
    BY <1>1 DEF vars, StoredRows, ChunkRows, ChunkRow
  <2>2. LastCall' = LastCall
    BY <1>1 DEF vars, LastCall, CastRow
  <2>3. QED
    BY <2>1, <2>2 DEF RowStore!vars
<1>2. CASE Next
  BY <1>2, ColumnImplements, CreateImplements, AppendImplements, EmplaceImplements,
     CompressImplements DEF Next
<1>3. QED
  BY <1>1, <1>2

\* A table that has just been constructed has no rows.
LEMMA InitImplements ==
    ASSUME Init
    PROVE  ColumnsMatch /\ RowStore!Init
<1>1. DOMAIN chunks = 1..1 /\ chunks[1] = <<>> /\ Len(chunks[1]) = 0 /\ Len(column_types) = 0
  BY DEF Init
<1>2. ColumnsMatch
  BY <1>1 DEF ColumnsMatch, ChunkMatchesColumns
<1>3. ChunkRows(<<>>) = <<>>
  BY NoSegmentsIsGood DEF ChunkRows
<1>4. StoredRows = FlattenSeq(<< <<>> >>)
  BY <1>1, <1>3 DEF StoredRows
<1>5. FlattenSeq(<< <<>> >>) = <<>>
  <2>1. Len(<< <<>> >>) = 1 /\ << <<>> >>[1] = <<>>
    OBVIOUS
  <2>2. QED
    BY <2>1, FlattenOne
<1>6. LastCall = [call |-> "Table", outcome |-> "ok", row |-> <<>>]
  BY DEF Init, LastCall
<1>7. QED
  BY <1>2, <1>4, <1>5, <1>6 DEF RowStore!Init

\* A table in a debug build, used by a caller that keeps columns and chunks in step and
\* passes castable rows, is a sequence of rows: no call loses, tears, reorders or invents a
\* row, wherever the chunks begin and end and however they are encoded.
THEOREM TableImplementsRowStore ==
    ASSUME IsDebug, TypeStrings \subseteq DataTypes, RowsAreCastable, EmplacedHeadsDecide
    PROVE  SchemaSpec => ImplementsRowStore
<1>1. Init => ColumnsMatch /\ RowStore!Init
  BY InitImplements
<1>2. [Next /\ ColumnsMatch']_vars => [Next]_vars
  OBVIOUS
<1>3. SchemaSpec => Spec
  BY <1>2, PTL DEF SchemaSpec, Spec
<1>4. ColumnsMatch /\ [Next /\ ColumnsMatch']_vars => ColumnsMatch'
  BY DEF vars, ColumnsMatch, ChunkMatchesColumns
<1>5. IInv /\ RowsInv /\ AppendTargetInTable /\ ColumnsMatch /\ [Next /\ ColumnsMatch']_vars
          => [RowStore!Next]_RowStore!vars
  BY StepImplements DEF SchemaInv
<1>6. QED
  BY <1>1, <1>3, <1>4, <1>5, TableInvariant, RowsInvariant, TableAppendTargetInTable, PTL
     DEF SchemaSpec, ImplementsRowStore, RowStore!Spec
=============================================================================
