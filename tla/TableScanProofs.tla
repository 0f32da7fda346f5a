-------------------------- MODULE TableScanProofs --------------------------
(***************************************************************************)
(* Table scans select what they should, for all tables, predicates,        *)
(* reference tables and numbers of operators, while chunks are compressed. *)
(* A scan visits its input list by list, so the invariant says what it has *)
(* picked from the lists behind it, and from the list it is in.            *)
(***************************************************************************)
EXTENDS TableScan, TableProofs

-----------------------------------------------------------------------------
(* The loop of scan *)

\* f[i] is what the loop has picked from the first i positions.
IsPicking(f, s, T, n) ==
    /\ f[0] = <<>>
    /\ \A i \in 1..n : f[i] = IF s[i] \in T THEN Append(f[i - 1], s[i]) ELSE f[i - 1]

\* The recursive function in the definition of Picked ...
IsPicked(f, s, T, n) ==
    f = [i \in 0..n |-> IF i = 0 THEN <<>>
                        ELSE IF s[i] \in T THEN Append(f[i - 1], s[i]) ELSE f[i - 1]]

\* ... exists.
LEMMA PickingExists ==
    ASSUME NEW s, NEW T, NEW n \in Nat
    PROVE  \E f : IsPicked(f, s, T, n)
<1> USE DEF IsPicked
<1> DEFINE Is(f, m) == IsPicked(f, s, T, m)
           M == {m \in Nat : \E f : Is(f, m)}
<1>1. 0 \in M
  <2>1. Is([i \in 0..0 |-> <<>>], 0)
    OBVIOUS
  <2>2. QED
    BY <2>1
<1>2. ASSUME NEW m \in Nat, m \in M PROVE m + 1 \in M
  <2>1. PICK f : Is(f, m)
    BY <1>2
  <2> DEFINE last_ == IF s[m + 1] \in T THEN Append(f[m], s[m + 1]) ELSE f[m]
             g == [i \in 0..(m + 1) |-> IF i = m + 1 THEN last_ ELSE f[i]]
  <2>2. ASSUME NEW i \in 0..(m + 1)
        PROVE  g[i] = IF i = 0 THEN <<>>
                      ELSE IF s[i] \in T THEN Append(g[i - 1], s[i]) ELSE g[i - 1]
    <3>1. CASE i = m + 1
      <4>1. g[i] = last_ /\ i # 0
        BY <3>1
      <4>2. i - 1 = m /\ i - 1 \in 0..(m + 1) /\ g[i - 1] = f[m]
        BY <3>1
      <4> HIDE DEF g
      <4>3. QED
        BY <3>1, <4>1, <4>2
    <3>2. CASE i # m + 1
      <4>1. i \in 0..m /\ g[i] = f[i]
        BY <3>2
      <4>2. f[i] = IF i = 0 THEN <<>>
                   ELSE IF s[i] \in T THEN Append(f[i - 1], s[i]) ELSE f[i - 1]
        BY <4>1, <2>1
      <4>3. i # 0 => i - 1 \in 0..(m + 1) /\ i - 1 # m + 1 /\ g[i - 1] = f[i - 1]
        BY <4>1
      <4> HIDE DEF g
      <4>4. QED
        BY <4>1, <4>2, <4>3
    <3>3. QED
      BY <3>1, <3>2
  <2>3. Is(g, m + 1)
    <3> HIDE DEF last_
    <3>1. g = [i \in 0..(m + 1) |-> g[i]]
      OBVIOUS
    <3> HIDE DEF g
    <3>2. QED
      BY <2>2, <3>1
  <2> HIDE DEF g
  <2>4. \E h : Is(h, m + 1)
    BY <2>3
  <2> HIDE DEF Is
  <2>5. m + 1 \in Nat
    OBVIOUS
  <2>6. QED
    BY <2>4, <2>5
<1> HIDE DEF M
<1>3. n \in M
  BY <1>1, <1>2, Induction
<1>4. QED
  BY <1>3 DEF M

\* What Picked computes, step by step.
LEMMA PickedUnfolds ==
    ASSUME NEW s, Len(s) \in Nat, NEW T
    PROVE  \E f : IsPicking(f, s, T, Len(s)) /\ Picked(s, T) = f[Len(s)]
<1> DEFINE f == CHOOSE f : IsPicked(f, s, T, Len(s))
<1>1. IsPicked(f, s, T, Len(s))
  BY PickingExists
<1>2. Picked(s, T) = f[Len(s)]
  BY DEF Picked, IsPicked
<1> HIDE DEF f
<1> USE DEF IsPicked
<1>3. f[0] = <<>>
  BY <1>1
<1>4. ASSUME NEW i \in 1..Len(s)
      PROVE  f[i] = IF s[i] \in T THEN Append(f[i - 1], s[i]) ELSE f[i - 1]
  <2>1. i \in 0..Len(s) /\ i # 0
    OBVIOUS
  <2>2. QED
    BY <1>1, <2>1
<1>5. QED
  BY <1>2, <1>3, <1>4 DEF IsPicking

\* Two loops that meet the same positions and decide alike pick the same.
LEMMA PickingAgrees ==
    ASSUME NEW s, NEW t, NEW T, NEW U, NEW f, NEW g, NEW n \in Nat,
           IsPicking(f, s, T, n), IsPicking(g, t, U, n),
           \A i \in 1..n : s[i] = t[i] /\ (s[i] \in T <=> t[i] \in U)
    PROVE  f[n] = g[n]
<1> USE DEF IsPicking
<1> DEFINE M == {i \in Nat : i <= n => f[i] = g[i]}
<1>1. 0 \in M
  OBVIOUS
<1>2. ASSUME NEW i \in Nat, i \in M PROVE i + 1 \in M
  <2>1. ASSUME i + 1 <= n PROVE f[i + 1] = g[i + 1]
    <3>1. i + 1 \in 1..n /\ (i + 1) - 1 = i /\ f[i] = g[i]
      BY <1>2, <2>1
    <3>2. /\ f[i + 1] = IF s[i + 1] \in T THEN Append(f[i], s[i + 1]) ELSE f[i]
          /\ g[i + 1] = IF t[i + 1] \in U THEN Append(g[i], t[i + 1]) ELSE g[i]
      BY <3>1
    <3>3. QED
      BY <3>1, <3>2
  <2>2. QED
    BY <2>1
<1> HIDE DEF M
<1>3. n \in M
  BY <1>1, <1>2, Induction
<1>4. QED
  BY <1>3 DEF M

\* Picking from a sequence depends only on which of its elements are in the set.
LEMMA PickedAgrees ==
    ASSUME NEW s, Len(s) \in Nat, NEW T, NEW U, \A i \in 1..Len(s) : s[i] \in T <=> s[i] \in U
    PROVE  Picked(s, T) = Picked(s, U)
<1>1. PICK f : IsPicking(f, s, T, Len(s)) /\ Picked(s, T) = f[Len(s)]
  BY PickedUnfolds
<1>2. PICK g : IsPicking(g, s, U, Len(s)) /\ Picked(s, U) = g[Len(s)]
  BY PickedUnfolds
<1>3. f[Len(s)] = g[Len(s)]
  BY <1>1, <1>2, PickingAgrees
<1>4. QED
  BY <1>1, <1>2, <1>3

\* Nothing is picked from the empty sequence.
LEMMA PickedEmpty ==
    ASSUME NEW T
    PROVE  Picked(<<>>, T) = <<>>
<1>1. Len(<<>>) = 0 /\ 0 \in Nat
  OBVIOUS
<1>2. PICK f : IsPicking(f, <<>>, T, 0) /\ Picked(<<>>, T) = f[0]
  BY <1>1, PickedUnfolds
<1>3. QED
  BY <1>2 DEF IsPicking

\* One more position.
LEMMA PickedAppend ==
    ASSUME NEW S, NEW s \in Seq(S), NEW e \in S, NEW T
    PROVE  Picked(Append(s, e), T) = IF e \in T THEN Append(Picked(s, T), e) ELSE Picked(s, T)
<1> DEFINE t == Append(s, e)
           n == Len(s)
<1>1. /\ n \in Nat /\ Len(t) = n + 1 /\ Len(t) \in Nat /\ n + 1 \in 1..Len(t)
      /\ t[n + 1] = e /\ \A i \in 1..n : t[i] = s[i] /\ i \in 1..Len(t)
  OBVIOUS
<1> HIDE DEF t, n
<1>2. PICK f : IsPicking(f, s, T, n) /\ Picked(s, T) = f[n]
  BY <1>1, PickedUnfolds DEF n
<1>3. PICK g : IsPicking(g, t, T, Len(t)) /\ Picked(t, T) = g[Len(t)]
  BY <1>1, PickedUnfolds
<1>4. f[n] = g[n]
  <2>1. IsPicking(g, t, T, n)
    BY <1>1, <1>3 DEF IsPicking
  <2>2. QED
    BY <1>1, <1>2, <2>1, PickingAgrees
<1>5. g[n + 1] = IF e \in T THEN Append(g[n], e) ELSE g[n]
  <2>1. (n + 1) - 1 = n
    BY <1>1
  <2>2. g[n + 1] = IF t[n + 1] \in T THEN Append(g[(n + 1) - 1], t[n + 1]) ELSE g[(n + 1) - 1]
    BY <1>1, <1>3 DEF IsPicking
  <2>3. QED
    BY <1>1, <2>1, <2>2
<1>6. QED
  BY <1>1, <1>2, <1>3, <1>4, <1>5 DEF t

\* What is picked has the type of the positions.
LEMMA PickedType ==
    ASSUME NEW S, NEW s \in Seq(S), NEW T
    PROVE  Picked(s, T) \in Seq(S)
<1> DEFINE n == Len(s)
<1>1. PICK f : IsPicking(f, s, T, n) /\ Picked(s, T) = f[n]
  BY PickedUnfolds
<1>2. n \in Nat /\ \A i \in 1..n : s[i] \in S
  OBVIOUS
<1> DEFINE M == {i \in Nat : i <= n => f[i] \in Seq(S)}
<1> HIDE DEF n
<1>3. 0 \in M
  <2>1. f[0] = <<>> /\ <<>> \in Seq(S)
    BY <1>1 DEF IsPicking
  <2>2. QED
    BY <2>1
<1>4. ASSUME NEW i \in Nat, i \in M PROVE i + 1 \in M
  <2>1. ASSUME i + 1 <= n PROVE f[i + 1] \in Seq(S)
    <3>1. i + 1 \in 1..n /\ (i + 1) - 1 = i /\ f[i] \in Seq(S) /\ s[i + 1] \in S
      BY <1>2, <1>4, <2>1
    <3>2. f[i + 1] = IF s[i + 1] \in T THEN Append(f[i], s[i + 1]) ELSE f[i]
      BY <3>1, <1>1 DEF IsPicking
    <3>3. QED
      BY <3>1, <3>2
  <2>2. QED
    BY <2>1
<1> HIDE DEF M
<1>5. n \in M
  BY <1>2, <1>3, <1>4, Induction
<1>6. QED
  BY <1>1, <1>2, <1>5 DEF M

\* Picking from two lists in a row is picking from each.
LEMMA PickedConcat ==
    ASSUME NEW S, NEW s \in Seq(S), NEW t \in Seq(S), NEW T
    PROVE  Picked(s \o t, T) = Picked(s, T) \o Picked(t, T)
<1> DEFINE Part(i) == SubSeq(t, 1, i)
           n == Len(t)
           M == {i \in Nat : i <= n => Picked(s \o Part(i), T) = Picked(s, T) \o Picked(Part(i), T)}
<1>0. n \in Nat /\ Picked(s, T) \in Seq(S)
  BY PickedType
<1>1. 0 \in M
  <2>1. Part(0) = <<>> /\ s \o <<>> = s
    BY ConcatEmptySeq
  <2>2. Picked(s, T) \o <<>> = Picked(s, T)
    BY <1>0, ConcatEmptySeq
  <2>3. QED
    BY <2>1, <2>2, PickedEmpty
<1>2. ASSUME NEW i \in Nat, i \in M PROVE i + 1 \in M
  <2> SUFFICES ASSUME i + 1 <= n
               PROVE  Picked(s \o Part(i + 1), T) = Picked(s, T) \o Picked(Part(i + 1), T)
    OBVIOUS
  <2> DEFINE p == Part(i)
             e == t[i + 1]
             a == Picked(s, T)
             b == Picked(p, T)
  <2>1. Picked(s \o p, T) = a \o b
    BY <1>0, <1>2
  <2>2. p \in Seq(S) /\ e \in S /\ Part(i + 1) = Append(p, e)
    OBVIOUS
  <2> HIDE DEF p, e, Part
  <2>3. s \o Append(p, e) = Append(s \o p, e) /\ s \o p \in Seq(S)
    BY <2>2
  <2>4. a \in Seq(S) /\ b \in Seq(S)
    BY <2>2, PickedType
  <2>5. Picked(Append(p, e), T) = IF e \in T THEN Append(b, e) ELSE b
    BY <2>2, PickedAppend
  <2>6. Picked(Append(s \o p, e), T) = IF e \in T THEN Append(a \o b, e) ELSE a \o b
    <3> DEFINE q == s \o p
    <3>1. q \in Seq(S) /\ Picked(q, T) = a \o b
      BY <2>1, <2>3
    <3> HIDE DEF q, a, b
    <3>2. Picked(Append(q, e), T) = IF e \in T THEN Append(Picked(q, T), e) ELSE Picked(q, T)
      BY <3>1, <2>2, PickedAppend
    <3>3. QED
      BY <3>1, <3>2 DEF q
  <2> HIDE DEF a, b
  <2>7. a \o Append(b, e) = Append(a \o b, e)
    BY <2>2, <2>4
  <2>8. QED
    BY <2>2, <2>3, <2>5, <2>6, <2>7 DEF a
<1> HIDE DEF M
<1>3. n \in M
  BY <1>0, <1>1, <1>2, Induction
<1>4. SubSeq(t, 1, n) = t
  OBVIOUS
<1>5. n <= n => Picked(s \o Part(n), T) = Picked(s, T) \o Picked(Part(n), T)
  BY <1>3 DEF M
<1>6. n <= n /\ Part(n) = t
  BY <1>0, <1>4
<1> HIDE DEF n, Part
<1>7. QED
  BY <1>5, <1>6

-----------------------------------------------------------------------------
(* The base table *)

\* Scanning a segment, by values or by value ids, is comparing its entries.
FaithfulScan(segment) ==
    \A scan_type \in ScanTypes, v \in Int, k \in 1..Segment_size(segment) :
        Selects(scan_type, segment, v, k) <=> compare(scan_type, Entry(segment, k), v)

\* A chunk whose segments are equally long, have the columns of the table and can be scanned.
ScanChunk(chunk) ==
    /\ DOMAIN chunk = DOMAIN Schema
    /\ HeadDecides(chunk) /\ Even(chunk)
    /\ \A i \in DOMAIN chunk : FaithfulScan(chunk[i])

BaseInv == /\ IInv
           /\ column_types = Schema
           /\ \A c \in DOMAIN chunks : ScanChunk(chunks[c])

\* Value segments are compared by value.
LEMMA ValuesAreFaithful ==
    ASSUME NEW segment, segment.kind = "value"
    PROVE  FaithfulScan(segment)
BY DEF FaithfulScan, Selects, Entry

\* Compressed segments are compared by value id, to the same effect.
LEMMA CompressedIsFaithful ==
    ASSUME NEW segment \in ValueSegment, ~DictionaryTooLarge(segment.values)
    PROVE  FaithfulScan(CompressedSegment(segment))
<1> DEFINE new == CompressedSegment(segment)
<1>1. /\ Segment_size(new) = Segment_size(segment)
      /\ \A k \in 1..Segment_size(segment) : Entry(new, k) = Entry(segment, k)
  BY CompressionIsLossless
<1>2. segment.kind = "value"
  BY DEF ValueSegment
<1>3. ASSUME NEW scan_type \in ScanTypes, NEW v \in Int, NEW k \in 1..Segment_size(segment)
      PROVE  Selects(scan_type, new, v, k) <=> compare(scan_type, Entry(new, k), v)
  <2>1. Selects(scan_type, new, v, k) <=> Selects(scan_type, segment, v, k)
    BY ScanIgnoresCompression
  <2>2. Selects(scan_type, segment, v, k) <=> compare(scan_type, Entry(segment, k), v)
    BY <1>2, ValuesAreFaithful DEF FaithfulScan
  <2> HIDE DEF new
  <2>3. QED
    BY <1>1, <2>1, <2>2
<1> HIDE DEF new
<1>4. QED
  BY <1>1, <1>3 DEF FaithfulScan, new

\* The chunk create_new_chunk builds, which is also the first chunk of the base table.
LEMMA NewScanChunk ==
    ASSUME column_types = Schema
    PROVE  GoodChunk(NewChunk) /\ ScanChunk(NewChunk) /\ Chunk_size(NewChunk) = 0 /\ AllTypesKnown
<1>1. column_types \in Seq(TypeStrings) /\ AllTypesKnown
  BY SchemaAssumption DEF AllTypesKnown
<1>2. GoodChunk(NewChunk) /\ Chunk_size(NewChunk) = 0 /\ RowChunk(NewChunk) /\ Even(NewChunk)
  BY <1>1, NewChunkIsGood, RowChunkNew
<1>3. DOMAIN NewChunk = DOMAIN Schema /\ \A i \in DOMAIN NewChunk : NewChunk[i].kind = "value"
  BY DEF NewChunk, EmptyValueSegment
<1>4. QED
  BY <1>1, <1>2, <1>3, ValuesAreFaithful DEF ScanChunk, RowChunk

\* Chunk::append of castable values.
LEMMA AppendedScanChunk ==
    ASSUME NEW chunk, GoodChunk(chunk), ScanChunk(chunk),
           NEW values \in Seq(AllTypeVariant), DefinedAppend(chunk, values),
           \A i \in DOMAIN values : \A type \in DataTypes : type_cast(type, values[i]) # Throws
    PROVE  ScanChunk(Chunk_append(chunk, values))
<1> DEFINE new == Chunk_append(chunk, values)
<1>1. RowChunk(chunk) /\ Even(chunk) /\ HeadDecides(chunk)
  BY DEF ScanChunk, RowChunk, DebugAssert
<1>2. RowChunk(new) /\ Even(new)
  BY <1>1, RowChunkAfterAppend
<1>3. /\ DOMAIN new = DOMAIN chunk
      /\ ~Chunk_append_returns(chunk, values) => new = chunk
      /\ Chunk_append_returns(chunk, values) => \A i \in DOMAIN chunk : new[i].kind = "value"
  BY <1>1, CastableAppend
<1> HIDE DEF new
<1>4. \A i \in DOMAIN new : FaithfulScan(new[i])
  BY <1>3, ValuesAreFaithful DEF ScanChunk
<1>5. QED
  BY <1>2, <1>3, <1>4 DEF ScanChunk, RowChunk, new

\* compress_chunk changes no size and no entry, and what it leaves can be scanned.
LEMMA CompressBase ==
    ASSUME BaseInv, NEW chunk_id, compress_chunk(chunk_id)
    PROVE  /\ DOMAIN chunks' = DOMAIN chunks
           /\ \A c \in DOMAIN chunks : /\ ScanChunk(chunks'[c])
                                       /\ Chunk_size(chunks'[c]) = Chunk_size(chunks[c])
<1> DEFINE old == chunks[chunk_id]
           new == CompressedChunk(old)
<1>1. CASE UNCHANGED chunks
  BY <1>1 DEF BaseInv
<1>2. CASE /\ chunk_id \in DOMAIN chunks
           /\ Compressible(old) /\ ~TooLargeToCompress(old)
           /\ chunks' = [chunks EXCEPT ![chunk_id] = new]
  <2>1. GoodChunk(old) /\ ScanChunk(old) /\ \A i \in DOMAIN old : old[i].kind = "value"
    BY <1>2 DEF BaseInv, IInv, ChunksInv, Compressible
  <2>2. RowChunk(old) /\ Even(old)
    BY <2>1 DEF ScanChunk, RowChunk, DebugAssert
  <2>3. RowChunk(new) /\ Even(new) /\ Chunk_size(new) = Chunk_size(old)
    BY <1>2, <2>1, <2>2, RowChunkAfterCompression, CompressedChunkKeeps
  <2>4. \A i \in DOMAIN old : old[i] \in ValueSegment /\ ~DictionaryTooLarge(old[i].values)
    BY <1>2, <2>1 DEF GoodChunk, Chunk, Segment, DictionarySegment, TooLargeToCompress
  <2>5. DOMAIN new = DOMAIN old /\ \A i \in DOMAIN old : FaithfulScan(new[i])
    BY <2>4, CompressedIsFaithful DEF CompressedChunk
  <2> HIDE DEF new, old
  <2>6. ScanChunk(new)
    BY <2>1, <2>3, <2>5 DEF ScanChunk, RowChunk
  <2>7. /\ DOMAIN chunks' = DOMAIN chunks /\ chunks'[chunk_id] = new
        /\ \A c \in DOMAIN chunks : c # chunk_id => chunks'[c] = chunks[c]
    BY <1>2, ChunksFacts DEF BaseInv, IInv
  <2>8. QED
    BY <2>3, <2>6, <2>7 DEF BaseInv, old
<1>3. QED
  BY <1>1, <1>2 DEF compress_chunk

\* A step of the base table keeps its entries and the chunks as they should be.
LEMMA BaseStepKeeps ==
    ASSUME RowsAreCastable, BaseInv, BaseStep
    PROVE  BaseInv' /\ EntriesAreKept
<1>1. Next /\ UNCHANGED column_types
  <2>1. 1..MaxChunks \subseteq 1..(MaxChunks + 1)
    BY BoundsAssumption
  <2>2. QED
    BY <2>1 DEF BaseStep, Next, append, create_new_chunk, compress_chunk
<1>2. IInv' /\ (EntriesAreKept \/ UNCHANGED vars)
  BY <1>1, NextIInv DEF BaseInv
<1>3. EntriesAreKept
  BY <1>2, NoChunkChanges DEF BaseInv, IInv, vars
<1>4. /\ ChunksInv /\ column_types = Schema
      /\ \A c \in DOMAIN chunks : ScanChunk(chunks[c]) /\ GoodChunk(chunks[c])
  BY DEF BaseInv, IInv, ChunksInv
<1>5. GoodChunk(NewChunk) /\ ScanChunk(NewChunk) /\ AllTypesKnown
  BY <1>4, NewScanChunk
<1>6. ASSUME NEW new, PushChunk(new), ScanChunk(new)
      PROVE  \A c \in DOMAIN chunks' : ScanChunk(chunks'[c])
  <2>1. /\ DOMAIN chunks' = 1..(Len(chunks) + 1)
        /\ \A c \in DOMAIN chunks : chunks'[c] = chunks[c]
        /\ chunks'[Len(chunks) + 1] = new
    BY <1>4, <1>6, PushSizes
  <2>2. QED
    BY <2>1, <1>4, <1>6, ChunksFacts
<1>7. \A c \in DOMAIN chunks' : ScanChunk(chunks'[c])
  <2>1. ASSUME NEW values \in Rows, append(values)
        PROVE  \A c \in DOMAIN chunks' : ScanChunk(chunks'[c])
    <3>0. /\ values \in Seq(AllTypeVariant)
          /\ \A i \in DOMAIN values : \A type \in DataTypes : type_cast(type, values[i]) # Throws
      BY RowsAssumption DEF RowsAreCastable
    <3>1. CASE /\ DefinedAppend(CurrentChunk, values)
               /\ UpdateCurrentChunk(Chunk_append(CurrentChunk, values))
      <4>1. /\ DOMAIN chunks' = DOMAIN chunks
            /\ \A c \in DOMAIN chunks : c # current => chunks'[c] = chunks[c]
            /\ current # 0 => chunks'[current] = Chunk_append(CurrentChunk, values)
        BY <1>4, <3>1, UpdateSizes
      <4>2. ASSUME current # 0 PROVE ScanChunk(Chunk_append(CurrentChunk, values))
        <5>1. GoodChunk(CurrentChunk) /\ ScanChunk(CurrentChunk)
          BY <4>2, <1>4, ChunksFacts DEF CurrentChunk
        <5>2. QED
          BY <5>1, <3>0, <3>1, AppendedScanChunk
      <4>3. \A c \in DOMAIN chunks : c = current => current # 0
        BY <1>4, ChunksFacts
      <4>4. QED
        BY <1>4, <4>1, <4>2, <4>3
    <3>2. CASE DefinedAppend(NewChunk, values) /\ PushChunk(Chunk_append(NewChunk, values))
      BY <3>0, <3>2, <1>5, <1>6, AppendedScanChunk
    <3>3. QED
      BY <2>1, <3>1, <3>2, <1>5 DEF append
  <2>2. ASSUME create_new_chunk PROVE \A c \in DOMAIN chunks' : ScanChunk(chunks'[c])
    BY <2>2, <1>5, <1>6 DEF create_new_chunk
  <2>3. ASSUME NEW chunk_id, compress_chunk(chunk_id)
        PROVE  \A c \in DOMAIN chunks' : ScanChunk(chunks'[c])
    BY <2>3, CompressBase
  <2>4. QED
    BY <2>1, <2>2, <2>3 DEF BaseStep
<1>8. QED
  BY <1>1, <1>2, <1>3, <1>4, <1>7 DEF BaseInv

-----------------------------------------------------------------------------
(* The operators *)

RowIDs == [chunk_id : Nat, chunk_offset : Nat]

ReferenceChunk == [table : 0..NumOps, columns : Seq(Nat), pos_list : Seq(RowIDs)]

Operator ==
    [status : {"new", "wrapped", "running", "done", "throws"}, input : 0..NumOps,
     types : Seq(TypeStrings),
     predicate : [column_id : Nat, scan_type : ScanTypes \cup {"none"},
                  type : DataTypes \cup {"none"}, value : Int],
     chunk_id : Nat, start_index : Nat, found : Seq(RowIDs), output : Seq(ReferenceChunk),
     rows : Seq(RowIDs)]

\* The position lists of a table that may be scanned, one per chunk.
TableLists == [c \in DOMAIN chunks |-> [k \in 1..Chunk_size(chunks[c]) |-> RowID(c, k)]]
OutputLists(output) == [c \in DOMAIN output |-> output[c].pos_list]
Lists(op) == IF op.input = Base THEN TableLists ELSE OutputLists(ops[op.input].output)

\* A table that a scan may read: its positions are positions of the base table, and all its
\* chunks with positions show the same column of the base table as their i-th column.
Readable(op) ==
    /\ op.output # <<>>
    /\ \A i \in DOMAIN op.types \cap DOMAIN Schema :
          /\ op.output[1].columns[i] \in DOMAIN Schema
          /\ \A c \in DOMAIN op.output :
                op.output[c].pos_list # <<>> => op.output[c].columns[i] = op.output[1].columns[i]
    /\ \A c \in DOMAIN op.output :
          /\ op.output[c].pos_list \in Seq(Positions)
          /\ op.output[c].pos_list # <<>> => op.output[c].table = Base

\* The output of a scan: one chunk without positions, or chunks with positions only, each
\* with all columns of the base table.
AllColumns == [i \in DOMAIN Schema |-> i]
Shape(output) ==
    /\ output # <<>>
    /\ \A c \in DOMAIN output : output[c].pos_list \in Seq(Positions)
    /\ \/ Len(output) = 1 /\ output[1].pos_list = <<>>
       \/ \A c \in DOMAIN output : /\ output[c].pos_list # <<>>
                                   /\ output[c].table = Base /\ output[c].columns = AllColumns

\* What a scan that has been accepted reads and has written.
Accepted(op) ==
    /\ op.predicate.scan_type \in ScanTypes
    /\ op.predicate.column_id \in DOMAIN op.types \cap DOMAIN Schema
    /\ op.input = Base => op.types = Schema
    /\ op.input # Base => /\ op.input \in Ops /\ ops[op.input].status \in {"wrapped", "done"}
                          /\ op.types = ops[op.input].types
    /\ BaseColumn(op) \in DOMAIN Schema
    /\ op.rows \in Seq(Positions)
    /\ Shape(op.output)

\* A scan has picked from the lists before chunk_id, and from the positions of that list
\* before start_index.
Halfway(op) ==
    LET lists == Lists(op)
    IN  /\ op.rows = FlattenSeq(lists)
        /\ op.chunk_id \in 1..(Len(lists) + 1)
        /\ PositionsOf(op.output)
               = Picked(FlattenSeq(SubSeq(lists, 1, op.chunk_id - 1)), Satisfying(op))
        /\ op.chunk_id <= Len(lists) =>
              /\ op.start_index \in 1..(Len(lists[op.chunk_id]) + 1)
              /\ lists[op.chunk_id] # <<>> => op.start_index <= Len(lists[op.chunk_id])
              /\ op.found = Picked(SubSeq(lists[op.chunk_id], 1, op.start_index - 1), Satisfying(op))

Finished(op) ==
    /\ PositionsOf(op.output) = Picked(op.rows, Satisfying(op))
    /\ op.output[1].pos_list = <<>> => op.output[1].columns = [i \in DOMAIN op.types |-> i]

OpOK(op) ==
    /\ op.status = "new" => op = Created
    /\ op.status = "wrapped" => Readable(op)
    /\ op.status \in {"running", "done"} => Accepted(op)
    /\ op.status = "running" => Halfway(op)
    /\ op.status = "done" => Finished(op)

\* The inductive invariant.
ScanInv == /\ BaseInv
           /\ ops \in [Ops -> Operator]
           /\ \A o \in Ops : OpOK(ops[o])

\* A position of the base table leads to an entry in every column.
LEMMA PositionFacts ==
    ASSUME BaseInv
    PROVE  /\ Positions \subseteq RowIDs
           /\ \A c \in DOMAIN chunks : \A k \in 1..Chunk_size(chunks[c]) : RowID(c, k) \in Positions
           /\ \A r \in Positions :
                 /\ r.chunk_id \in DOMAIN chunks
                 /\ \A i \in DOMAIN Schema : /\ i \in DOMAIN chunks[r.chunk_id]
                                             /\ r.chunk_offset
                                                    \in 1..Segment_size(chunks[r.chunk_id][i])
           /\ \A r \in RowIDs : /\ r.chunk_id \in DOMAIN chunks
                                /\ r.chunk_offset \in 1..Chunk_size(chunks[r.chunk_id])
                                => r \in Positions
<1>1. /\ Len(chunks) \in Nat /\ DOMAIN chunks = 1..Len(chunks)
      /\ \A c \in DOMAIN chunks : Chunk_size(chunks[c]) \in Nat
  BY ChunksFacts DEF BaseInv, IInv
<1>2. \A c \in DOMAIN chunks : \A k \in 1..Chunk_size(chunks[c]) :
          /\ RowID(c, k) \in Positions /\ RowID(c, k) \in RowIDs
          /\ RowID(c, k).chunk_id = c /\ RowID(c, k).chunk_offset = k
  BY <1>1 DEF Positions, RowID, RowIDs
<1>3. \A r \in Positions : \E c \in DOMAIN chunks : \E k \in 1..Chunk_size(chunks[c]) : r = RowID(c, k)
  BY DEF Positions
<1>4. ASSUME NEW r \in Positions
      PROVE  /\ r \in RowIDs /\ r.chunk_id \in DOMAIN chunks
             /\ \A i \in DOMAIN Schema : /\ i \in DOMAIN chunks[r.chunk_id]
                                         /\ r.chunk_offset
                                                \in 1..Segment_size(chunks[r.chunk_id][i])
  <2>0. PICK c \in DOMAIN chunks : \E k \in 1..Chunk_size(chunks[c]) : r = RowID(c, k)
    BY <1>3
  <2>1. PICK k \in 1..Chunk_size(chunks[c]) : r = RowID(c, k)
    BY <2>0
  <2>2. ScanChunk(chunks[c])
    BY DEF BaseInv
  <2>3. QED
    BY <1>2, <2>1, <2>2 DEF ScanChunk, Even
<1>5. ASSUME NEW r \in RowIDs, r.chunk_id \in DOMAIN chunks,
             r.chunk_offset \in 1..Chunk_size(chunks[r.chunk_id])
      PROVE  r \in Positions
  <2>1. r = RowID(r.chunk_id, r.chunk_offset)
    BY DEF RowIDs, RowID
  <2>2. QED
    BY <1>2, <1>5, <2>1
<1>6. QED
  BY <1>2, <1>4, <1>5

\* The position lists of the base table.
LEMMA TableListsFacts ==
    ASSUME BaseInv
    PROVE  /\ TableLists \in Seq(Seq(Positions)) /\ Len(TableLists) = Len(chunks)
           /\ \A c \in DOMAIN chunks :
                 TableLists[c] = [k \in 1..Chunk_size(chunks[c]) |-> RowID(c, k)]
<1>1. /\ Len(chunks) \in Nat /\ DOMAIN chunks = 1..Len(chunks)
      /\ \A c \in DOMAIN chunks : Chunk_size(chunks[c]) \in Nat
  BY ChunksFacts DEF BaseInv, IInv
<1>2. \A c \in DOMAIN chunks : [k \in 1..Chunk_size(chunks[c]) |-> RowID(c, k)] \in Seq(Positions)
  <2> TAKE c \in DOMAIN chunks
  <2>1. [k \in 1..Chunk_size(chunks[c]) |-> RowID(c, k)] \in [1..Chunk_size(chunks[c]) -> Positions]
    BY PositionFacts
  <2>2. QED
    BY <1>1, <2>1
<1>3. TableLists \in [1..Len(chunks) -> Seq(Positions)]
  BY <1>1, <1>2 DEF TableLists
<1>4. QED
  BY <1>1, <1>3 DEF TableLists

\* The position lists of an output.
LEMMA OutputListsFacts ==
    ASSUME NEW output \in Seq(ReferenceChunk), NEW S,
           \A c \in DOMAIN output : output[c].pos_list \in Seq(S)
    PROVE  /\ OutputLists(output) \in Seq(Seq(S)) /\ Len(OutputLists(output)) = Len(output)
           /\ \A c \in DOMAIN output : OutputLists(output)[c] = output[c].pos_list
           /\ PositionsOf(output) = FlattenSeq(OutputLists(output))
<1>1. Len(output) \in Nat /\ DOMAIN output = 1..Len(output)
  OBVIOUS
<1>2. OutputLists(output) \in [1..Len(output) -> Seq(S)]
  BY <1>1 DEF OutputLists
<1>3. PositionsOf(output) = FlattenSeq(OutputLists(output))
  BY DEF PositionsOf, OutputLists
<1>4. QED
  BY <1>1, <1>2, <1>3 DEF OutputLists

\* The output of a finished scan can be scanned.
LEMMA DoneIsReadable ==
    ASSUME NEW op \in Operator, Accepted(op), Finished(op)
    PROVE  Readable(op)
<1>1. /\ op.output \in Seq(ReferenceChunk) /\ op.output # <<>> /\ Shape(op.output)
      /\ 1 \in DOMAIN op.output
  BY DEF Accepted, Shape, Operator
<1>2. CASE Len(op.output) = 1 /\ op.output[1].pos_list = <<>>
  <2>1. op.output[1].columns = [i \in DOMAIN op.types |-> i]
    BY <1>2 DEF Finished
  <2>2. \A c \in DOMAIN op.output : op.output[c].pos_list = <<>>
    BY <1>1, <1>2
  <2>3. QED
    BY <1>1, <2>1, <2>2 DEF Readable, Shape
<1>3. CASE \A c \in DOMAIN op.output : /\ op.output[c].pos_list # <<>>
                                       /\ op.output[c].table = Base
                                       /\ op.output[c].columns = AllColumns
  BY <1>1, <1>3 DEF Readable, Shape, AllColumns
<1>4. QED
  BY <1>1, <1>2, <1>3 DEF Shape

\* The input of a scan, and the lists it visits.
LEMMA ListsFacts ==
    ASSUME ScanInv, NEW op \in Operator, Accepted(op)
    PROVE  /\ Lists(op) \in Seq(Seq(Positions))
           /\ op.input # Base => Readable(ops[op.input])
<1>1. CASE op.input = Base
  BY <1>1, TableListsFacts DEF Lists, ScanInv
<1>2. CASE op.input # Base
  <2> DEFINE in == ops[op.input]
  <2>1. in \in Operator /\ OpOK(in) /\ in.status \in {"wrapped", "done"}
    BY <1>2 DEF ScanInv, Accepted
  <2> HIDE DEF in
  <2>2. Readable(in)
    BY <2>1, DoneIsReadable DEF OpOK
  <2>3. in.output \in Seq(ReferenceChunk)
    BY <2>1 DEF Operator
  <2>4. OutputLists(in.output) \in Seq(Seq(Positions))
    BY <2>2, <2>3, OutputListsFacts DEF Readable
  <2>5. QED
    BY <1>2, <2>2, <2>4 DEF Lists, in
<1>3. QED
  BY <1>1, <1>2

-----------------------------------------------------------------------------
(* Steps of the base table *)

\* What a position leads to in a table with these chunks.
LeadsToEntries(r, table) ==
    /\ r.chunk_id \in DOMAIN table /\ r.chunk_offset <= Chunk_size(table[r.chunk_id])
    /\ \A i \in DOMAIN Schema : /\ table[r.chunk_id][i] \in Segment
                                /\ r.chunk_offset \in 1..Segment_size(table[r.chunk_id][i])

LEMMA PositionEntries ==
    ASSUME BaseInv, NEW r \in Positions
    PROVE  LeadsToEntries(r, chunks)
<1>1. PICK c : c = r.chunk_id
  OBVIOUS
<1>2. /\ c \in DOMAIN chunks
      /\ \A i \in DOMAIN Schema : /\ i \in DOMAIN chunks[c]
                                  /\ r.chunk_offset \in 1..Segment_size(chunks[c][i])
  BY <1>1, PositionFacts
<1>3. ScanChunk(chunks[c]) /\ chunks[c] \in Chunk
  BY <1>2, ChunksFacts DEF BaseInv, IInv
<1>4. \A i \in DOMAIN Schema : chunks[c][i] \in Segment
  BY <1>2, <1>3 DEF Chunk
<1>5. 1 \in DOMAIN Schema
  BY SchemaAssumption
<1>6. r.chunk_offset <= Chunk_size(chunks[c])
  BY <1>2, <1>3, <1>5 DEF ScanChunk, Even
<1>7. QED
  BY <1>1, <1>2, <1>4, <1>6 DEF LeadsToEntries

\* Positions stay positions, and lead to the same entries.
LEMMA PositionsAreKept ==
    ASSUME BaseInv, BaseInv', EntriesAreKept
    PROVE  /\ Positions \subseteq Positions'
           /\ \A r \in Positions, i \in DOMAIN Schema :
                 Entry(chunks'[r.chunk_id][i], r.chunk_offset)
                     = Entry(chunks[r.chunk_id][i], r.chunk_offset)
           /\ \A r \in Positions : LeadsToEntries(r, chunks) /\ LeadsToEntries(r, chunks')
<1>1. ASSUME NEW r \in Positions
      PROVE  /\ r \in Positions'
             /\ \A i \in DOMAIN Schema : Entry(chunks'[r.chunk_id][i], r.chunk_offset)
                                             = Entry(chunks[r.chunk_id][i], r.chunk_offset)
             /\ LeadsToEntries(r, chunks) /\ LeadsToEntries(r, chunks')
  <2> DEFINE c == r.chunk_id
             k == r.chunk_offset
  <2>1. /\ r \in RowIDs /\ c \in DOMAIN chunks
        /\ \A i \in DOMAIN Schema : i \in DOMAIN chunks[c] /\ k \in 1..Segment_size(chunks[c][i])
    BY PositionFacts
  <2>2. c \in DOMAIN chunks' /\ KeepsEntries(chunks[c], chunks'[c])
    BY <2>1 DEF EntriesAreKept
  <2>3. ScanChunk(chunks'[c]) /\ chunks'[c] \in Chunk /\ Chunk_size(chunks'[c]) \in Nat
    <3>1. (ScanChunk(chunks[c]))' /\ (GoodChunk(chunks[c]))'
      BY <2>2 DEF BaseInv, IInv, ChunksInv
    <3>2. ScanChunk(chunks'[c]) /\ GoodChunk(chunks'[c])
      BY <3>1 DEF ScanChunk, HeadDecides, Even, FaithfulScan, GoodChunk, Lopsided, ChunkWellFormed
    <3>3. QED
      BY <3>2, ChunkFacts DEF GoodChunk
  <2>4. \A i \in DOMAIN Schema : /\ k \in Nat /\ k >= 1 /\ k <= Segment_size(chunks'[c][i])
                                 /\ Entry(chunks'[c][i], k) = Entry(chunks[c][i], k)
    BY <2>1, <2>2 DEF KeepsEntries, RowIDs
  <2>5. 1 \in DOMAIN Schema
    BY SchemaAssumption
  <2>6. k <= Chunk_size(chunks'[c])
    BY <2>3, <2>4, <2>5 DEF ScanChunk, Even
  <2>7. r \in Positions'
    <3>1. k \in 1..Chunk_size(chunks'[c])
      BY <2>3, <2>4, <2>5, <2>6
    <3>2. r = RowID(c, k)
      BY <2>1 DEF RowIDs, RowID
    <3>3. RowID(c, k) \in {RowID(c, j) : j \in 1..Chunk_size(chunks'[c])}
      BY <3>1
    <3> HIDE DEF c, k
    <3>4. QED
      BY <2>2, <3>2, <3>3 DEF Positions
  <2>8. LeadsToEntries(r, chunks')
    <3>1. \A i \in DOMAIN Schema : /\ chunks'[c][i] \in Segment /\ Segment_size(chunks'[c][i]) \in Nat
      <4>1. DOMAIN chunks'[c] = DOMAIN Schema
        BY <2>3 DEF ScanChunk
      <4>2. QED
        BY <2>3, <4>1, SegmentSizeType DEF Chunk
    <3> HIDE DEF c, k
    <3>2. QED
      BY <2>2, <2>4, <2>6, <3>1 DEF LeadsToEntries, c, k
  <2>9. LeadsToEntries(r, chunks)
    BY PositionEntries
  <2>10. QED
    BY <2>4, <2>7, <2>8, <2>9
<1>2. QED
  BY <1>1

\* A step of the base table changes nothing about what the operators have read and written.
LEMMA BaseStepInv ==
    ASSUME RowsAreCastable, ScanInv, BaseStep
    PROVE  ScanInv'
<1>1. BaseInv /\ BaseInv' /\ EntriesAreKept /\ ops' = ops
  BY BaseStepKeeps DEF ScanInv, BaseStep
<1>2. /\ Positions \subseteq Positions'
      /\ \A r \in Positions, i \in DOMAIN Schema :
            Entry(chunks'[r.chunk_id][i], r.chunk_offset)
                = Entry(chunks[r.chunk_id][i], r.chunk_offset)
  BY <1>1, PositionsAreKept
<1>3. Seq(Positions) \subseteq Seq(Positions')
  BY <1>2
<1>4. ASSUME NEW op \in Operator, Accepted(op)
      PROVE  /\ Accepted(op)' /\ BaseColumn(op)' = BaseColumn(op)
             /\ \A r \in Positions : r \in Satisfying(op)' <=> r \in Satisfying(op)
  <2>1. BaseColumn(op)' = BaseColumn(op) /\ BaseColumn(op) \in DOMAIN Schema
    BY <1>1, <1>4 DEF BaseColumn, Accepted
  <2>2. Shape(op.output)'
    BY <1>3, <1>4 DEF Accepted, Shape
  <2>3. Accepted(op)'
    BY <1>1, <1>3, <1>4, <2>1, <2>2 DEF Accepted
  <2>4. ASSUME NEW r \in Positions PROVE r \in Satisfying(op)' <=> r \in Satisfying(op)
    <3> DEFINE i == BaseColumn(op)
               e == Entry(chunks[r.chunk_id][i], r.chunk_offset)
               f == Entry(chunks'[r.chunk_id][i], r.chunk_offset)
    <3>1. e = f /\ r \in Positions'
      BY <1>2, <2>1
    <3>2. r \in Satisfying(op) <=> compare(op.predicate.scan_type, e, op.predicate.value)
      BY DEF Satisfying
    <3>3. r \in Satisfying(op)' <=> compare(op.predicate.scan_type, f, op.predicate.value)
      BY <2>1, <3>1 DEF Satisfying
    <3>4. QED
      BY <3>1, <3>2, <3>3
  <2>5. QED
    BY <2>1, <2>3, <2>4
<1>5. ASSUME NEW op \in Operator, op.status = "wrapped", OpOK(op) PROVE OpOK(op)'
  BY <1>3, <1>5 DEF OpOK, Readable
<1>6. ASSUME NEW op \in Operator, op.status = "done", OpOK(op) PROVE OpOK(op)'
  <2>1. Accepted(op) /\ Finished(op) /\ Accepted(op)'
    BY <1>4, <1>6 DEF OpOK
  <2>2. Len(op.rows) \in Nat /\ \A i \in 1..Len(op.rows) : op.rows[i] \in Positions
    BY <2>1 DEF Accepted
  <2>3. Picked(op.rows, Satisfying(op)') = Picked(op.rows, Satisfying(op))
    BY <1>4, <2>1, <2>2, PickedAgrees
  <2>4. Finished(op)'
    BY <2>1, <2>3 DEF Finished
  <2>5. QED
    BY <1>6, <2>1, <2>4 DEF OpOK
<1>7. ASSUME NEW o \in Ops, ops[o].status = "running" PROVE OpOK(ops[o])'
  <2> DEFINE op == ops[o]
  <2>1. op \in Operator /\ Accepted(op) /\ Halfway(op) /\ op.status = "running"
    BY <1>7 DEF ScanInv, OpOK
  <2>2. PICK chunk_id : compress_chunk(chunk_id)
    BY <1>7 DEF BaseStep, Idle
  <2>3. /\ DOMAIN chunks' = DOMAIN chunks
        /\ \A c \in DOMAIN chunks : Chunk_size(chunks'[c]) = Chunk_size(chunks[c])
    BY <1>1, <2>2, CompressBase
  <2>4. Positions' = Positions /\ TableLists' = TableLists
    BY <2>3 DEF Positions, TableLists
  <2>5. PICK p : p = op
    OBVIOUS
  <2>6. p \in Operator /\ Accepted(p) /\ Halfway(p) /\ p.status = "running"
    BY <2>1, <2>5
  <2>7. Accepted(p)' /\ Satisfying(p)' = Satisfying(p)
    <3>1. Satisfying(p) \subseteq Positions /\ Satisfying(p)' \subseteq Positions'
      BY DEF Satisfying
    <3>2. QED
      BY <1>4, <2>4, <2>6, <3>1
  <2>8. Lists(p)' = Lists(p)
    BY <1>1, <2>4 DEF Lists
  <2>9. Halfway(p)'
    BY <2>6, <2>7, <2>8 DEF Halfway
  <2>10. OpOK(p)'
    BY <2>6, <2>7, <2>9 DEF OpOK
  <2>11. QED
    BY <1>1, <2>5, <2>10
<1>8. ASSUME NEW o \in Ops PROVE OpOK(ops[o])'
  <2>1. PICK p : p = ops[o]
    OBVIOUS
  <2>2. p \in Operator /\ OpOK(p)
    BY <2>1 DEF ScanInv
  <2>3. ASSUME p.status # "running" PROVE OpOK(p)'
    <3>1. CASE p.status \notin {"wrapped", "running", "done"}
      BY <3>1, <2>2 DEF OpOK
    <3>2. QED
      BY <2>2, <2>3, <3>1, <1>5, <1>6
  <2>4. QED
    BY <1>1, <1>7, <2>1, <2>3
<1>9. QED
  BY <1>1, <1>8 DEF ScanInv

-----------------------------------------------------------------------------
(* Steps of an operator *)

\* What is known of an operator depends on the base table and on its input only.
LEMMA SameOp ==
    ASSUME UNCHANGED vars, NEW op, op.input # Base => ops'[op.input] = ops[op.input], OpOK(op)
    PROVE  OpOK(op)'
<1>1. chunks' = chunks
  BY DEF vars
<1>2. Positions' = Positions /\ TableLists' = TableLists
  BY <1>1 DEF Positions, TableLists
<1>3. Lists(op)' = Lists(op) /\ BaseColumn(op)' = BaseColumn(op)
  BY <1>2 DEF Lists, BaseColumn
<1>4. Satisfying(op)' = Satisfying(op)
  BY <1>1, <1>2, <1>3 DEF Satisfying
<1>5. Readable(op) => Readable(op)'
  BY <1>2 DEF Readable
<1>6. Shape(op.output) => Shape(op.output)'
  BY <1>2 DEF Shape
<1>7. Accepted(op) => Accepted(op)'
  BY <1>2, <1>3, <1>6 DEF Accepted
<1>8. Halfway(op) => Halfway(op)'
  BY <1>3, <1>4 DEF Halfway
<1>9. Finished(op) => Finished(op)'
  BY <1>4 DEF Finished
<1>10. QED
  BY <1>5, <1>7, <1>8, <1>9 DEF OpOK

\* A step of an operator that others do not read yet concerns that operator only.
LEMMA OperatorStep ==
    ASSUME ScanInv, UNCHANGED vars, NEW o \in Ops, ops[o].status \notin {"wrapped", "done"},
           NEW op \in Operator, ops' = [ops EXCEPT ![o] = op], op.input # o, OpOK(op)
    PROVE  ScanInv'
<1>1. /\ ops' \in [Ops -> Operator] /\ ops'[o] = op
      /\ \A q \in Ops : q # o => ops'[q] = ops[q]
  BY DEF ScanInv
<1>2. BaseInv'
  BY DEF ScanInv, vars, BaseInv, IInv, TypeOK, ChunksInv
<1>3. \A p : p \in Ops \cup {Base} /\ p # o /\ p # Base => ops'[p] = ops[p]
  BY <1>1
<1>4. OpOK(op)'
  <2>1. op.input \in Ops \cup {Base}
    BY OpsAssumption DEF Operator, Ops, Base
  <2>2. QED
    BY <1>3, <2>1, SameOp
<1>5. ASSUME NEW q \in Ops, q # o PROVE OpOK(ops[q])'
  <2>1. PICK p : p = ops[q]
    OBVIOUS
  <2>2. p \in Operator /\ OpOK(p) /\ p = ops'[q]
    BY <1>1, <1>5, <2>1 DEF ScanInv
  <2>3. CASE p.status \in {"running", "done"}
    <3>1. Accepted(p)
      BY <2>2, <2>3 DEF OpOK
    <3>2. p.input # Base => p.input \in Ops /\ p.input # o
      BY <3>1 DEF Accepted
    <3>3. OpOK(p)'
      BY <1>1, <2>2, <3>2, SameOp
    <3>4. QED
      BY <2>2, <3>3
  <2>4. CASE p.status \notin {"running", "done"}
    <3>1. Positions' = Positions
      BY DEF Positions, vars
    <3>2. Readable(p) => Readable(p)'
      BY <3>1 DEF Readable
    <3>3. OpOK(p)'
      BY <2>2, <2>4, <3>2 DEF OpOK
    <3>4. QED
      BY <2>2, <3>3
  <2>5. QED
    BY <2>3, <2>4
<1>6. \A q \in Ops : OpOK(ops[q])'
  <2>1. OpOK(ops[o])'
    BY <1>1, <1>4
  <2>2. QED
    BY <1>5, <2>1
<1>7. QED
  BY <1>1, <1>2, <1>6 DEF ScanInv

\* The initial state.
LEMMA InitScanInv ==
    ASSUME ScanInit
    PROVE  ScanInv
<1>1. column_types = Schema /\ column_types \in Seq(TypeStrings)
  BY SchemaAssumption DEF ScanInit
<1>2. chunks = <<NewChunk>>
  BY <1>1 DEF ScanInit, NewChunk
<1>3. GoodChunk(NewChunk) /\ ScanChunk(NewChunk)
  BY <1>1, NewScanChunk
<1>4. DOMAIN chunks = 1..1 /\ chunks[1] = NewChunk /\ Len(chunks) = 1 /\ chunks # <<>>
      /\ chunks \in Seq(Chunk)
  <2>1. NewChunk \in Chunk
    BY <1>3 DEF GoodChunk
  <2> HIDE DEF NewChunk
  <2>2. QED
    BY <1>2, <2>1
<1>5. BaseInv
  <2>1. last \in [call : Calls, outcome : {"ok", "throws"}, row : Seq(AllTypeVariant)]
    BY DEF ScanInit, Calls
  <2>2. current = 1 /\ detached = <<>>
    BY DEF ScanInit
  <2>3. ChunksInv
    BY <1>3, <1>4, <2>2, NoSegmentsIsGood DEF ChunksInv
  <2>4. TypeOK
    BY <1>1, <1>4, <2>1, <2>2, NoSegmentsIsGood DEF TypeOK, GoodChunk
  <2>5. QED
    BY <1>1, <1>3, <1>4, <2>3, <2>4 DEF BaseInv, IInv
<1>6. Created \in Operator /\ Created.status = "new"
  BY OpsAssumption DEF Created, Operator, BareChunk, ReferenceChunkOf, ReferenceChunk, Base, RowIDs
<1>7. ops \in [Ops -> Operator] /\ \A o \in Ops : ops[o] = Created
  BY <1>6 DEF ScanInit
<1>8. OpOK(Created)
  BY <1>6 DEF OpOK
<1>9. QED
  BY <1>5, <1>7, <1>8 DEF ScanInv

\* A reference table that the caller has built can be scanned.
LEMMA WrapperStep ==
    ASSUME ScanInv, NEW o \in Ops, NEW table \in ReferenceTables, TableWrapper_execute(o, table)
    PROVE  ScanInv'
<1> DEFINE types == [i \in DOMAIN table.columns |-> column_types[table.columns[i]]]
           output == [c \in DOMAIN table.pos_lists |->
                         ReferenceChunkOf(Base, table.columns, table.pos_lists[c])]
           new == [ops[o] EXCEPT !.status = "wrapped", !.types = types, !.output = output]
<1>1. ops[o] = Created /\ ops[o] \in Operator
  BY DEF ScanInv, OpOK, TableWrapper_execute
<1>2. /\ table.columns \in Seq(DOMAIN Schema) /\ table.pos_lists # <<>>
      /\ table.pos_lists \in Seq(Seq([chunk_id : Nat, chunk_offset : Nat \ {0}]))
  BY ReferenceTablesAssumption
<1>3. column_types = Schema /\ Schema \in Seq(TypeStrings)
  BY SchemaAssumption DEF ScanInv, BaseInv
<1>4. types \in Seq(TypeStrings) /\ DOMAIN types = DOMAIN table.columns
  <2>1. types \in [1..Len(table.columns) -> TypeStrings] /\ Len(table.columns) \in Nat
        /\ DOMAIN table.columns = 1..Len(table.columns) /\ DOMAIN types = DOMAIN table.columns
    BY <1>2, <1>3
  <2> HIDE DEF types
  <2>2. types \in Seq(TypeStrings)
    BY <2>1
  <2>3. QED
    BY <2>1, <2>2
<1>5. ASSUME NEW c \in DOMAIN table.pos_lists
      PROVE  table.pos_lists[c] \in Seq(Positions)
  <2> DEFINE l == table.pos_lists[c]
  <2>1. l \in Seq([chunk_id : Nat, chunk_offset : Nat \ {0}])
    BY <1>2
  <2>2. ASSUME NEW i \in DOMAIN l PROVE l[i] \in Positions
    <3>1. l[i].chunk_id \in DOMAIN chunks /\ l[i].chunk_offset <= Chunk_size(chunks[l[i].chunk_id])
      BY DEF TableWrapper_execute
    <3>2. l[i] \in RowIDs /\ l[i].chunk_offset \in Nat \ {0}
      <4> HIDE DEF l
      <4> DEFINE T == [chunk_id : Nat, chunk_offset : Nat \ {0}]
      <4>1. l \in Seq(T)
        BY <2>1
      <4> HIDE DEF T
      <4>2. i \in 1..Len(l)
        BY <4>1, <2>2
      <4>3. l[i] \in T
        BY <4>1, <4>2, ElementOfSeq
      <4>4. QED
        BY <4>3 DEF RowIDs, T
    <3>3. Chunk_size(chunks[l[i].chunk_id]) \in Nat
      BY <3>1, ChunksFacts DEF ScanInv, BaseInv, IInv
    <3> HIDE DEF l
    <3>4. l[i].chunk_offset \in 1..Chunk_size(chunks[l[i].chunk_id])
      BY <3>1, <3>2, <3>3
    <3>5. QED
      BY <3>1, <3>2, <3>4, PositionFacts DEF ScanInv
  <2> HIDE DEF l
  <2>3. l \in [1..Len(l) -> Positions] /\ Len(l) \in Nat
    BY <2>1, <2>2
  <2>4. l \in Seq(Positions)
    BY <2>3
  <2>5. QED
    BY <2>4 DEF l
<1>6. Positions \subseteq RowIDs
  BY PositionFacts DEF ScanInv
<1>7. /\ output \in Seq(ReferenceChunk) /\ output # <<>> /\ DOMAIN output = DOMAIN table.pos_lists
      /\ 1 \in DOMAIN output
      /\ \A c \in DOMAIN output : /\ output[c].columns = table.columns /\ output[c].table = Base
                                  /\ output[c].pos_list = table.pos_lists[c]
  <2>1. table.columns \in Seq(Nat)
    BY <1>2, SchemaAssumption
  <2>2. \A c \in DOMAIN table.pos_lists : output[c] \in ReferenceChunk
    BY <1>5, <1>6, <2>1, OpsAssumption DEF ReferenceChunkOf, ReferenceChunk, Base
  <2>3. /\ Len(table.pos_lists) \in Nat /\ Len(table.pos_lists) # 0
        /\ DOMAIN table.pos_lists = 1..Len(table.pos_lists)
    BY <1>2, EmptySeq
  <2>4. /\ output \in [1..Len(table.pos_lists) -> ReferenceChunk]
        /\ DOMAIN output = DOMAIN table.pos_lists
    BY <2>2, <2>3
  <2>5. \A c \in DOMAIN output : /\ output[c].columns = table.columns /\ output[c].table = Base
                                 /\ output[c].pos_list = table.pos_lists[c]
    BY DEF ReferenceChunkOf
  <2> HIDE DEF output
  <2>6. output \in Seq(ReferenceChunk) /\ 1 \in DOMAIN output /\ output # <<>>
    BY <2>3, <2>4
  <2>7. QED
    BY <2>4, <2>5, <2>6
<1> HIDE DEF types, output
<1>8. /\ new.status = "wrapped" /\ new.types = types /\ new.output = output /\ new.input = Base
      /\ new \in Operator
  <2>1. new \in Operator /\ new.status = "wrapped" /\ new.types = types /\ new.output = output
        /\ new.input = ops[o].input
    BY <1>1, <1>4, <1>7 DEF Operator
  <2>2. QED
    BY <1>1, <2>1 DEF Created
<1>9. ops' = [ops EXCEPT ![o] = new] /\ UNCHANGED vars
  BY <1>1 DEF TableWrapper_execute, types, output, ScanInv
<1> HIDE DEF new
<1>10. Readable(new)
  BY <1>2, <1>4, <1>5, <1>7, <1>8 DEF Readable
<1>11. OpOK(new)
  BY <1>8, <1>10 DEF OpOK
<1>12. ops[o].status = "new" /\ o # Base
  BY <1>1 DEF Created, Ops, Base
<1>13. QED
  BY <1>8, <1>9, <1>11, <1>12, OperatorStep

\* The positions of an output with one chunk.
LEMMA PositionsOfOne ==
    ASSUME NEW output \in Seq(ReferenceChunk), Len(output) = 1
    PROVE  PositionsOf(output) = output[1].pos_list
<1> DEFINE l == OutputLists(output)
<1>1. \A c \in DOMAIN output : output[c].pos_list \in Seq(RowIDs)
  <2>1. \A c \in DOMAIN output : output[c] \in ReferenceChunk
    OBVIOUS
  <2>2. \A chunk \in ReferenceChunk : chunk.pos_list \in Seq(RowIDs)
    BY DEF ReferenceChunk
  <2>3. QED
    BY <2>1, <2>2
<1>2. /\ Len(l) = 1 /\ PositionsOf(output) = FlattenSeq(l)
      /\ \A c \in DOMAIN output : l[c] = output[c].pos_list
  BY <1>1, OutputListsFacts
<1>3. 1 \in DOMAIN output
  OBVIOUS
<1> HIDE DEF l
<1>4. QED
  BY <1>2, <1>3, FlattenOne

\* A scan that has visited nothing has picked nothing.
LEMMA NothingVisited ==
    ASSUME NEW S, NEW lists \in Seq(Seq(S)), NEW T
    PROVE  /\ Picked(FlattenSeq(SubSeq(lists, 1, 0)), T) = <<>>
           /\ \A c \in 1..Len(lists) : Picked(SubSeq(lists[c], 1, 0), T) = <<>>
<1>1. SubSeq(lists, 1, 0) = <<>>
  OBVIOUS
<1>2. ASSUME NEW c \in 1..Len(lists) PROVE SubSeq(lists[c], 1, 0) = <<>>
  <2>1. PICK l \in Seq(S) : l = lists[c]
    OBVIOUS
  <2>2. SubSeq(l, 1, 0) = <<>>
    OBVIOUS
  <2>3. QED
    BY <2>1, <2>2
<1>3. QED
  BY <1>1, <1>2, FlattenNone, PickedEmpty

\* TableScan::execute starts a scan, or throws.
LEMMA ExecuteStep ==
    ASSUME ScanInv, NEW o \in Ops, NEW input \in 0..(o - 1), NEW p \in Predicates[o],
           execute(o, input, p)
    PROVE  ScanInv'
<1>1. ops[o] = Created /\ ops[o] \in Operator /\ UNCHANGED vars
  BY DEF ScanInv, OpOK, execute
<1>2. o # Base /\ input # o /\ input \in 0..NumOps /\ (input # Base => input \in Ops)
  BY OpsAssumption DEF Ops, Base
<1>3. p \in [column_id : DOMAIN Schema, scan_type : ScanTypes, type : DataTypes, value : Int]
  BY PredicatesAssumption DEF Values
<1>4. CASE ops' = [ops EXCEPT ![o].status = "throws"]
  <2> DEFINE new == [ops[o] EXCEPT !.status = "throws"]
  <2>1. new \in Operator /\ new.status = "throws" /\ new.input = ops[o].input
    BY <1>1 DEF Operator
  <2>2. ops' = [ops EXCEPT ![o] = new] /\ new.input # o /\ ops[o].status = "new"
    BY <1>1, <1>2, <1>4, <2>1 DEF Created
  <2> HIDE DEF new
  <2>3. OpOK(new)
    BY <2>1 DEF OpOK
  <2>4. QED
    BY <1>1, <2>1, <2>2, <2>3, OperatorStep
<1>5. CASE /\ ExecuteReturns(input, p)
           /\ ops' = [ops EXCEPT
                        ![o].status = "running", ![o].input = input, ![o].predicate = p,
                        ![o].types = TypesOf(input),
                        ![o].rows = IF input = Base THEN AllPositions
                                    ELSE PositionsOf(ops[input].output)]
  <2> DEFINE types == TypesOf(input)
             rows == IF input = Base THEN AllPositions ELSE PositionsOf(ops[input].output)
             new == [ops[o] EXCEPT !.status = "running", !.input = input, !.predicate = p,
                                   !.types = types, !.rows = rows]
             in == ops[input]
  <2>1. input # Base => in \in Operator /\ OpOK(in) /\ in.status \in {"wrapped", "done"}
    BY <1>2, <1>5 DEF ExecuteReturns, HasOutput, ScanInv
  <2>2. input # Base => Readable(in) /\ in.output \in Seq(ReferenceChunk)
    <3> HIDE DEF in
    <3>1. QED
      BY <2>1, DoneIsReadable DEF OpOK, Operator
  <2>3. /\ types \in Seq(TypeStrings) /\ p.column_id \in DOMAIN types
        /\ input = Base => types = Schema
        /\ input # Base => types = in.types
    <3>1. Schema \in Seq(TypeStrings) /\ column_types = Schema
      BY SchemaAssumption DEF ScanInv, BaseInv
    <3>2. QED
      BY <3>1, <2>1, <1>5 DEF TypesOf, ExecuteReturns, Operator
  <2> DEFINE lists == IF input = Base THEN TableLists ELSE OutputLists(in.output)
  <2>4. lists \in Seq(Seq(Positions)) /\ rows = FlattenSeq(lists)
    <3>1. CASE input = Base
      <4>1. TableLists \in Seq(Seq(Positions))
        BY TableListsFacts DEF ScanInv
      <4>2. AllPositions = FlattenSeq(TableLists)
        BY DEF AllPositions, TableLists
      <4>3. QED
        BY <3>1, <4>1, <4>2
    <3>2. CASE input # Base
      <4>1. in.output \in Seq(ReferenceChunk)
            /\ \A c \in DOMAIN in.output : in.output[c].pos_list \in Seq(Positions)
        BY <2>2, <3>2 DEF Readable
      <4> HIDE DEF in
      <4>2. OutputLists(in.output) \in Seq(Seq(Positions))
            /\ PositionsOf(in.output) = FlattenSeq(OutputLists(in.output))
        BY <4>1, OutputListsFacts
      <4>3. QED
        BY <3>2, <4>2 DEF in
    <3>3. QED
      BY <3>1, <3>2
  <2> HIDE DEF lists
  <2>5. rows \in Seq(Positions) /\ rows \in Seq(RowIDs)
    <3>1. FlattenSeq(lists) \in Seq(Positions)
      BY <2>4, FlattenType
    <3>2. Positions \subseteq RowIDs
      BY PositionFacts DEF ScanInv
    <3> HIDE DEF rows
    <3>3. QED
      BY <2>4, <3>1, <3>2
  <2> HIDE DEF rows, types
  <2>6. p \in [column_id : Nat, scan_type : ScanTypes \cup {"none"},
               type : DataTypes \cup {"none"}, value : Int]
    BY <1>3, SchemaAssumption
  <2>7. /\ new \in Operator /\ new.status = "running" /\ new.input = input /\ new.predicate = p
        /\ new.types = types /\ new.rows = rows /\ new.output = ops[o].output
        /\ new.chunk_id = ops[o].chunk_id /\ new.start_index = ops[o].start_index
        /\ new.found = ops[o].found
    BY <1>1, <1>2, <2>3, <2>5, <2>6 DEF Operator
  <2>8. ops' = [ops EXCEPT ![o] = new]
    BY <1>1, <1>5 DEF types, rows, ScanInv
  <2> HIDE DEF new
  <2>9. /\ new.output = <<BareChunk>> /\ new.chunk_id = 1 /\ new.start_index = 1
        /\ new.found = <<>> /\ ops[o].status = "new"
    BY <1>1, <2>7 DEF Created
  <2>10. Lists(new) = lists
    BY <2>7 DEF Lists, lists
  <2>11. BaseColumn(new) \in DOMAIN Schema
    <3>1. CASE input = Base
      BY <3>1, <2>7, <1>3 DEF BaseColumn
    <3>2. CASE input # Base
      BY <3>2, <2>2, <2>3, <2>7, <1>3 DEF BaseColumn, Readable
    <3>3. QED
      BY <3>1, <3>2
  <2>12. Shape(new.output) /\ PositionsOf(new.output) = <<>>
    <3>1. /\ Len(new.output) = 1 /\ DOMAIN new.output = 1..1 /\ new.output[1] = BareChunk
          /\ new.output # <<>> /\ BareChunk.pos_list = <<>>
      BY <2>9 DEF BareChunk, ReferenceChunkOf
    <3>2. new.output \in Seq(ReferenceChunk)
      BY <2>7 DEF Operator
    <3>3. PositionsOf(new.output) = new.output[1].pos_list
      BY <3>1, <3>2, PositionsOfOne
    <3>4. new.output[1].pos_list = <<>> /\ <<>> \in Seq(Positions)
      BY <3>1
    <3>5. \A c \in DOMAIN new.output : c = 1
      BY <3>1
    <3>6. QED
      BY <3>1, <3>3, <3>4, <3>5 DEF Shape
  <2>13. Accepted(new)
    BY <1>2, <1>3, <2>1, <2>3, <2>5, <2>7, <2>11, <2>12 DEF Accepted
  <2>14. Halfway(new)
    <3>1. /\ Picked(FlattenSeq(SubSeq(lists, 1, 0)), Satisfying(new)) = <<>>
          /\ \A c \in 1..Len(lists) : Picked(SubSeq(lists[c], 1, 0), Satisfying(new)) = <<>>
      BY <2>4, NothingVisited
    <3>2. /\ Len(lists) \in Nat /\ 1 \in 1..(Len(lists) + 1) /\ 1 - 1 = 0
          /\ \A c \in 1..Len(lists) : /\ Len(lists[c]) \in Nat /\ 1 \in 1..(Len(lists[c]) + 1)
                                      /\ lists[c] # <<>> => 1 <= Len(lists[c])
      <4>1. \A c \in 1..Len(lists) : lists[c] \in Seq(Positions)
        BY <2>4
      <4>2. \A l \in Seq(Positions) : /\ Len(l) \in Nat /\ 1 \in 1..(Len(l) + 1)
                                      /\ l # <<>> => 1 <= Len(l)
        OBVIOUS
      <4>3. Len(lists) \in Nat
        BY <2>4
      <4>4. QED
        BY <4>1, <4>2, <4>3
    <3>3. 1 <= Len(lists) => 1 \in 1..Len(lists)
      BY <3>2
    <3>4. QED
      BY <2>4, <2>7, <2>9, <2>10, <2>12, <3>1, <3>2, <3>3 DEF Halfway
  <2>15. OpOK(new)
    BY <2>7, <2>13, <2>14 DEF OpOK
  <2>16. QED
    BY <1>1, <1>2, <2>7, <2>8, <2>9, <2>15, OperatorStep
<1>6. QED
  BY <1>4, <1>5 DEF execute

\* What is picked from one more list.
LEMMA VisitedOneMore ==
    ASSUME NEW S, NEW lists \in Seq(Seq(S)), NEW c \in 1..Len(lists), NEW T
    PROVE  Picked(FlattenSeq(SubSeq(lists, 1, c)), T)
               = Picked(FlattenSeq(SubSeq(lists, 1, c - 1)), T) \o Picked(lists[c], T)
<1> DEFINE before == SubSeq(lists, 1, c - 1)
<1>1. before \in Seq(Seq(S)) /\ SubSeq(lists, 1, c) = Append(before, lists[c])
  OBVIOUS
<1>2. PICK l \in Seq(S) : l = lists[c]
  OBVIOUS
<1> HIDE DEF before
<1>3. FlattenSeq(Append(before, l)) = FlattenSeq(before) \o l
  BY <1>1, FlattenAppend
<1>4. FlattenSeq(before) \in Seq(S)
  BY <1>1, FlattenType
<1>5. PICK f \in Seq(S) : f = FlattenSeq(before)
  BY <1>4
<1>6. Picked(f \o l, T) = Picked(f, T) \o Picked(l, T)
  BY PickedConcat
<1>7. QED
  BY <1>1, <1>2, <1>3, <1>5, <1>6 DEF before

\* The positions of a chunk that is added to an output come after the others.
LEMMA PositionsOfAppend ==
    ASSUME NEW output \in Seq(ReferenceChunk), NEW chunk \in ReferenceChunk
    PROVE  PositionsOf(Append(output, chunk)) = PositionsOf(output) \o chunk.pos_list
<1> DEFINE longer == Append(output, chunk)
           n == Len(output)
           l == chunk.pos_list
<1>1. /\ longer \in Seq(ReferenceChunk) /\ Len(longer) = n + 1 /\ n \in Nat
      /\ longer[n + 1] = chunk /\ \A c \in 1..n : longer[c] = output[c]
      /\ DOMAIN longer = 1..(n + 1) /\ DOMAIN output = 1..n
  OBVIOUS
<1>2. \A s \in Seq(ReferenceChunk) : \A c \in DOMAIN s : s[c].pos_list \in Seq(RowIDs)
  <2>1. \A s \in Seq(ReferenceChunk) : \A c \in DOMAIN s : s[c] \in ReferenceChunk
    OBVIOUS
  <2>2. \A ch \in ReferenceChunk : ch.pos_list \in Seq(RowIDs)
    BY DEF ReferenceChunk
  <2>3. QED
    BY <2>1, <2>2
<1>3. l \in Seq(RowIDs)
  BY DEF ReferenceChunk
<1> HIDE DEF longer, n, l
<1>4. /\ OutputLists(output) \in Seq(Seq(RowIDs)) /\ Len(OutputLists(output)) = n
      /\ \A c \in 1..n : OutputLists(output)[c] = output[c].pos_list
      /\ PositionsOf(output) = FlattenSeq(OutputLists(output))
  BY <1>1, <1>2, OutputListsFacts DEF n
<1>5. /\ OutputLists(longer) \in Seq(Seq(RowIDs)) /\ Len(OutputLists(longer)) = n + 1
      /\ \A c \in 1..(n + 1) : OutputLists(longer)[c] = longer[c].pos_list
      /\ PositionsOf(longer) = FlattenSeq(OutputLists(longer))
  BY <1>1, <1>2, OutputListsFacts
<1>6. PICK a \in Seq(Seq(RowIDs)) : a = OutputLists(output)
  BY <1>4
<1>7. PICK b \in Seq(Seq(RowIDs)) : b = OutputLists(longer)
  BY <1>5
<1>8. b = Append(a, l)
  <2>1. /\ Append(a, l) \in Seq(Seq(RowIDs)) /\ Len(Append(a, l)) = n + 1 /\ Len(b) = n + 1
    BY <1>1, <1>3, <1>4, <1>5, <1>6, <1>7
  <2>2. ASSUME NEW c \in 1..(n + 1) PROVE b[c] = Append(a, l)[c]
    <3>1. CASE c = n + 1
      BY <3>1, <1>1, <1>3, <1>4, <1>5, <1>6, <1>7 DEF l
    <3>2. CASE c # n + 1
      <4>1. c \in 1..n /\ Len(a) = n
        BY <3>2, <1>1, <1>4, <1>6
      <4>2. b[c] = a[c]
        BY <4>1, <1>1, <1>4, <1>5, <1>6, <1>7
      <4>3. Append(a, l)[c] = a[c]
        BY <4>1, <1>3
      <4>4. QED
        BY <4>2, <4>3
    <3>3. QED
      BY <3>1, <3>2
  <2>3. QED
    BY <2>1, <2>2, SeqEqual
<1>9. FlattenSeq(Append(a, l)) = FlattenSeq(a) \o l
  BY <1>3, FlattenAppend
<1>10. QED
  BY <1>4, <1>5, <1>6, <1>7, <1>8, <1>9 DEF longer, l

\* emplace_chunk of a chunk with positions, into the output of a scan.
LEMMA EmplacedFacts ==
    ASSUME NEW op \in Operator, Shape(op.output), NEW chunk \in ReferenceChunk,
           chunk.pos_list # <<>>, chunk.pos_list \in Seq(Positions),
           chunk.table = Base, chunk.columns = AllColumns
    PROVE  LET output == Emplaced(op, chunk)
           IN  /\ output \in Seq(ReferenceChunk) /\ Shape(output)
               /\ PositionsOf(output) = PositionsOf(op.output) \o chunk.pos_list
<1>1. PICK out \in Seq(ReferenceChunk) : out = op.output
  BY DEF Operator
<1>2. Shape(out) /\ out # <<>> /\ Len(out) \in Nat /\ DOMAIN out = 1..Len(out) /\ 1 \in DOMAIN out
  BY <1>1 DEF Shape
<1>3. CASE OutputHasNoRows(op)
  <2> DEFINE new == [out EXCEPT ![1] = chunk]
  <2>1. Len(out) = 1 /\ out[1].pos_list = <<>>
    BY <1>1, <1>2, <1>3 DEF OutputHasNoRows, Shape
  <2>2. /\ new \in Seq(ReferenceChunk) /\ Len(new) = 1 /\ new[1] = chunk /\ DOMAIN new = 1..1
        /\ new # <<>>
    BY <1>2, <2>1
  <2>3. Emplaced(op, chunk) = new
    BY <1>1, <1>3 DEF Emplaced
  <2> HIDE DEF new
  <2>4. PositionsOf(new) = chunk.pos_list /\ PositionsOf(out) = <<>>
    BY <2>1, <2>2, PositionsOfOne
  <2>5. <<>> \o chunk.pos_list = chunk.pos_list
    BY ConcatEmptySeq
  <2>6. Shape(new)
    BY <2>2 DEF Shape
  <2>7. QED
    BY <1>1, <2>2, <2>3, <2>4, <2>5, <2>6
<1>4. CASE ~OutputHasNoRows(op)
  <2> DEFINE new == Append(out, chunk)
  <2>1. \A c \in DOMAIN out : /\ out[c].pos_list # <<>> /\ out[c].table = Base
                              /\ out[c].columns = AllColumns /\ out[c].pos_list \in Seq(Positions)
    <3>1. ~(Len(out) = 1 /\ out[1].pos_list = <<>>)
      BY <1>1, <1>2, <1>4 DEF OutputHasNoRows
    <3>2. QED
      BY <1>2, <3>1 DEF Shape
  <2>2. /\ new \in Seq(ReferenceChunk) /\ DOMAIN new = 1..(Len(out) + 1) /\ new # <<>>
        /\ new[Len(out) + 1] = chunk /\ \A c \in DOMAIN out : new[c] = out[c]
    BY <1>2
  <2>3. Emplaced(op, chunk) = new
    BY <1>1, <1>4 DEF Emplaced
  <2>4. PositionsOf(new) = PositionsOf(out) \o chunk.pos_list
    BY PositionsOfAppend
  <2> HIDE DEF new
  <2>5. \A c \in DOMAIN new : c \in DOMAIN out \/ c = Len(out) + 1
    BY <1>2, <2>2
  <2>6. Shape(new)
    BY <2>1, <2>2, <2>5 DEF Shape
  <2>7. QED
    BY <1>1, <2>2, <2>3, <2>4, <2>6
<1>5. QED
  BY <1>3, <1>4

\* An operator that is scanning.
LEMMA RunningFacts ==
    ASSUME ScanInv, NEW o \in Ops, ops[o].status = "running"
    PROVE  /\ ops[o] \in Operator /\ Accepted(ops[o]) /\ Halfway(ops[o])
           /\ Lists(ops[o]) \in Seq(Seq(Positions))
           /\ ops[o].input # o
           /\ ops[o].input # Base => /\ ops[o].input \in Ops
                                     /\ ops[ops[o].input] \in Operator
                                     /\ Readable(ops[ops[o].input])
                                     /\ ops[o].types = ops[ops[o].input].types
<1>1. ops[o] \in Operator /\ Accepted(ops[o]) /\ Halfway(ops[o])
  BY DEF ScanInv, OpOK
<1>2. ops[o].input # o
  BY <1>1 DEF Accepted, Ops, Base
<1>3. ops[o].input # Base => ops[o].input \in Ops /\ ops[o].types = ops[ops[o].input].types
  BY <1>1 DEF Accepted
<1>4. ops[o].input # Base => ops[ops[o].input] \in Operator
  BY <1>3 DEF ScanInv
<1>5. PICK op \in Operator : op = ops[o]
  BY <1>1
<1>6. Lists(op) \in Seq(Seq(Positions)) /\ (op.input # Base => Readable(ops[op.input]))
  BY <1>1, <1>5, ListsFacts
<1>7. QED
  BY <1>1, <1>2, <1>3, <1>4, <1>5, <1>6

\* A scan goes on to the next list once its output has what is picked from this one.
LEMMA NextListStep ==
    ASSUME ScanInv, UNCHANGED vars, NEW o \in Ops, ops[o].status = "running",
           ops[o].chunk_id <= Len(Lists(ops[o])),
           NEW output \in Seq(ReferenceChunk), Shape(output),
           PositionsOf(output) = PositionsOf(ops[o].output)
               \o Picked(Lists(ops[o])[ops[o].chunk_id], Satisfying(ops[o])),
           ops' = [ops EXCEPT ![o] = [ops[o] EXCEPT !.chunk_id = @ + 1, !.start_index = 1,
                                                    !.found = <<>>, !.output = output]]
    PROVE  ScanInv'
<1> DEFINE op == ops[o]
           c == op.chunk_id
           lists == Lists(op)
           new == [op EXCEPT !.chunk_id = @ + 1, !.start_index = 1, !.found = <<>>,
                             !.output = output]
<1>1. /\ op \in Operator /\ Accepted(op) /\ Halfway(op) /\ lists \in Seq(Seq(Positions))
      /\ op.input # o /\ op.status = "running" /\ c <= Len(lists)
      /\ PositionsOf(output) = PositionsOf(op.output) \o Picked(lists[c], Satisfying(op))
  BY RunningFacts
<1>2. ops' = [ops EXCEPT ![o] = new]
  OBVIOUS
<1> HIDE DEF op
<1>3. /\ new \in Operator /\ new.status = "running" /\ new.input = op.input
      /\ new.predicate = op.predicate /\ new.types = op.types /\ new.rows = op.rows
      /\ new.output = output /\ new.chunk_id = c + 1 /\ new.start_index = 1 /\ new.found = <<>>
  <2>1. op.chunk_id + 1 \in Nat /\ 1 \in Nat
    BY <1>1 DEF Operator
  <2>2. PICK d \in Nat : d = op.chunk_id + 1
    BY <2>1
  <2>3. PICK none : none \in Seq(RowIDs) /\ none = <<>>
    <3>1. <<>> \in Seq(RowIDs)
      OBVIOUS
    <3>2. QED
      BY <3>1
  <2>4. new = [op EXCEPT !.chunk_id = d, !.start_index = 1, !.found = none, !.output = output]
    BY <2>2, <2>3
  <2> HIDE DEF new, c
  <2>5. /\ new \in Operator /\ new.status = op.status /\ new.input = op.input
        /\ new.predicate = op.predicate /\ new.types = op.types /\ new.rows = op.rows
        /\ new.output = output /\ new.chunk_id = d /\ new.start_index = 1 /\ new.found = none
    <3>1. op \in Operator /\ none \in Seq(RowIDs) /\ output \in Seq(ReferenceChunk) /\ d \in Nat
      BY <1>1, <2>3
    <3>2. QED
      BY ONLY <3>1, <2>1, <2>4 DEF Operator
  <2>6. QED
    BY <1>1, <2>2, <2>3, <2>5 DEF c
<1> HIDE DEF new
<1>4. Lists(new) = lists /\ BaseColumn(new) = BaseColumn(op)
  BY <1>3 DEF Lists, BaseColumn
<1>5. Satisfying(new) = Satisfying(op)
  BY <1>3, <1>4 DEF Satisfying
<1>6. Accepted(new)
  BY <1>1, <1>3, <1>4 DEF Accepted
<1> HIDE DEF lists, c
<1>7. /\ c \in 1..Len(lists) /\ (c + 1) - 1 = c /\ c + 1 \in 1..(Len(lists) + 1)
      /\ 1 - 1 = 0 /\ op.rows = FlattenSeq(lists)
      /\ PositionsOf(op.output) = Picked(FlattenSeq(SubSeq(lists, 1, c - 1)), Satisfying(op))
  <2>1. /\ Len(lists) \in Nat /\ c \in 1..(Len(lists) + 1) /\ op.rows = FlattenSeq(lists)
        /\ PositionsOf(op.output) = Picked(FlattenSeq(SubSeq(lists, 1, c - 1)), Satisfying(op))
    BY <1>1 DEF Halfway, lists, c
  <2>2. QED
    BY <1>1, <2>1
<1>8. PositionsOf(output) = Picked(FlattenSeq(SubSeq(lists, 1, c)), Satisfying(op))
  <2>1. PICK T : T = Satisfying(op)
    OBVIOUS
  <2>2. PICK d \in 1..Len(lists) : d = c
    BY <1>7
  <2>3. PICK ls \in Seq(Seq(Positions)) : ls = lists
    BY <1>1
  <2>4. Picked(FlattenSeq(SubSeq(ls, 1, d)), T)
            = Picked(FlattenSeq(SubSeq(ls, 1, d - 1)), T) \o Picked(ls[d], T)
    BY <2>2, <2>3, VisitedOneMore
  <2>5. QED
    BY <1>1, <1>7, <2>1, <2>2, <2>3, <2>4
<1>9. \A d \in 1..Len(lists) : /\ Picked(SubSeq(lists[d], 1, 0), Satisfying(op)) = <<>>
                               /\ 1 \in 1..(Len(lists[d]) + 1)
                               /\ lists[d] # <<>> => 1 <= Len(lists[d])
  <2>1. \A d \in 1..Len(lists) : lists[d] \in Seq(Positions)
    BY <1>1
  <2>2. \A l \in Seq(Positions) : 1 \in 1..(Len(l) + 1) /\ (l # <<>> => 1 <= Len(l))
    OBVIOUS
  <2>3. \A d \in 1..Len(lists) : Picked(SubSeq(lists[d], 1, 0), Satisfying(op)) = <<>>
    BY <1>1, NothingVisited
  <2>4. QED
    BY <2>1, <2>2, <2>3
<1>10. c + 1 <= Len(lists) => c + 1 \in 1..Len(lists)
  BY <1>7
<1>11. Halfway(new)
  BY <1>3, <1>4, <1>5, <1>7, <1>8, <1>9, <1>10 DEF Halfway
<1>12. OpOK(new)
  BY <1>3, <1>6, <1>11 DEF OpOK
<1>13. QED
  BY <1>1, <1>2, <1>3, <1>12, OperatorStep DEF op

\* What a scan does with the positions it has picked from a list.
LEMMA AddStep ==
    ASSUME ScanInv, UNCHANGED vars, NEW o \in Ops, ops[o].status = "running",
           ops[o].chunk_id <= Len(Lists(ops[o])),
           NEW pos_list, pos_list = Picked(Lists(ops[o])[ops[o].chunk_id], Satisfying(ops[o])),
           NEW table, pos_list # <<>> => table = Base,
           AddToOutput(o, pos_list, table)
    PROVE  ScanInv'
<1> DEFINE op == ops[o]
           chunk == create_chunk(pos_list, table)
<1>1. /\ op \in Operator /\ Accepted(op) /\ Halfway(op) /\ Lists(op) \in Seq(Seq(Positions))
      /\ op.input # o /\ op.status = "running" /\ ops \in [Ops -> Operator]
  BY RunningFacts DEF ScanInv
<1>2. op.output \in Seq(ReferenceChunk) /\ Shape(op.output)
  BY <1>1 DEF Accepted, Operator
<1>3. pos_list \in Seq(Positions)
  <2>1. op.chunk_id \in 1..Len(Lists(op))
    BY <1>1 DEF Halfway
  <2>2. PICK l \in Seq(Positions) : l = Lists(op)[op.chunk_id]
    BY <1>1, <2>1
  <2>3. QED
    BY <2>2, PickedType
<1>4. CASE /\ pos_list = <<>>
           /\ ops' = [ops EXCEPT ![o].chunk_id = @ + 1, ![o].start_index = 1, ![o].found = <<>>]
  <2> DEFINE new == [op EXCEPT !.chunk_id = @ + 1, !.start_index = 1, !.found = <<>>]
  <2>1. ops' = [ops EXCEPT ![o] = new]
    BY <1>1, <1>4
  <2>2. new = [op EXCEPT !.chunk_id = @ + 1, !.start_index = 1, !.found = <<>>,
                         !.output = op.output]
    BY <1>1 DEF Operator
  <2>3. PositionsOf(op.output) \o pos_list = PositionsOf(op.output)
    <3>1. \A c \in DOMAIN op.output : op.output[c].pos_list \in Seq(Positions)
      BY <1>2 DEF Shape
    <3>2. PICK out \in Seq(ReferenceChunk) : out = op.output
      BY <1>2
    <3>3. OutputLists(out) \in Seq(Seq(Positions)) /\ PositionsOf(out) = FlattenSeq(OutputLists(out))
      BY <3>1, <3>2, OutputListsFacts
    <3>4. PositionsOf(out) \in Seq(Positions)
      BY <3>3, FlattenType
    <3>5. PositionsOf(out) \o <<>> = PositionsOf(out)
      BY <3>4, ConcatEmptySeq
    <3>6. QED
      BY <1>4, <3>2, <3>5
  <2>4. QED
    BY <1>2, <2>1, <2>2, <2>3, NextListStep
<1>5. CASE /\ pos_list # <<>>
           /\ ops' = [ops EXCEPT ![o].chunk_id = @ + 1, ![o].start_index = 1, ![o].found = <<>>,
                                 ![o].output = Emplaced(ops[o], chunk)]
  <2>1. table = Base /\ column_types = Schema /\ pos_list \in Seq(RowIDs)
    <3>1. Positions \subseteq RowIDs
      BY PositionFacts DEF ScanInv
    <3>2. QED
      BY <1>3, <1>5, <3>1 DEF ScanInv, BaseInv
  <2>2. /\ chunk.table = Base /\ chunk.columns = AllColumns /\ chunk.pos_list = pos_list
        /\ chunk = ReferenceChunkOf(Base, AllColumns, pos_list)
    BY <2>1 DEF create_chunk, TypesOf, ReferenceChunkOf, AllColumns
  <2>3. chunk \in ReferenceChunk
    <3>1. AllColumns \in Seq(Nat) /\ Base \in 0..NumOps
      BY SchemaAssumption, OpsAssumption DEF AllColumns, Base
    <3> HIDE DEF chunk
    <3>2. QED
      BY <2>1, <2>2, <3>1 DEF ReferenceChunkOf, ReferenceChunk
  <2> HIDE DEF chunk
  <2> DEFINE output == Emplaced(op, chunk)
  <2>4. /\ output \in Seq(ReferenceChunk) /\ Shape(output)
        /\ PositionsOf(output) = PositionsOf(op.output) \o pos_list
    BY <1>1, <1>2, <1>3, <1>5, <2>2, <2>3, EmplacedFacts
  <2>5. ops' = [ops EXCEPT ![o] = [op EXCEPT !.chunk_id = @ + 1, !.start_index = 1,
                                             !.found = <<>>, !.output = output]]
    BY <1>1, <1>5
  <2> HIDE DEF output
  <2>6. QED
    BY <2>4, <2>5, NextListStep
<1>6. CASE ops' = [ops EXCEPT ![o].status = "throws"]
  <2> DEFINE new == [op EXCEPT !.status = "throws"]
  <2>1. new \in Operator /\ new.status = "throws" /\ new.input = op.input
    BY <1>1 DEF Operator
  <2>2. ops' = [ops EXCEPT ![o] = new]
    BY <1>1, <1>6
  <2> HIDE DEF new
  <2>3. OpOK(new)
    BY <2>1 DEF OpOK
  <2>4. QED
    BY <1>1, <2>1, <2>2, <2>3, OperatorStep
<1>7. QED
  BY <1>4, <1>5, <1>6 DEF AddToOutput

\* Scanning positions that lie in one segment picks those with a satisfying value, whether
\* the segment is compressed or not.
LEMMA ScanPart ==
    ASSUME BaseInv, NEW op \in Operator, Accepted(op), NEW l \in Seq(Positions), NEW segment,
           \A i \in 1..Len(l) : segment = chunks[l[i].chunk_id][BaseColumn(op)]
    PROVE  scan_positions(op.predicate.scan_type, segment, op.predicate.value, l)
               = Picked(l, Satisfying(op))
<1> DEFINE type == op.predicate.scan_type
           v == op.predicate.value
           col == BaseColumn(op)
           T == {r \in ValuesIn(l) : Selects(type, segment, v, r.chunk_offset)}
<1>1. type \in ScanTypes /\ v \in Int /\ col \in DOMAIN Schema
  BY DEF Accepted, Operator
<1>2. Len(l) \in Nat /\ DOMAIN l = 1..Len(l) /\ \A i \in 1..Len(l) : l[i] \in Positions
  OBVIOUS
<1>3. ASSUME NEW i \in 1..Len(l) PROVE l[i] \in T <=> l[i] \in Satisfying(op)
  <2>1. PICK r \in Positions : r = l[i]
    BY <1>2
  <2>2. r \in ValuesIn(l) /\ segment = chunks[r.chunk_id][col]
    BY <1>2, <2>1 DEF ValuesIn
  <2>3. /\ r.chunk_id \in DOMAIN chunks /\ col \in DOMAIN chunks[r.chunk_id]
        /\ r.chunk_offset \in 1..Segment_size(segment)
    BY <1>1, <2>2, PositionFacts
  <2>4. FaithfulScan(segment)
    BY <2>2, <2>3 DEF BaseInv, ScanChunk
  <2>5. Selects(type, segment, v, r.chunk_offset) <=> compare(type, Entry(segment, r.chunk_offset), v)
    BY <1>1, <2>3, <2>4 DEF FaithfulScan
  <2>6. r \in Satisfying(op) <=> compare(type, Entry(segment, r.chunk_offset), v)
    BY <2>2 DEF Satisfying
  <2>7. QED
    BY <2>1, <2>2, <2>5, <2>6
<1>4. scan_positions(type, segment, v, l) = Picked(l, T)
  BY DEF scan_positions
<1> HIDE DEF T
<1>5. Picked(l, T) = Picked(l, Satisfying(op))
  BY <1>2, <1>3, PickedAgrees
<1>6. QED
  BY <1>4, <1>5

\* An iteration over a chunk of the base table.
LEMMA ScanChunkStep ==
    ASSUME ScanInv, NEW o \in Ops, scan_chunk(o)
    PROVE  ScanInv'
<1> DEFINE p == ops[o].predicate
<1>0. PICK op : op = ops[o]
  OBVIOUS
<1>1. /\ op \in Operator /\ Accepted(op) /\ Halfway(op) /\ BaseInv
      /\ op.status = "running" /\ op.input = Base /\ op.chunk_id <= Len(chunks) /\ UNCHANGED vars
  BY <1>0, RunningFacts DEF scan_chunk, ScanInv
<1>2. PICK c : c = op.chunk_id
  OBVIOUS
<1>3. /\ Lists(op) = TableLists /\ Len(TableLists) = Len(chunks) /\ DOMAIN chunks = 1..Len(chunks)
      /\ TableLists \in Seq(Seq(Positions)) /\ Len(chunks) \in Nat
  BY <1>1, TableListsFacts, ChunksFacts DEF Lists, BaseInv, IInv
<1>4. c \in DOMAIN chunks
  BY <1>1, <1>2, <1>3 DEF Halfway
<1> DEFINE segment == chunks[c][op.predicate.column_id]
           l == [k \in 1..Segment_size(segment) |-> RowID(c, k)]
<1>5. TableLists[c] = [k \in 1..Chunk_size(chunks[c]) |-> RowID(c, k)]
  BY <1>1, <1>4, TableListsFacts
<1>6. BaseColumn(op) = op.predicate.column_id /\ BaseColumn(op) \in DOMAIN Schema
  BY <1>1 DEF BaseColumn, Accepted
<1>7. Segment_size(segment) = Chunk_size(chunks[c])
  BY <1>1, <1>4, <1>6 DEF BaseInv, ScanChunk, Even
<1>8. l = TableLists[c] /\ l \in Seq(Positions)
  <2>1. l = TableLists[c]
    BY <1>5, <1>7
  <2>2. TableLists[c] \in Seq(Positions)
    BY <1>3, <1>4
  <2>3. QED
    BY <2>1, <2>2
<1>9. \A i \in 1..Len(l) : l[i].chunk_id = c
  <2>1. \A i \in DOMAIN l : l[i].chunk_id = c
    BY DEF RowID
  <2> HIDE DEF l
  <2>2. QED
    BY <1>8, <2>1
<1>10. scan_segment(op.predicate.scan_type, c, segment, op.predicate.value)
           = scan_positions(op.predicate.scan_type, segment, op.predicate.value, l)
  BY DEF scan_segment
<1>11. \A i \in 1..Len(l) : segment = chunks[l[i].chunk_id][BaseColumn(op)]
  BY <1>6, <1>9
<1> DEFINE picked == scan_segment(op.predicate.scan_type, c, segment, op.predicate.value)
<1>12. AddToOutput(o, picked, Base)
  BY <1>0, <1>2 DEF scan_chunk
<1> HIDE DEF l, segment, picked
<1>13. scan_positions(op.predicate.scan_type, segment, op.predicate.value, l)
           = Picked(l, Satisfying(op))
  BY <1>1, <1>8, <1>11, ScanPart
<1>14. picked = Picked(Lists(op)[op.chunk_id], Satisfying(op))
  BY <1>2, <1>3, <1>8, <1>10, <1>13 DEF picked
<1>15. QED
  BY <1>0, <1>1, <1>3, <1>12, <1>14, AddStep

\* The chunk of a reference table that a scan has reached, and its position list.
LEMMA InReferenceFacts ==
    ASSUME ScanInv, NEW o \in Ops, InReferenceChunk(o)
    PROVE  /\ ops[o].status = "running" /\ ops[o].chunk_id \in 1..Len(Lists(ops[o]))
           /\ InputChunk(o).pos_list = Lists(ops[o])[ops[o].chunk_id]
           /\ InputChunk(o).pos_list \in Seq(Positions)
           /\ InputChunk(o).pos_list # <<>> =>
                 /\ InputChunk(o).table = Base
                 /\ InputChunk(o).columns[ops[o].predicate.column_id] = BaseColumn(ops[o])
<1>0. PICK op : op = ops[o]
  OBVIOUS
<1>1. /\ op \in Operator /\ Accepted(op) /\ Halfway(op) /\ op.status = "running" /\ op.input # Base
      /\ op.input \in Ops /\ Lists(op) \in Seq(Seq(Positions)) /\ op.types = ops[op.input].types
      /\ Readable(ops[op.input]) /\ ops[op.input] \in Operator
      /\ op.chunk_id <= Len(ops[op.input].output)
  BY <1>0, RunningFacts DEF InReferenceChunk
<1>2. PICK in : in = ops[op.input]
  OBVIOUS
<1>3. PICK output \in Seq(ReferenceChunk) : output = in.output
  BY <1>1, <1>2 DEF Operator
<1>4. /\ \A c \in DOMAIN output : output[c].pos_list \in Seq(Positions)
      /\ \A c \in DOMAIN output : output[c].pos_list # <<>> => output[c].table = Base
      /\ \A i \in DOMAIN in.types \cap DOMAIN Schema : \A c \in DOMAIN output :
            output[c].pos_list # <<>> => output[c].columns[i] = output[1].columns[i]
  BY <1>1, <1>2, <1>3 DEF Readable
<1>5. /\ Lists(op) = OutputLists(output) /\ Len(OutputLists(output)) = Len(output)
      /\ \A c \in DOMAIN output : OutputLists(output)[c] = output[c].pos_list
  BY <1>1, <1>2, <1>3, <1>4, OutputListsFacts DEF Lists
<1>6. op.chunk_id \in 1..Len(output) /\ DOMAIN output = 1..Len(output)
  BY <1>1, <1>2, <1>3, <1>5 DEF Halfway
<1>7. InputChunk(o) = output[op.chunk_id]
  BY <1>0, <1>2, <1>3 DEF InputChunk
<1>8. /\ op.predicate.column_id \in DOMAIN in.types \cap DOMAIN Schema
      /\ BaseColumn(op) = output[1].columns[op.predicate.column_id]
  BY <1>1, <1>2, <1>3 DEF Accepted, BaseColumn
<1>9. PICK chunk : chunk = output[op.chunk_id]
  OBVIOUS
<1>10. /\ chunk.pos_list \in Seq(Positions) /\ chunk.pos_list = Lists(op)[op.chunk_id]
       /\ chunk.pos_list # <<>> => /\ chunk.table = Base
                                   /\ chunk.columns[op.predicate.column_id] = BaseColumn(op)
  BY <1>4, <1>5, <1>6, <1>8, <1>9
<1>11. op.chunk_id \in 1..Len(Lists(op)) /\ InputChunk(o) = chunk
  BY <1>5, <1>6, <1>7, <1>9
<1>12. QED
  BY <1>0, <1>1, <1>10, <1>11

\* A position list without positions.
LEMMA ScanEmptyListStep ==
    ASSUME ScanInv, NEW o \in Ops, scan_empty_list(o)
    PROVE  ScanInv'
<1>1. /\ ops[o].status = "running" /\ ops[o].chunk_id \in 1..Len(Lists(ops[o]))
      /\ Lists(ops[o])[ops[o].chunk_id] = <<>> /\ UNCHANGED vars
      /\ AddToOutput(o, <<>>, InputChunk(o).table)
  BY InReferenceFacts DEF scan_empty_list
<1>2. <<>> = Picked(Lists(ops[o])[ops[o].chunk_id], Satisfying(ops[o]))
  BY <1>1, PickedEmpty
<1>3. ops[o].chunk_id <= Len(Lists(ops[o]))
  BY <1>1, RunningFacts
<1>4. QED
  BY <1>1, <1>2, <1>3, AddStep

\* The run of equal chunk ids that begins at a position ends somewhere.
LEMMA RunEndFacts ==
    ASSUME NEW S, NEW l \in Seq(S), NEW start \in 1..Len(l)
    PROVE  /\ RunEnd(l, start) \in start..Len(l)
           /\ \A i \in start..RunEnd(l, start) : l[i].chunk_id = l[start].chunk_id
<1> DEFINE Same(i) == l[i].chunk_id = l[start].chunk_id
           n == Len(l)
           M == {e \in Nat : start <= e /\ e <= n /\ (e < n => ~Same(e + 1))}
<1>1. n \in Nat /\ start \in Nat /\ 1 <= start /\ start <= n
  OBVIOUS
<1> HIDE DEF n, Same
<1>2. n \in M
  BY <1>1
<1>3. PICK e \in M : \A w \in M : ~(w < e)
  <2>1. M \in SUBSET Nat /\ M # {}
    BY <1>2
  <2> HIDE DEF M
  <2>2. QED
    BY <2>1, LeastNatural
<1>4. ASSUME NEW i \in start..e PROVE Same(i)
  <2>1. CASE i = start
    BY <2>1 DEF Same
  <2>2. CASE i # start
    <3> SUFFICES ASSUME ~Same(i) PROVE FALSE
      OBVIOUS
    <3>1. /\ i - 1 \in Nat /\ start <= i - 1 /\ i - 1 <= n /\ (i - 1) + 1 = i /\ i - 1 < e
      BY <1>1, <1>3, <2>2
    <3>2. i - 1 \in M
      BY <3>1
    <3>3. QED
      BY <1>3, <3>1, <3>2
  <2>3. QED
    BY <2>1, <2>2
<1>5. e \in start..n /\ (e < n => ~Same(e + 1))
  BY <1>1, <1>3
<1>6. \E d \in start..Len(l) : /\ \A i \in start..d : l[i].chunk_id = l[start].chunk_id
                               /\ d < Len(l) => l[d + 1].chunk_id # l[start].chunk_id
  BY <1>4, <1>5 DEF Same, n
<1> DEFINE r == CHOOSE d \in start..Len(l) :
                    /\ \A i \in start..d : l[i].chunk_id = l[start].chunk_id
                    /\ d < Len(l) => l[d + 1].chunk_id # l[start].chunk_id
<1>7. r \in start..Len(l) /\ \A i \in start..r : l[i].chunk_id = l[start].chunk_id
  BY <1>6
<1>8. RunEnd(l, start) = r
  BY DEF RunEnd
<1> HIDE DEF r
<1>9. QED
  BY <1>7, <1>8

\* Two parts of a list that meet.
LEMMA PartsMeet ==
    ASSUME NEW S, NEW l \in Seq(S), NEW start \in 1..Len(l), NEW end \in start..Len(l)
    PROVE  /\ SubSeq(l, 1, start - 1) \in Seq(S) /\ SubSeq(l, start, end) \in Seq(S)
           /\ SubSeq(l, 1, end) \in Seq(S)
           /\ SubSeq(l, 1, start - 1) \o SubSeq(l, start, end) = SubSeq(l, 1, end)
           /\ \A i \in 1..Len(SubSeq(l, start, end)) :
                 /\ i + (start - 1) \in start..end
                 /\ SubSeq(l, start, end)[i] = l[i + (start - 1)]
OBVIOUS

\* A run of positions with the same chunk id.
LEMMA ScanRunStep ==
    ASSUME ScanInv, NEW o \in Ops, scan_run(o)
    PROVE  ScanInv'
<1>0. PICK op : op = ops[o]
  OBVIOUS
<1>1. InReferenceChunk(o) /\ InputChunk(o).pos_list # <<>> /\ UNCHANGED vars
  BY DEF scan_run
<1>2. /\ op \in Operator /\ Accepted(op) /\ Halfway(op) /\ Lists(op) \in Seq(Seq(Positions))
      /\ op.input # o /\ op.status = "running" /\ BaseInv
      /\ op.chunk_id \in 1..Len(Lists(op))
  BY <1>0, <1>1, RunningFacts, InReferenceFacts DEF ScanInv
<1>3. PICK l \in Seq(Positions) : /\ l = InputChunk(o).pos_list /\ l # <<>>
                                  /\ l = Lists(op)[op.chunk_id]
  BY <1>0, <1>1, InReferenceFacts
<1>4. /\ InputChunk(o).table = Base
      /\ InputChunk(o).columns[op.predicate.column_id] = BaseColumn(op)
  BY <1>0, <1>1, InReferenceFacts
<1>5. PICK start \in 1..Len(l) : start = op.start_index
  <2>1. op.chunk_id <= Len(Lists(op))
    BY <1>2
  <2>2. op.start_index \in 1..(Len(l) + 1) /\ op.start_index <= Len(l)
    BY <1>2, <1>3, <2>1 DEF Halfway
  <2>3. op.start_index \in 1..Len(l)
    BY <2>2
  <2>4. QED
    BY <2>3
<1>6. op.found = Picked(SubSeq(l, 1, start - 1), Satisfying(op))
  BY <1>2, <1>3, <1>5 DEF Halfway
<1>7. PICK end \in start..Len(l) : end = RunEnd(l, start)
  BY RunEndFacts
<1>8. \A i \in start..end : l[i].chunk_id = l[start].chunk_id
  BY <1>7, RunEndFacts
<1>9. PICK segment : segment = chunks[l[start].chunk_id][BaseColumn(op)]
  OBVIOUS
<1>10. PICK part \in Seq(Positions) : part = SubSeq(l, start, end)
  BY PartsMeet
<1>11. \A i \in 1..Len(part) : segment = chunks[part[i].chunk_id][BaseColumn(op)]
  BY <1>8, <1>9, <1>10, PartsMeet
<1>12. scan_positions(op.predicate.scan_type, segment, op.predicate.value, part)
           = Picked(part, Satisfying(op))
  BY <1>2, <1>11, ScanPart
<1>13. PICK found : found = op.found \o scan_positions(op.predicate.scan_type, segment,
                                                       op.predicate.value, part)
  OBVIOUS
<1>14. found = Picked(SubSeq(l, 1, end), Satisfying(op))
  <2>1. PICK T : T = Satisfying(op)
    OBVIOUS
  <2>2. PICK before \in Seq(Positions) : before = SubSeq(l, 1, start - 1)
    BY PartsMeet
  <2>3. Picked(before \o part, T) = Picked(before, T) \o Picked(part, T)
    BY PickedConcat
  <2>4. before \o part = SubSeq(l, 1, end)
    BY <1>10, <2>2, PartsMeet
  <2>5. QED
    BY <1>6, <1>12, <1>13, <2>1, <2>2, <2>3, <2>4
<1>15. \/ /\ end < Len(l)
          /\ ops' = [ops EXCEPT ![o].start_index = end + 1, ![o].found = found]
       \/ end = Len(l) /\ AddToOutput(o, found, Base)
  BY <1>0, <1>3, <1>4, <1>5, <1>7, <1>9, <1>10, <1>13 DEF scan_run
<1>16. CASE /\ end < Len(l)
            /\ ops' = [ops EXCEPT ![o].start_index = end + 1, ![o].found = found]
  <2> DEFINE new == [op EXCEPT !.start_index = end + 1, !.found = found]
  <2>1. ops' = [ops EXCEPT ![o] = new]
    BY <1>0, <1>16 DEF ScanInv
  <2>2. /\ end + 1 \in Nat /\ end + 1 \in 1..(Len(l) + 1) /\ end + 1 <= Len(l)
        /\ (end + 1) - 1 = end
    BY <1>16
  <2>3. found \in Seq(RowIDs)
    <3>1. PICK upto \in Seq(Positions) : upto = SubSeq(l, 1, end)
      BY PartsMeet
    <3>2. Picked(upto, Satisfying(op)) \in Seq(Positions)
      BY PickedType
    <3>3. Positions \subseteq RowIDs
      BY <1>2, PositionFacts
    <3>4. found \in Seq(Positions)
      BY <1>14, <3>1, <3>2
    <3>5. QED
      BY <3>3, <3>4
  <2>4. /\ new \in Operator /\ new.status = "running" /\ new.input = op.input
        /\ new.predicate = op.predicate /\ new.types = op.types /\ new.rows = op.rows
        /\ new.output = op.output /\ new.chunk_id = op.chunk_id
        /\ new.start_index = end + 1 /\ new.found = found
    BY <1>2, <2>2, <2>3 DEF Operator
  <2> HIDE DEF new
  <2>5. Lists(new) = Lists(op) /\ BaseColumn(new) = BaseColumn(op)
    BY <2>4 DEF Lists, BaseColumn
  <2>6. Satisfying(new) = Satisfying(op)
    BY <2>4, <2>5 DEF Satisfying
  <2>7. Accepted(new)
    BY <1>2, <2>4, <2>5 DEF Accepted
  <2>8. Halfway(new)
    BY <1>2, <1>3, <1>14, <2>2, <2>4, <2>5, <2>6 DEF Halfway
  <2>9. OpOK(new)
    BY <2>4, <2>7, <2>8 DEF OpOK
  <2>10. QED
    BY <1>0, <1>1, <1>2, <2>1, <2>4, <2>9, OperatorStep
<1>17. CASE end = Len(l) /\ AddToOutput(o, found, Base)
  <2>1. SubSeq(l, 1, Len(l)) = l
    OBVIOUS
  <2>2. found = Picked(Lists(op)[op.chunk_id], Satisfying(op)) /\ op.chunk_id <= Len(Lists(op))
    <3>1. op.chunk_id <= Len(Lists(op))
      BY <1>2
    <3>2. PICK T : T = Satisfying(op)
      OBVIOUS
    <3>3. found = Picked(l, T)
      BY <1>14, <1>17, <2>1, <3>2
    <3>4. QED
      BY <1>3, <3>1, <3>2, <3>3
  <2>3. QED
    BY <1>0, <1>1, <1>2, <1>17, <2>2, AddStep
<1>18. QED
  BY <1>15, <1>16, <1>17

\* The end of a scan.
LEMMA FinishStep ==
    ASSUME ScanInv, NEW o \in Ops, finish(o)
    PROVE  ScanInv'
<1>0. PICK op : op = ops[o]
  OBVIOUS
<1>1. /\ op \in Operator /\ Accepted(op) /\ Halfway(op) /\ Lists(op) \in Seq(Seq(Positions))
      /\ op.input # o /\ op.status = "running" /\ BaseInv /\ UNCHANGED vars
      /\ op.input # Base => /\ ops[op.input] \in Operator /\ op.types = ops[op.input].types
                            /\ Readable(ops[op.input])
  BY <1>0, RunningFacts DEF finish, ScanInv
<1>2. Len(Lists(op)) = IF op.input = Base THEN Len(chunks) ELSE Len(ops[op.input].output)
  <2>1. CASE op.input = Base
    BY <1>1, <2>1, TableListsFacts DEF Lists
  <2>2. CASE op.input # Base
    <3>1. PICK output \in Seq(ReferenceChunk) : output = ops[op.input].output
      BY <1>1, <2>2 DEF Operator
    <3>2. \A c \in DOMAIN output : output[c].pos_list \in Seq(Positions)
      BY <1>1, <2>2, <3>1 DEF Readable
    <3>3. Len(OutputLists(output)) = Len(output)
      BY <3>2, OutputListsFacts
    <3>4. QED
      BY <2>2, <3>1, <3>3 DEF Lists
  <2>3. QED
    BY <2>1, <2>2
<1>3. PositionsOf(op.output) = Picked(op.rows, Satisfying(op))
  <2>1. PICK lists \in Seq(Seq(Positions)) : lists = Lists(op)
    BY <1>1
  <2>2. /\ op.chunk_id \in 1..(Len(lists) + 1) /\ op.rows = FlattenSeq(lists)
        /\ PositionsOf(op.output)
               = Picked(FlattenSeq(SubSeq(lists, 1, op.chunk_id - 1)), Satisfying(op))
    BY <1>1, <2>1 DEF Halfway
  <2>3. op.chunk_id > Len(lists)
    BY <1>0, <1>2, <2>1 DEF finish
  <2>4. op.chunk_id - 1 = Len(lists) /\ SubSeq(lists, 1, Len(lists)) = lists
    BY <2>2, <2>3
  <2>5. QED
    BY <2>2, <2>4
<1>4. PICK out \in Seq(ReferenceChunk) : out = op.output
  BY <1>1 DEF Operator
<1>5. Shape(out) /\ out # <<>> /\ Len(out) \in Nat /\ DOMAIN out = 1..Len(out) /\ 1 \in DOMAIN out
  BY <1>1, <1>4 DEF Accepted, Shape
<1> DEFINE chunk == create_chunk(<<>>, op.input)
           output == IF OutputHasNoRows(op) THEN Emplaced(op, chunk) ELSE op.output
<1>6. /\ output \in Seq(ReferenceChunk) /\ Shape(output) /\ PositionsOf(output) = PositionsOf(op.output)
      /\ output[1].pos_list = <<>> => output[1].columns = [i \in DOMAIN op.types |-> i]
  <2>1. CASE OutputHasNoRows(op)
    <3>1. Len(out) = 1 /\ out[1].pos_list = <<>>
      BY <1>4, <1>5, <2>1 DEF OutputHasNoRows, Shape
    <3>2. TypesOf(op.input) = op.types /\ op.types \in Seq(TypeStrings) /\ op.input \in 0..NumOps
      <4>1. op.input = Base => op.types = Schema /\ column_types = Schema
        BY <1>1 DEF Accepted, BaseInv
      <4>2. QED
        BY <1>1, <4>1 DEF TypesOf, Operator
    <3>3. /\ chunk.columns = [i \in DOMAIN op.types |-> i] /\ chunk.pos_list = <<>>
          /\ chunk = ReferenceChunkOf(op.input, [i \in DOMAIN op.types |-> i], <<>>)
      BY <3>2 DEF create_chunk, ReferenceChunkOf
    <3>4. chunk \in ReferenceChunk
      <4>1. PICK cols : cols = [i \in DOMAIN op.types |-> i]
        OBVIOUS
      <4>2. cols \in [1..Len(op.types) -> Nat] /\ Len(op.types) \in Nat
        BY <3>2, <4>1
      <4>3. cols \in Seq(Nat) /\ <<>> \in Seq(RowIDs)
        BY <4>2
      <4> HIDE DEF chunk
      <4>4. QED
        BY <3>2, <3>3, <4>1, <4>3 DEF ReferenceChunkOf, ReferenceChunk
    <3> HIDE DEF chunk
    <3>5. PICK new : new = [out EXCEPT ![1] = chunk]
      OBVIOUS
    <3>6. /\ new \in Seq(ReferenceChunk) /\ Len(new) = 1 /\ new[1] = chunk /\ new # <<>>
          /\ DOMAIN new = 1..1
      BY <1>5, <3>1, <3>4, <3>5
    <3>7. output = new
      BY <1>4, <2>1, <3>5 DEF Emplaced
    <3>8. PositionsOf(new) = <<>> /\ PositionsOf(out) = <<>>
      BY <3>1, <3>3, <3>6, PositionsOfOne
    <3>9. Shape(new)
      <4>1. <<>> \in Seq(Positions) /\ \A c \in DOMAIN new : c = 1
        BY <3>6
      <4>2. QED
        BY <3>3, <3>6, <4>1 DEF Shape
    <3> HIDE DEF output
    <3>10. QED
      BY <1>4, <3>3, <3>6, <3>7, <3>8, <3>9
  <2>2. CASE ~OutputHasNoRows(op)
    <3>1. ~(Len(out) = 1 /\ out[1].pos_list = <<>>)
      BY <1>4, <1>5, <2>2 DEF OutputHasNoRows
    <3>2. out[1].pos_list # <<>>
      BY <1>5, <3>1 DEF Shape
    <3>3. output = out
      BY <1>4, <2>2
    <3> HIDE DEF output
    <3>4. QED
      BY <1>4, <1>5, <3>2, <3>3
  <2>3. QED
    BY <2>1, <2>2
<1> DEFINE new == [op EXCEPT !.status = "done", !.output = output]
<1>7. ops' = [ops EXCEPT ![o] = new]
  BY <1>0 DEF finish, ScanInv
<1> HIDE DEF output
<1>8. /\ new \in Operator /\ new.status = "done" /\ new.input = op.input
      /\ new.predicate = op.predicate /\ new.types = op.types /\ new.rows = op.rows
      /\ new.output = output
  BY <1>1, <1>6 DEF Operator
<1> HIDE DEF new
<1>9. BaseColumn(new) = BaseColumn(op)
  BY <1>8 DEF BaseColumn
<1>10. Satisfying(new) = Satisfying(op)
  BY <1>8, <1>9 DEF Satisfying
<1>11. Accepted(new)
  BY <1>1, <1>6, <1>8, <1>9 DEF Accepted
<1>12. Finished(new)
  BY <1>3, <1>6, <1>8, <1>10 DEF Finished
<1>13. OpOK(new)
  BY <1>8, <1>11, <1>12 DEF OpOK
<1>14. QED
  BY <1>0, <1>1, <1>7, <1>8, <1>13, OperatorStep

-----------------------------------------------------------------------------
(* The theorems *)

\* The invariant is inductive: no step of the base table or of an operator breaks it.
LEMMA ScanNextInv ==
    ASSUME RowsAreCastable, ScanInv, [ScanNext]_scan_vars
    PROVE  ScanInv'
<1>1. ASSUME NEW o \in Ops, ScanStep(o) PROVE ScanInv'
  BY <1>1, ScanChunkStep, ScanEmptyListStep, ScanRunStep, FinishStep DEF ScanStep
<1>2. CASE UNCHANGED scan_vars
  <2>1. UNCHANGED vars /\ ops' = ops
    BY <1>2 DEF scan_vars
  <2>2. BaseInv'
    BY <2>1 DEF ScanInv, vars, BaseInv, IInv, TypeOK, ChunksInv
  <2>3. ASSUME NEW o \in Ops PROVE OpOK(ops[o])'
    <3>1. PICK p : p = ops[o]
      OBVIOUS
    <3>2. OpOK(p)
      BY <3>1 DEF ScanInv
    <3>3. OpOK(p)'
      BY <2>1, <3>2, SameOp
    <3>4. QED
      BY <2>1, <3>1, <3>3
  <2>4. QED
    BY <2>1, <2>2, <2>3 DEF ScanInv
<1>3. QED
  BY <1>1, <1>2, BaseStepInv, WrapperStep, ExecuteStep DEF ScanNext

\* A finished scan has the rows it should have.
LEMMA ScanInvImplies ==
    ASSUME ScanInv
    PROVE  ScanSelects /\ OutputShape
<1>1. ASSUME NEW o \in Ops, ops[o].status = "done"
      PROVE  /\ PositionsOf(ops[o].output) = Picked(ops[o].rows, Satisfying(ops[o]))
             /\ LET output == ops[o].output
                IN  /\ output # <<>>
                    /\ Len(output) > 1 => \A c \in DOMAIN output : output[c].pos_list # <<>>
                    /\ \A c \in DOMAIN output :
                          IF output[c].pos_list # <<>>
                          THEN output[c].table = Base /\ output[c].columns = AllColumns
                          ELSE output[c].columns = [i \in DOMAIN ops[o].types |-> i]
  <2>0. PICK op : op = ops[o]
    OBVIOUS
  <2>1. op \in Operator /\ Accepted(op) /\ Finished(op)
    BY <1>1, <2>0 DEF ScanInv, OpOK
  <2>2. PICK output \in Seq(ReferenceChunk) : output = op.output
    BY <2>1 DEF Operator
  <2>3. Shape(output) /\ output # <<>> /\ DOMAIN output = 1..Len(output) /\ Len(output) \in Nat
    BY <2>1, <2>2 DEF Accepted, Shape
  <2>4. CASE Len(output) = 1 /\ output[1].pos_list = <<>>
    <3>1. output[1].columns = [i \in DOMAIN op.types |-> i]
      BY <2>1, <2>2, <2>4 DEF Finished
    <3>2. QED
      BY <2>0, <2>1, <2>2, <2>3, <2>4, <3>1 DEF Finished
  <2>5. CASE \A c \in DOMAIN output : /\ output[c].pos_list # <<>> /\ output[c].table = Base
                                      /\ output[c].columns = AllColumns
    BY <2>0, <2>1, <2>2, <2>3, <2>5 DEF Finished
  <2>6. QED
    BY <2>3, <2>4, <2>5 DEF Shape
<1>2. QED
  BY <1>1 DEF ScanSelects, OutputShape, AllColumns

\* Chunk::append leaves dictionary segments alone, whatever its outcome.
LEMMA AppendKeepsDictionaries ==
    ASSUME NEW chunk \in Chunk, NEW values, NEW i \in DOMAIN chunk, chunk[i].kind = "dictionary"
    PROVE  Chunk_append(chunk, values)[i] = chunk[i]
<1>1. i \in 1..i
  BY DEF Chunk
<1>2. ~AppendedUpTo(chunk, values, i)
  BY <1>1 DEF AppendedUpTo, Accepts
<1>3. QED
  BY <1>2 DEF Chunk_append

\* A dictionary segment of the base table stays as it is.
LEMMA DictionariesStay ==
    ASSUME BaseInv, BaseStep, NEW c \in DOMAIN chunks, NEW i \in DOMAIN chunks[c],
           chunks[c][i].kind = "dictionary"
    PROVE  chunks'[c][i] = chunks[c][i]
<1>1. ChunksInv /\ chunks[c] \in Chunk /\ CurrentChunk \in Chunk
      /\ (c = current => CurrentChunk = chunks[c] /\ current # 0)
  BY ChunksFacts DEF BaseInv, IInv, CurrentChunk
<1>2. ASSUME NEW new, PushChunk(new) PROVE chunks'[c][i] = chunks[c][i]
  BY <1>1, <1>2, PushSizes
<1>3. ASSUME NEW values, UpdateCurrentChunk(Chunk_append(CurrentChunk, values))
      PROVE  chunks'[c][i] = chunks[c][i]
  <2>1. c # current => chunks'[c] = chunks[c]
    BY <1>1, <1>3, UpdateSizes
  <2>2. c = current => chunks'[c] = Chunk_append(chunks[c], values)
    BY <1>1, <1>3, UpdateSizes
  <2>3. QED
    BY <1>1, <2>1, <2>2, AppendKeepsDictionaries
<1>4. ASSUME NEW chunk_id, compress_chunk(chunk_id) PROVE chunks'[c][i] = chunks[c][i]
  <2>1. \/ UNCHANGED chunks
        \/ /\ Compressible(chunks[chunk_id])
           /\ chunks' = [chunks EXCEPT ![chunk_id] = CompressedChunk(chunks[chunk_id])]
    BY <1>4 DEF compress_chunk
  <2>2. CASE UNCHANGED chunks
    BY <2>2
  <2>3. CASE /\ Compressible(chunks[chunk_id])
             /\ chunks' = [chunks EXCEPT ![chunk_id] = CompressedChunk(chunks[chunk_id])]
    <3>1. c # chunk_id
      BY <2>3 DEF Compressible
    <3>2. QED
      BY <2>3, <3>1
  <2>4. QED
    BY <2>1, <2>2, <2>3
<1>5. ASSUME FailToCreateChunk PROVE chunks'[c][i] = chunks[c][i]
  BY <1>5 DEF FailToCreateChunk
<1>6. ASSUME NEW values, append(values) PROVE chunks'[c][i] = chunks[c][i]
  BY <1>2, <1>3, <1>5, <1>6 DEF append
<1>7. ASSUME create_new_chunk PROVE chunks'[c][i] = chunks[c][i]
  BY <1>2, <1>5, <1>7 DEF create_new_chunk
<1>8. QED
  BY <1>4, <1>6, <1>7 DEF BaseStep

\* operator[] at a stored position: the entry, unless get refuses the offset.
Refuses(segment, k) == IsDebug /\ segment.kind = "dictionary" /\ Len(segment.dictionary) < k

LEMMA ReadAtPosition ==
    ASSUME NEW segment \in Segment, NEW k \in 1..Segment_size(segment)
    PROVE  /\ Refuses(segment, k) => ValueAt(segment, k) = Throws
           /\ ~Refuses(segment, k) => ValueAt(segment, k) = Entry(segment, k)
<1>1. CASE segment \in ValueSegment
  BY <1>1 DEF ValueSegment, Segment_size, ValueAt, Entry, Refuses, DebugAssert
<1>2. CASE segment \in DictionarySegment
  <2>1. segment.kind = "dictionary" /\ Len(segment.dictionary) \in Nat /\ k \in Int
        /\ k <= Len(segment.attribute_vector.ids)
    BY <1>2 DEF DictionarySegment, FittedAttributeVector, Segment_size
  <2>2. Refuses(segment, k) <=> ~DebugAssert(k <= Len(segment.dictionary)
                                              /\ k <= Len(segment.attribute_vector.ids))
    BY <2>1 DEF Refuses, DebugAssert
  <2>3. QED
    BY <2>1, <2>2 DEF ValueAt, Entry
<1>3. QED
  BY <1>1, <1>2 DEF Segment

\* Whatever the step, a position leads to the same entry, and what get refuses it goes on
\* to refuse.
LEMMA StepKeepsPositions ==
    ASSUME RowsAreCastable, ScanInv, [ScanNext]_scan_vars
    PROVE  \A r \in Positions :
               /\ LeadsToEntries(r, chunks) /\ LeadsToEntries(r, chunks')
               /\ \A i \in DOMAIN Schema :
                     LET old == chunks[r.chunk_id][i]
                         new == chunks'[r.chunk_id][i]
                     IN  /\ Entry(new, r.chunk_offset) = Entry(old, r.chunk_offset)
                         /\ old.kind = "dictionary" => new = old
<1>1. CASE BaseStep
  <2>1. BaseInv /\ BaseInv' /\ EntriesAreKept
    BY <1>1, BaseStepKeeps DEF ScanInv
  <2>2. ASSUME NEW r \in Positions, NEW i \in DOMAIN Schema,
               chunks[r.chunk_id][i].kind = "dictionary"
        PROVE  chunks'[r.chunk_id][i] = chunks[r.chunk_id][i]
    BY <1>1, <2>1, <2>2, PositionFacts, DictionariesStay
  <2>3. QED
    BY <2>1, <2>2, PositionsAreKept
<1>2. CASE ~BaseStep
  <2>1. chunks' = chunks
    <3>1. ASSUME NEW q \in Ops, ScanStep(q) PROVE UNCHANGED vars
      BY <3>1 DEF ScanStep, scan_chunk, scan_empty_list, scan_run, finish
    <3>2. ASSUME NEW q \in Ops, NEW table, TableWrapper_execute(q, table) PROVE UNCHANGED vars
      BY <3>2 DEF TableWrapper_execute
    <3>3. ASSUME NEW q \in Ops, NEW input, NEW p, execute(q, input, p) PROVE UNCHANGED vars
      BY <3>3 DEF execute
    <3>4. UNCHANGED vars
      BY <1>2, <3>1, <3>2, <3>3 DEF ScanNext, scan_vars
    <3>5. QED
      BY <3>4 DEF vars
  <2>2. \A r \in Positions : LeadsToEntries(r, chunks)
    <3>1. BaseInv
      BY DEF ScanInv
    <3>2. QED
      BY <3>1, PositionEntries
  <2>3. \A r \in Positions : LeadsToEntries(r, chunks')
    BY <2>1, <2>2
  <2>4. QED
    BY <2>1, <2>2, <2>3
<1>3. QED
  BY <1>1, <1>2

\* What a finished scan shows survives every step, or is refused after it.
LEMMA StepKeepsReferences ==
    ASSUME RowsAreCastable, ScanInv, [ScanNext]_scan_vars
    PROVE  \A o \in Ops : ops[o].status = "done" => ReferencesKept(o)
<1> SUFFICES ASSUME NEW o \in Ops, ops[o].status = "done" PROVE ReferencesKept(o)
  OBVIOUS
<1>1. ops'[o] = ops[o]
  <2>1. ops \in [Ops -> Operator]
    BY DEF ScanInv
  <2>2. ASSUME NEW q \in Ops, \/ \E table \in ReferenceTables : TableWrapper_execute(q, table)
                              \/ \E input \in 0..(q - 1), p \in Predicates[q] : execute(q, input, p)
        PROVE  ops'[o] = ops[o]
    <3>1. q # o
      BY <2>2 DEF TableWrapper_execute, execute
    <3>2. QED
      BY <2>1, <2>2, <3>1 DEF TableWrapper_execute, execute
  <2>3. ASSUME NEW q \in Ops, ScanStep(q) PROVE ops'[o] = ops[o]
    <3>1. q # o
      BY <2>3 DEF ScanStep, scan_chunk, scan_empty_list, scan_run, finish, InReferenceChunk
    <3>2. ASSUME NEW pos_list, NEW table, AddToOutput(q, pos_list, table) PROVE ops'[o] = ops[o]
      BY <2>1, <3>1, <3>2 DEF AddToOutput
    <3>3. QED
      BY <2>1, <2>3, <3>1, <3>2 DEF ScanStep, scan_chunk, scan_empty_list, scan_run, finish
  <2>4. QED
    BY <2>2, <2>3 DEF ScanNext, BaseStep, scan_vars
<1>2. ASSUME NEW c \in DOMAIN ops[o].output, NEW k \in DOMAIN ops[o].output[c].pos_list,
             NEW i \in DOMAIN ops[o].output[c].columns
      PROVE  LET chunk == ops[o].output[c]
             IN  \/ Dereferenced(chunk, i, k)' = Dereferenced(chunk, i, k)
                 \/ Dereferenced(chunk, i, k)' = Throws /\ RefusedByGet(chunk, i, k)'
  <2>0. PICK op : op = ops[o]
    OBVIOUS
  <2>1. op \in Operator /\ Accepted(op)
    BY <2>0 DEF ScanInv, OpOK
  <2>2. PICK chunk : chunk = op.output[c]
    OBVIOUS
  <2>3. op.output \in Seq(ReferenceChunk) /\ c \in DOMAIN op.output
    BY <2>0, <2>1, <1>2 DEF Operator
  <2>4. chunk.pos_list \in Seq(Positions) /\ (chunk.pos_list # <<>> => chunk.columns = AllColumns)
    BY <2>1, <2>2, <2>3 DEF Accepted, Shape
  <2>5. ops'[o].output[c] = chunk /\ ops[o].output[c] = chunk
    BY <1>1, <2>0, <2>2
  <2>6. k \in DOMAIN chunk.pos_list /\ i \in DOMAIN chunk.columns
    BY <1>2, <2>5
  <2>7. PICK r : r = chunk.pos_list[k]
    OBVIOUS
  <2>8. PICK j : j = chunk.columns[i]
    OBVIOUS
  <2>9. r \in Positions /\ j \in DOMAIN Schema
    <3>1. PICK l \in Seq(Positions) : l = chunk.pos_list
      BY <2>4
    <3>2. l # <<>> /\ l[k] \in Positions
      BY <2>6, <3>1
    <3>3. QED
      BY <2>4, <2>6, <2>7, <2>8, <3>1, <3>2 DEF AllColumns
  <2> DEFINE old == chunks[r.chunk_id][j]
             new == chunks'[r.chunk_id][j]
             n == r.chunk_offset
  <2>10. /\ LeadsToEntries(r, chunks) /\ LeadsToEntries(r, chunks')
         /\ Entry(new, n) = Entry(old, n)
         /\ old.kind = "dictionary" => new = old
    BY <2>9, StepKeepsPositions
  <2>11. Dereferenced(chunk, i, k) = ValueAt(old, n)
    BY <2>7, <2>8, <2>10 DEF Dereferenced, DebugAssert, LeadsToEntries
  <2>12. Dereferenced(chunk, i, k)' = ValueAt(new, n)
    BY <2>7, <2>8, <2>10 DEF Dereferenced, DebugAssert, LeadsToEntries
  <2>13. RefusedByGet(chunk, i, k)' <=> Refuses(new, n)
    BY <2>7, <2>8 DEF RefusedByGet, Refuses
  <2>14. /\ old \in Segment /\ n \in 1..Segment_size(old)
         /\ new \in Segment /\ n \in 1..Segment_size(new)
    BY <2>9, <2>10 DEF LeadsToEntries
  <2>15. Refuses(old, n) => Refuses(new, n)
    BY <2>10 DEF Refuses
  <2> HIDE DEF old, new, n
  <2>16. \/ ValueAt(new, n) = ValueAt(old, n)
         \/ ValueAt(new, n) = Throws /\ Refuses(new, n)
    BY <2>10, <2>14, <2>15, ReadAtPosition
  <2>17. \/ Dereferenced(chunk, i, k)' = Dereferenced(chunk, i, k)
         \/ Dereferenced(chunk, i, k)' = Throws /\ RefusedByGet(chunk, i, k)'
    BY <2>11, <2>12, <2>13, <2>16
  <2>18. /\ Dereferenced(ops[o].output[c], i, k)' = Dereferenced(chunk, i, k)'
         /\ RefusedByGet(ops[o].output[c], i, k)' <=> RefusedByGet(chunk, i, k)'
    BY <2>5 DEF Dereferenced, RefusedByGet
  <2>19. QED
    BY <2>5, <2>17, <2>18
<1>3. QED
  BY <1>1, <1>2 DEF ReferencesKept

\* A finished scan has selected exactly the rows of its input that satisfy its predicate, as
\* often and in the order in which the input had them, for every table, chain of scans and
\* hand-made reference table, while compress_chunk runs at any time, in both builds.
THEOREM ScanSelectsExactly ==
    ASSUME RowsAreCastable
    PROVE  ScanSpec => []ScanSelects
<1>1. ScanInit => ScanInv
  BY InitScanInv
<1>2. ScanInv /\ [ScanNext]_scan_vars => ScanInv'
  BY ScanNextInv
<1>3. ScanInv => ScanSelects
  BY ScanInvImplies
<1>4. ScanSpec => ScanInit /\ [][ScanNext]_scan_vars
  BY PTL DEF ScanSpec
<1>5. QED
  BY <1>1, <1>2, <1>3, <1>4, PTL

\* The output of a finished scan has the chunks TableScan promises, so that another scan can
\* read it: no empty chunk among others, and reference segments for all columns of the base table.
THEOREM ScanOutputShape ==
    ASSUME RowsAreCastable
    PROVE  ScanSpec => []OutputShape
<1>1. ScanInit => ScanInv
  BY InitScanInv
<1>2. ScanInv /\ [ScanNext]_scan_vars => ScanInv'
  BY ScanNextInv
<1>3. ScanInv => OutputShape
  BY ScanInvImplies
<1>4. ScanSpec => ScanInit /\ [][ScanNext]_scan_vars
  BY PTL DEF ScanSpec
<1>5. QED
  BY <1>1, <1>2, <1>3, <1>4, PTL

\* A reference segment of a finished scan never shows another value, whatever is appended to
\* or compressed in the base table: operator[] returns what it returned before, or, in a debug
\* build, throws from then on because get compares the offset with the size of the dictionary.
THEOREM ScanReferencesStable ==
    ASSUME RowsAreCastable
    PROVE  ScanSpec => ReferencesStable
<1> DEFINE Kept == \A o \in Ops : ops[o].status = "done" => ReferencesKept(o)
<1>1. ScanInit => ScanInv
  BY InitScanInv
<1>2. ScanInv /\ [ScanNext]_scan_vars => ScanInv'
  BY ScanNextInv
<1>3. ScanInv /\ [ScanNext]_scan_vars => Kept
  BY StepKeepsReferences
<1>4. ScanSpec => ScanInit /\ [][ScanNext]_scan_vars
  BY PTL DEF ScanSpec
<1>5. ReferencesStable <=> [][Kept]_scan_vars
  BY DEF ReferencesStable
<1> HIDE DEF Kept
<1>6. QED
  BY <1>1, <1>2, <1>3, <1>4, <1>5, PTL
=============================================================================
