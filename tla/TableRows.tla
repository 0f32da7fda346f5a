----------------------------- MODULE TableRows -----------------------------
(***************************************************************************)
(* A table implements RowStore: the rows of its chunks, one after the      *)
(* other.                                                                  *)
(***************************************************************************)
EXTENDS Table, SequencesExt

\* The rows of a chunk that has a segment at all.
ChunkRows(chunk) == [k \in 1..Chunk_size(chunk) |-> ChunkRow(chunk, k)]

StoredRows == FlattenSeq([c \in DOMAIN chunks |-> ChunkRows(chunks[c])])

\* The row an append that returned has to store: the casts to the column types.
CastRow(values) == [i \in DOMAIN values |-> type_cast(column_types[i], values[i])]

LastCall ==
    [last EXCEPT !.row = IF last.call = "append" /\ last.outcome = "ok"
                         THEN CastRow(last.row) ELSE <<>>]

RowStore == INSTANCE RowStore WITH
    rows <- StoredRows, last <- LastCall,
    Batches <- {ChunkRows(chunk) : chunk \in EmplacedChunks}

\* Table implements RowStore: no call loses, reorders, tears or invents a row, and
\* create_new_chunk, compress_chunk and every call that throws leave the rows alone.
ImplementsRowStore == RowStore!Spec

\* Every chunk has the columns the table is defined with.
ChunkMatchesColumns(chunk) ==
    /\ Len(chunk) = Len(column_types)
    /\ \A i \in DOMAIN chunk : chunk[i].type = column_types[i]

ColumnsMatch == \A c \in DOMAIN chunks : ChunkMatchesColumns(chunks[c])

\* A caller that never makes a call after which a chunk and the column definitions
\* disagree: it adds its columns before further chunks, with add_column, and emplaces
\* chunks that have them.
SchemaSpec == Init /\ [][Next /\ ColumnsMatch']_vars

\* A caller that defines columns with add_column only and emplaces no chunks, so that
\* every segment of the table is one that the table has added itself.
AddColumnSpec ==
    Init /\ [][Next /\ last'.call \notin {"add_column_definition", "emplace_chunk"}]_vars
=============================================================================
