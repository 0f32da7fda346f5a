------------------------------ MODULE MCTable ------------------------------
EXTENDS TableRows

Number(n) == [type \in {"int", "string"} |-> IF type = "int" THEN n ELSE 10 - n]
Word == [type \in {"int", "string"} |-> IF type = "int" THEN Throws ELSE 20]

ColumnOf(type, values) == [kind |-> "value", type |-> type, values |-> values]
CompressedOne == [kind |-> "dictionary", type |-> "int", dictionary |-> <<1>>,
                  attribute_vector |-> [max |-> U8Max, ids |-> <<0>>]]

\* Rows of castable values, of every length up to two.
CastableRows == {<<>>, <<Number(1)>>, <<Number(2)>>, <<Number(1), Number(2)>>}

\* Rows with a word in them, which an int column cannot store.
WordRows == {<<Number(1)>>, <<Word>>, <<Number(1), Word>>, <<Word, Number(1)>>,
             <<Number(1), Number(2)>>}

\* A value chunk with room for another row, a full one, a compressed one that is not full,
\* one that is too large for ChunkSize = 2 and one without rows.
SomeChunks == {<<ColumnOf("int", <<2>>)>>,
               <<ColumnOf("int", <<2, 2>>)>>,
               <<CompressedOne>>,
               <<ColumnOf("int", <<1, 2, 1>>)>>,
               <<ColumnOf("int", <<>>)>>}
=============================================================================
