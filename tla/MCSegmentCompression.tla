------------------------ MODULE MCSegmentCompression ------------------------
EXTENDS SegmentCompression

\* Two types whose casts disagree: a number in a string column is ordered
\* differently from the same number in an int column, and a word is no number.
Number(n) == [type \in {"int", "string"} |-> IF type = "int" THEN n ELSE 5 - n]
Word == [type \in {"int", "string"} |-> IF type = "int" THEN Throws ELSE 9]

MCVariants == {Number(n) : n \in {1, 3, 4, 7}} \cup {Word}
=============================================================================
