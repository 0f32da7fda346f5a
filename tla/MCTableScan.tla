---------------------------- MODULE MCTableScan ----------------------------
EXTENDS TableScan

Number(n) == [type \in {"int", "string"} |-> n]

TwoColumns == <<"int", "int">>

\* The order of the rows differs from one column to the other.
SomeRows == {<<Number(1), Number(2)>>, <<Number(3), Number(1)>>}

Where(column_id, scan_type, type, value) ==
    [column_id |-> column_id, scan_type |-> scan_type, type |-> type, value |-> value]

\* The first scan compares the first column with a value that may be stored, with one that
\* is not, or with a value of another type.
FirstScan == {Where(1, "OpEquals", "int", 1), Where(1, "OpEquals", "int", 2),
              Where(1, "OpNotEquals", "int", 2), Where(1, "OpLessThan", "int", 3),
              Where(1, "OpLessThanEquals", "int", 1), Where(1, "OpGreaterThan", "int", 1),
              Where(1, "OpGreaterThanEquals", "int", 3), Where(1, "OpEquals", "string", 1)}
SecondScan == {Where(2, "OpGreaterThanEquals", "int", 2), Where(1, "OpLessThanEquals", "int", 1)}

TwoScans == <<FirstScan, SecondScan>>

\* Position lists that jump between chunks, repeat a position or are empty, over both
\* columns or over the second column only.
P(c, k) == RowID(c, k)
Lists == << <<P(1, 2), P(2, 1), P(1, 1), P(1, 2)>>, <<>>, <<P(2, 1)>> >>

SomeReferenceTables == {[columns |-> <<1, 2>>, pos_lists |-> Lists],
                        [columns |-> <<2>>, pos_lists |-> << <<P(1, 1)>>, <<P(1, 2)>> >>]}
=============================================================================
