------------------------------ MODULE RowStore ------------------------------
(***************************************************************************)
(* What a table promises its caller: it is a sequence of rows, an append   *)
(* that returns adds its row at the end, a chunk that is emplaced adds its *)
(* rows at the end, and every other call, failed ones included, leaves the *)
(* rows alone.  How rows are split into chunks and encoded is not visible. *)
(***************************************************************************)
EXTENDS Integers, Sequences

CONSTANTS
    Values,   \* what a row is made of
    Batches   \* the sequences of rows that can be emplaced as one chunk

VARIABLES rows, last
vars == <<rows, last>>

Init == /\ rows = <<>>
        /\ last = [call |-> "Table", outcome |-> "ok", row |-> <<>>]

\* The row without values leaves no trace.
append ==
    /\ last'.call = "append" /\ last'.outcome = "ok"
    /\ last'.row \in Seq(Values)
    /\ rows' = IF last'.row = <<>> THEN rows ELSE Append(rows, last'.row)

emplace_chunk ==
    /\ last'.call = "emplace_chunk" /\ last'.outcome = "ok"
    /\ \E batch \in Batches : rows' = rows \o batch

reorganise ==
    /\ last'.call \in {"add_column_definition", "add_column", "create_new_chunk", "compress_chunk"}
    /\ last'.outcome = "ok"
    /\ UNCHANGED rows

fail ==
    /\ last'.outcome = "throws"
    /\ UNCHANGED rows

Next == append \/ emplace_chunk \/ reorganise \/ fail

Spec == Init /\ [][Next]_vars
=============================================================================
