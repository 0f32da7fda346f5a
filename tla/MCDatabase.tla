----------------------------- MODULE MCDatabase -----------------------------
(***************************************************************************)
(* Two threads and two tables.  A full chunk is followed by the empty one   *)
(* that create_new_chunk has made, and then only _chunks owns it, or it is *)
(* the only chunk and still the current one.                               *)
(***************************************************************************)
EXTENDS Database, TLC

CONSTANTS t1, t2, n1

MCTableName == [t \in Threads |-> n1]

MCContents == {(t1 :> full) @@ (t2 :> <<0>>) : full \in {<<2, 0>>, <<2>>}}
=============================================================================
