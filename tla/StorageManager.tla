--------------------------- MODULE StorageManager ---------------------------
(***************************************************************************)
(* The map from names to tables (src/lib/storage/storage_manager.cpp).  A  *)
(* table is shared: the map is one of its owners.  Absent stands for a     *)
(* name that is not in the map, and for the null pointer.                  *)
(***************************************************************************)
CONSTANTS
    Names,      \* the names of tables
    Tables,     \* the table objects
    Absent

ASSUME AbsentAssumption == Absent \notin Tables

VARIABLE tables

InitStorage == tables = [n \in Names |-> Absent]

has_table(name) == tables[name] # Absent

\* An exception is thrown, and nothing changed, where these are not enabled.
add_table(name, table) ==
    ~has_table(name) /\ tables' = [tables EXCEPT ![name] = table]

drop_table(name) ==
    has_table(name) /\ tables' = [tables EXCEPT ![name] = Absent]

reset == tables' = [n \in Names |-> Absent]
=============================================================================
