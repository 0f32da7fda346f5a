------------------------------ MODULE Database ------------------------------
(***************************************************************************)
(* Threads that share the tables of the storage manager.  Each owns a plan *)
(* of two operators, GetTable and Print on its output                      *)
(* (src/lib/operators), and may also compress chunks, look at entries, and *)
(* register or drop tables.  Appending is documented as not thread-safe    *)
(* and is not part of this module; calls of the storage manager are not    *)
(* locked either and are taken to be made one at a time.  The build is a   *)
(* debug build: release builds have no warnings.                           *)
(*                                                                         *)
(* A chunk object is a record [table, id, version]: version 0 was built by *)
(* append, and every compression makes a new one.  An object lives as long *)
(* as one of its owners, the list _chunks of its table or _current_chunk,  *)
(* and these as long as the table has an owner.  The output of Print is    *)
(* left out: nothing reads a table by way of it.                           *)
(***************************************************************************)
EXTENDS StorageManager, PerformanceWarning, FiniteSets

CONSTANTS
    table_name,     \* the name of each thread's GetTable
    Contents,       \* choices for rows, below
    ChunkSize,      \* the rows of a full chunk
    ScopeThreads    \* threads that also open scopes with a disabler of their own

ASSUME PlanAssumption ==
    /\ table_name \in [Threads -> Names]
    /\ Contents \subseteq [Tables -> Seq(Nat)]

VARIABLES
    rows,           \* table |-> the number of rows of each of its chunks; does not change
    version,        \* _chunks: table |-> the version of each chunk
    fetched,        \* _output of the thread's GetTable
    pc,             \* what the thread does
    pass,           \* Print: "widths" or "rows"
    chunk_id,       \* Print: the chunk; compress_chunk: its argument
    ref,            \* the reference get_chunk has returned, or Absent
    undefined,      \* why the process has undefined behaviour, or "no"
    returned,       \* history: threads whose GetTable has returned before
    replaced        \* history: threads whose ref has been replaced while they held it

planVars == <<fetched, pc, pass, chunk_id, ref, returned, replaced>>
vars == <<tables, warningVars, rows, version, planVars, undefined>>

\* Variant: only the storage manager owns tables.
Mutant_Owners(table) == {n \in Names : tables[n] = table}

\* The owners of a table: names, threads whose operators have it as output, and callers of
\* its compress_chunk.
Owners(table) ==
    {n \in Names : tables[n] = table} \cup
    {t \in Threads : \/ fetched[t] = table
                     \/ pc[t] \in {"compress", "replace"} /\ ref[t].table = table}

IsCurrent(chunk) == chunk.version = 0 /\ chunk.id = Len(rows[chunk.table])

Alive(chunk) ==
    /\ Owners(chunk.table) # {}
    /\ version[chunk.table][chunk.id] = chunk.version \/ IsCurrent(chunk)

get_chunk(table, id) == [table |-> table, id |-> id, version |-> version[table][id]]

Init ==
    /\ InitStorage /\ InitWarning
    /\ rows \in Contents
    /\ version = [t \in Tables |-> [i \in DOMAIN rows[t] |-> 0]]
    /\ fetched = [t \in Threads |-> Absent]
    /\ pc = [t \in Threads |-> "idle"] /\ pass = [t \in Threads |-> "widths"]
    /\ chunk_id = [t \in Threads |-> 1] /\ ref = [t \in Threads |-> Absent]
    /\ undefined = "no" /\ returned = {} /\ replaced = {}

Idle(thread) == pc[thread] = "idle" /\ thread \notin disabling

Go(thread, to) == pc' = [pc EXCEPT ![thread] = to]

\* A call that has ended forgets its local variables.
Return(thread) ==
    /\ Go(thread, "idle")
    /\ pass' = [pass EXCEPT ![thread] = "widths"]
    /\ chunk_id' = [chunk_id EXCEPT ![thread] = 1]
    /\ ref' = [ref EXCEPT ![thread] = Absent]
    /\ replaced' = replaced \ {thread}

-----------------------------------------------------------------------------
(* The storage manager, and scopes with a disabler of the thread's own *)

\* The table is new: it takes the place of one that nothing owns.
Register(thread) ==
    /\ Idle(thread)
    /\ \E n \in Names, t \in Tables :
          /\ Owners(t) = {}
          /\ add_table(n, t)
          /\ version' = [version EXCEPT ![t] = [i \in DOMAIN rows[t] |-> 0]]
    /\ UNCHANGED <<warningVars, rows, planVars, undefined>>

Drop(thread) ==
    /\ Idle(thread)
    /\ (\E n \in Names : drop_table(n)) \/ reset
    /\ UNCHANGED <<warningVars, rows, version, planVars, undefined>>

OpenScope(thread) ==
    /\ thread \in ScopeThreads /\ Idle(thread) /\ ~HasDisabler(thread)
    /\ BeginDisable(thread)
    /\ UNCHANGED <<tables, rows, version, planVars, undefined>>

FinishDisable(thread) ==
    /\ EndDisable(thread)
    /\ UNCHANGED <<tables, rows, version, planVars, undefined>>

CloseScope(thread) ==
    /\ Idle(thread) /\ Destroy(thread)
    /\ UNCHANGED <<tables, rows, version, planVars, undefined>>

-----------------------------------------------------------------------------
(* GetTable *)

\* Variant: the output is cleared before the table is looked up.
Mutant_Fetched(thread, name) == [fetched EXCEPT ![thread] = tables[name]]

\* execute() assigns _output only when get_table has returned; an exception leaves the output
\* of the execution before.
Fetched(thread, name) ==
    IF has_table(name) THEN [fetched EXCEPT ![thread] = tables[name]] ELSE fetched

ExecuteGetTable(thread) ==
    /\ Idle(thread)
    /\ fetched' = Fetched(thread, table_name[thread])
    /\ returned' = IF has_table(table_name[thread]) THEN returned \cup {thread} ELSE returned
    /\ UNCHANGED <<tables, warningVars, rows, version, pc, pass, chunk_id, ref, replaced,
                   undefined>>

\* The caller looks at an entry of its table with operator[].  Only value segments warn.
ReadEntry(thread) ==
    /\ Idle(thread) /\ fetched[thread] # Absent
    /\ \E id \in DOMAIN rows[fetched[thread]] :
          rows[fetched[thread]][id] > 0 /\ version[fetched[thread]][id] = 0
    /\ Warn
    /\ UNCHANGED <<tables, rows, version, planVars, undefined>>

-----------------------------------------------------------------------------
(* Print *)

\* The disabler comes first.
ExecutePrint(thread) ==
    /\ Idle(thread)
    /\ BeginDisable(thread) /\ Go(thread, "print")
    /\ UNCHANGED <<tables, rows, version, fetched, pass, chunk_id, ref, returned, replaced,
                   undefined>>

\* The input was never executed: a null pointer is dereferenced.
DereferenceNull(thread) ==
    /\ pc[thread] = "print" /\ thread \notin disabling /\ fetched[thread] = Absent
    /\ undefined' = "null"
    /\ UNCHANGED <<tables, warningVars, rows, version, planVars>>

Input(thread) == fetched[thread]

GetChunk(thread) ==
    /\ pc[thread] = "print" /\ thread \notin disabling /\ fetched[thread] # Absent
    /\ chunk_id[thread] <= Len(rows[Input(thread)])
    /\ ref' = [ref EXCEPT ![thread] = get_chunk(Input(thread), chunk_id[thread])]
    /\ Go(thread, "read")
    /\ UNCHANGED <<tables, warningVars, rows, version, fetched, pass, chunk_id,
                   returned, replaced, undefined>>

\* Variant: an empty chunk is left without going to the next one.
Mutant_NextChunkStays(id, size) == IF size = 0 THEN id ELSE id + 1

\* Variant: an empty chunk is left by two increments.
Mutant_NextChunkSkips(id, size) == IF size = 0 THEN id + 2 ELSE id + 1

NextChunk(id, size) == id + 1

\* Rows of value segments raise the warning; dictionary segments do not.
ReadChunk(thread) ==
    /\ pc[thread] = "read" /\ Alive(ref[thread])
    /\ LET size == rows[ref[thread].table][ref[thread].id]
       IN /\ IF size > 0 /\ ref[thread].version = 0 THEN Warn ELSE UNCHANGED warningVars
          /\ chunk_id' = [chunk_id EXCEPT ![thread] = NextChunk(@, size)]
    /\ ref' = [ref EXCEPT ![thread] = Absent]
    /\ replaced' = replaced \ {thread}
    /\ Go(thread, "print")
    /\ UNCHANGED <<tables, rows, version, fetched, pass, returned, undefined>>

\* DictionarySegment::get refuses a position of a segment with duplicates.  The exception
\* destroys the disabler and leaves the output as it was.
ReadThrows(thread) ==
    /\ pc[thread] = "read" /\ Alive(ref[thread])
    /\ ref[thread].version > 0 /\ rows[ref[thread].table][ref[thread].id] > 1
    /\ Destroy(thread)
    /\ Return(thread)
    /\ UNCHANGED <<tables, rows, version, fetched, returned, undefined>>

\* The last owner of the chunk was dropped after get_chunk had returned.
ReadFreedChunk(thread) ==
    /\ pc[thread] = "read" /\ ~Alive(ref[thread])
    /\ undefined' = "freed"
    /\ UNCHANGED <<tables, warningVars, rows, version, planVars>>

Exhausted(thread) ==
    /\ pc[thread] = "print" /\ thread \notin disabling /\ fetched[thread] # Absent
    /\ chunk_id[thread] > Len(rows[Input(thread)])

\* The widths of the columns are known: the rows are printed.
StartRows(thread) ==
    /\ Exhausted(thread) /\ pass[thread] = "widths"
    /\ pass' = [pass EXCEPT ![thread] = "rows"]
    /\ chunk_id' = [chunk_id EXCEPT ![thread] = 1]
    /\ UNCHANGED <<tables, warningVars, rows, version, fetched, pc, ref, returned,
                   replaced, undefined>>

\* The disabler is destroyed when the function returns.
EndPrint(thread) ==
    /\ Exhausted(thread) /\ pass[thread] = "rows"
    /\ Destroy(thread)
    /\ Return(thread)
    /\ UNCHANGED <<tables, rows, version, fetched, returned, undefined>>

-----------------------------------------------------------------------------
(* compress_chunk, called on a table of the storage manager *)

\* A chunk that is not full, or compressed already, makes the call throw and changes nothing.
StartCompress(thread) ==
    /\ Idle(thread)
    /\ \E n \in Names :
          /\ has_table(n)
          /\ \E id \in DOMAIN rows[tables[n]] :
                /\ rows[tables[n]][id] = ChunkSize /\ version[tables[n]][id] = 0
                /\ ref' = [ref EXCEPT ![thread] = get_chunk(tables[n], id)]
    /\ Go(thread, "compress")
    /\ UNCHANGED <<tables, warningVars, rows, version, fetched, pass, chunk_id, returned,
                   replaced, undefined>>

\* The new chunk is built from the columns of the old one ...
BuildCompressed(thread) ==
    /\ pc[thread] = "compress" /\ Alive(ref[thread])
    /\ Go(thread, "replace")
    /\ UNCHANGED <<tables, warningVars, rows, version, fetched, pass, chunk_id, ref,
                   returned, replaced, undefined>>

\* ... which another call may have replaced meanwhile ...
CompressFreedChunk(thread) ==
    /\ pc[thread] = "compress" /\ ~Alive(ref[thread])
    /\ undefined' = "freed"
    /\ UNCHANGED <<tables, warningVars, rows, version, planVars>>

\* ... and takes its place, whatever is there now.
ReplaceChunk(thread) ==
    /\ pc[thread] = "replace"
    /\ LET t == ref[thread].table
           i == ref[thread].id
       IN /\ version' = [version EXCEPT ![t][i] = @ + 1]
          /\ replaced' = (replaced \ {thread}) \cup
                            {o \in Threads \ {thread} : /\ pc[o] \in {"read", "compress"}
                                                       /\ ref[o] = get_chunk(t, i)}
    /\ ref' = [ref EXCEPT ![thread] = Absent]
    /\ Go(thread, "idle")
    /\ UNCHANGED <<tables, warningVars, rows, fetched, pass, chunk_id, returned, undefined>>

-----------------------------------------------------------------------------
PrintStep(t) ==
    \/ FinishDisable(t) \/ DereferenceNull(t) \/ GetChunk(t) \/ ReadChunk(t) \/ ReadThrows(t)
    \/ ReadFreedChunk(t) \/ StartRows(t) \/ EndPrint(t)

Step(t) ==
    \/ Register(t) \/ Drop(t) \/ OpenScope(t) \/ CloseScope(t)
    \/ ExecuteGetTable(t) \/ ReadEntry(t) \/ ExecutePrint(t)
    \/ StartCompress(t) \/ BuildCompressed(t) \/ CompressFreedChunk(t) \/ ReplaceChunk(t)

\* After undefined behaviour anything may happen; nothing is said about it.
Next == undefined = "no" /\ \E t \in Threads : PrintStep(t) \/ Step(t)

Safety == Init /\ [][Next]_vars

\* The operating system runs every thread that can run.
Spec == Safety /\ \A t \in Threads : WF_vars(undefined = "no" /\ PrintStep(t))

-----------------------------------------------------------------------------
ChunkRef == [table : Tables, id : Nat \ {0}, version : Nat]

\* The null pointer refers to no chunk.
ASSUME AbsentChunkAssumption == Absent \notin ChunkRef

\* The variables keep their types, and Print its place in the table.
TypeOK ==
    /\ tables \in [Names -> Tables \cup {Absent}]
    /\ version \in [Tables -> Seq(Nat)]
    /\ \A t \in Tables : Len(version[t]) = Len(rows[t])
    /\ fetched \in [Threads -> Tables \cup {Absent}]
    /\ pc \in [Threads -> {"idle", "print", "read", "compress", "replace"}]
    /\ pass \in [Threads -> {"widths", "rows"}]
    /\ \A t \in Threads : /\ ref[t] \in ChunkRef \cup {Absent}
                          /\ (ref[t] = Absent) <=> (pc[t] \in {"idle", "print"})
                          /\ pc[t] = "print" /\ fetched[t] # Absent =>
                                chunk_id[t] \in 1..(Len(rows[fetched[t]]) + 1)
    /\ undefined \in {"no", "null", "freed"}
    /\ returned \subseteq Threads /\ replaced \subseteq Threads

\* The reference that get_chunk returns dangles only when compress_chunk has replaced the chunk
\* since, and never while _current_chunk still holds it.  Dropping the table, resetting the
\* storage manager or executing GetTable again frees nothing that an operator or a caller of
\* compress_chunk uses.
OnlyCompressionFrees ==
    \A t \in Threads :
        pc[t] \in {"read", "compress"} /\ ~Alive(ref[t]) =>
            t \in replaced /\ ~IsCurrent(ref[t])

\* Print meets a null input only when its GetTable has never returned: a failing execution
\* of GetTable, also of a table dropped since, leaves the earlier output in place.
NullOnlyBeforeInput ==
    \A t \in Threads : pc[t] = "print" /\ fetched[t] = Absent => t \notin returned

\* "this does not cause a warning": as long as disablers of threads have not overlapped, a
\* warning appears only while nobody has one.
SilentInScope ==
    [][warning # "shown" /\ warning' = "shown" /\ ~overlapped =>
          \A t \in Threads : Complete(t) = <<>>]_vars

\* A Print that has started returns or throws, unless the process is undefined by then:
\* no chunk, empty, compressed or replaced on the way, holds it up.
PrintEnds ==
    \A t \in Threads : pc[t] \in {"print", "read"} ~> (pc[t] = "idle" \/ undefined # "no")
=============================================================================
