--------------------------- MODULE DatabaseProofs ---------------------------
(***************************************************************************)
(* Proofs about Database: any number of threads, names and tables, and     *)
(* tables of any content.                                                  *)
(***************************************************************************)
EXTENDS Database, TLAPS

-----------------------------------------------------------------------------
(* Warnings *)

WarningTypeOK ==
    /\ disabled \in BOOLEAN /\ overlapped \in BOOLEAN
    /\ saved \in [Threads -> Seq(BOOLEAN)]
    /\ disabling \in SUBSET Threads
    /\ \A t \in disabling : saved[t] # <<>>

\* Only one thread has disablers, and all but its first one found warnings disabled.
SavedInOrder ==
    /\ \A t, u \in Threads : saved[t] # <<>> /\ saved[u] # <<>> => t = u
    /\ \A t \in Threads : \A i \in 1..Len(saved[t]) : (saved[t][i] <=> i > 1)

WarningInv == WarningTypeOK /\ (~overlapped => SavedInOrder /\ DisablerWorksAlone)

\* A sequence without its last element.
LEMMA FrontProperties ==
    ASSUME NEW S, NEW s \in Seq(S), s # <<>>
    PROVE  /\ Front(s) \in Seq(S) /\ Len(Front(s)) = Len(s) - 1
           /\ \A i \in 1..(Len(s) - 1) : Front(s)[i] = s[i]
<1> DEFINE f == SubSeq(s, 1, Len(s) - 1)
<1>1. f \in Seq(S) /\ DOMAIN f = 1..(Len(s) - 1) /\ Len(s) - 1 \in Nat
  OBVIOUS
<1>2. ASSUME NEW i \in 1..(Len(s) - 1) PROVE f[i] = s[i]
  OBVIOUS
<1> HIDE DEF f
<1>3. Len(f) = Len(s) - 1
  BY <1>1
<1>4. Front(s) = f
  BY DEF Front, f
<1> QED BY <1>1, <1>2, <1>3, <1>4

\* The constructor of a disabler saves the flag; its thread is the only one, or scopes overlap.
LEMMA BeginDisableKeepsInv ==
    ASSUME WarningInv, NEW t \in Threads, t \notin disabling, BeginDisable(t)
    PROVE  WarningInv'
<1> USE DEF WarningInv, WarningTypeOK
<1>1. saved' = [saved EXCEPT ![t] = Append(@, disabled)] /\ disabling' = disabling \cup {t}
      /\ overlapped' = (overlapped \/ \E other \in Threads \ {t} : HasDisabler(other))
      /\ disabled' = disabled
  BY DEF BeginDisable
<1>2. saved'[t] = Append(saved[t], disabled) /\ saved'[t] \in Seq(BOOLEAN) /\ saved'[t] # <<>>
      /\ Len(saved'[t]) = Len(saved[t]) + 1
      /\ \A u \in Threads \ {t} : saved'[u] = saved[u]
  BY <1>1
<1>3. WarningTypeOK'
  BY <1>1, <1>2
<1>4. ASSUME ~overlapped' PROVE SavedInOrder' /\ DisablerWorksAlone'
  <2>1. ~overlapped /\ SavedInOrder /\ DisablerWorksAlone
    BY <1>1, <1>4
  <2>2. \A u \in Threads \ {t} : saved[u] = <<>>
    BY <1>1, <1>4 DEF HasDisabler
  <2>3. \A u \in Threads : Complete(u) = saved[u]
    BY <2>2 DEF Complete
  <2>4. disabled <=> saved[t] # <<>>
    BY <2>1, <2>2, <2>3 DEF DisablerWorksAlone
  <2>5. \A i \in 1..Len(saved'[t]) : (saved'[t][i] <=> i > 1)
    <3> SUFFICES ASSUME NEW i \in 1..Len(saved'[t]) PROVE (saved'[t][i] <=> i > 1)
      OBVIOUS
    <3>1. CASE i <= Len(saved[t])
      BY <3>1, <1>2, <2>1 DEF SavedInOrder
    <3>2. CASE i = Len(saved[t]) + 1
      <4>1. saved'[t][i] = disabled
        BY <3>2, <1>2
      <4>2. (i > 1) <=> saved[t] # <<>>
        BY <3>2
      <4> QED BY <4>1, <4>2, <2>4
    <3> QED BY <3>1, <3>2, <1>2
  <2>6. SavedInOrder'
    BY <2>1, <2>2, <2>5, <1>2 DEF SavedInOrder
  <2>7. Front(saved'[t]) = saved[t]
    BY <1>2 DEF Front
  <2>8. \A u \in Threads : Complete(u)' = saved[u]
    BY <1>1, <1>2, <2>2, <2>7 DEF Complete
  <2> QED BY <2>4, <2>2, <2>6, <2>8, <1>1 DEF DisablerWorksAlone
<1> QED BY <1>3, <1>4

\* The constructor then sets the flag.
LEMMA EndDisableKeepsInv ==
    ASSUME WarningInv, NEW t \in Threads, EndDisable(t)
    PROVE  WarningInv'
<1> USE DEF WarningInv, WarningTypeOK
<1>1. t \in disabling /\ disabled' = TRUE /\ disabling' = disabling \ {t}
      /\ saved' = saved /\ overlapped' = overlapped
  BY DEF EndDisable
<1>2. Complete(t)' # <<>>
  BY <1>1 DEF Complete
<1> QED BY <1>1, <1>2 DEF SavedInOrder, DisablerWorksAlone

\* The destructor restores what the innermost disabler of its thread has saved.
LEMMA DestroyKeepsInv ==
    ASSUME WarningInv, NEW t \in Threads, Destroy(t)
    PROVE  WarningInv'
<1> USE DEF WarningInv, WarningTypeOK
<1> DEFINE n == Len(saved[t])
<1>1. saved[t] # <<>> /\ t \notin disabling /\ disabled' = (disabled /\ Last(saved[t]))
      /\ saved' = [saved EXCEPT ![t] = Front(@)] /\ disabling' = disabling /\ overlapped' = overlapped
  BY DEF Destroy, HasDisabler, Restore
<1>2. saved[t] \in Seq(BOOLEAN) /\ n \in Nat \ {0}
  BY <1>1
<1>3. Last(saved[t]) = saved[t][n] /\ saved[t][n] \in BOOLEAN
  BY <1>2 DEF Last
<1>4. saved'[t] = Front(saved[t]) /\ \A u \in Threads \ {t} : saved'[u] = saved[u]
  BY <1>1
<1>5. saved'[t] \in Seq(BOOLEAN) /\ Len(saved'[t]) = n - 1
      /\ \A i \in 1..(n - 1) : saved'[t][i] = saved[t][i]
  BY <1>1, <1>2, <1>4, FrontProperties
<1>6. WarningTypeOK'
  BY <1>1, <1>3, <1>4, <1>5
<1>7. ASSUME ~overlapped' PROVE SavedInOrder' /\ DisablerWorksAlone'
  <2>1. ~overlapped /\ SavedInOrder /\ DisablerWorksAlone
    BY <1>1, <1>7
  <2>2. \A u \in Threads \ {t} : saved[u] = <<>>
    BY <1>1, <2>1 DEF SavedInOrder
  <2>3. disabled
    BY <1>1, <2>1 DEF DisablerWorksAlone, Complete
  <2>4. disabled' <=> n > 1
    BY <1>1, <1>2, <1>3, <2>1, <2>3 DEF SavedInOrder
  <2>5. SavedInOrder'
    BY <1>4, <1>5, <1>2, <2>1, <2>2 DEF SavedInOrder
  <2>6. \A u \in Threads : Complete(u)' = saved'[u]
    BY <1>1, <1>4, <2>2 DEF Complete
  <2>7. (saved'[t] # <<>>) <=> n > 1
    BY <1>2, <1>5
  <2> QED BY <2>2, <2>4, <2>5, <2>6, <2>7, <1>4 DEF DisablerWorksAlone
<1> QED BY <1>6, <1>7

\* A warning changes no flag.
LEMMA WarnKeepsInv ==
    ASSUME WarningInv, Warn \/ UNCHANGED warningVars
    PROVE  WarningInv'
  BY DEF Warn, warningVars, WarningInv, WarningTypeOK, SavedInOrder, DisablerWorksAlone, Complete

-----------------------------------------------------------------------------
(* Plans and references *)

Stages == {"idle", "print", "read", "compress", "replace"}

PlanTypeOK ==
    /\ tables \in [Names -> Tables \cup {Absent}]
    /\ fetched \in [Threads -> Tables \cup {Absent}]
    /\ pc \in [Threads -> Stages]
    /\ chunk_id \in [Threads -> Nat \ {0}]
    /\ DOMAIN ref = Threads
    /\ rows \in [Tables -> Seq(Nat)]
    /\ DOMAIN version = Tables
    /\ \A table \in Tables : DOMAIN version[table] = DOMAIN rows[table]

Record(chunk) == [table |-> chunk.table, id |-> chunk.id, version |-> chunk.version]

\* A reference in use names a chunk of a table.
RefOK(t) ==
    pc[t] \in {"read", "compress", "replace"} =>
        /\ ref[t] = Record(ref[t])
        /\ ref[t].table \in Tables
        /\ ref[t].id \in DOMAIN version[ref[t].table]

\* Print reads the table it holds, and whoever reads a chunk that was not replaced since reads
\* the one in the table's list.
RefHeld(t) ==
    /\ pc[t] = "read" => ref[t].table = fetched[t]
    /\ pc[t] \in {"read", "compress"} =>
           t \in replaced \/ version[ref[t].table][ref[t].id] = ref[t].version

PlanInv ==
    /\ PlanTypeOK
    /\ \A t \in Threads : RefOK(t) /\ RefHeld(t)
    /\ \A t \in Threads : t \in returned => fetched[t] # Absent

\* A reader's table has an owner.
LEMMA ReadersOwn ==
    ASSUME PlanInv, NEW t \in Threads, pc[t] \in {"read", "compress"}
    PROVE  Owners(ref[t].table) # {}
  BY DEF Owners, PlanInv, RefHeld

\* The invariant of plans and references gives both properties about freed chunks and null inputs.
LEMMA PlanInvImplies ==
    PlanInv => OnlyCompressionFrees /\ NullOnlyBeforeInput
<1> SUFFICES ASSUME PlanInv PROVE OnlyCompressionFrees /\ NullOnlyBeforeInput
  OBVIOUS
<1>1. OnlyCompressionFrees
  BY ReadersOwn DEF OnlyCompressionFrees, Alive, PlanInv, RefHeld
<1>2. NullOnlyBeforeInput
  BY DEF NullOnlyBeforeInput, PlanInv
<1> QED BY <1>1, <1>2

\* What does not touch the references and their tables keeps the invariant.
LEMMA OthersKeepPlanInv ==
    ASSUME PlanInv, UNCHANGED <<rows, version, fetched, pc, chunk_id, ref, returned, replaced>>,
           tables' \in [Names -> Tables \cup {Absent}]
    PROVE  PlanInv'
  BY DEF PlanInv, PlanTypeOK, RefOK, RefHeld, Record

\* add_table of a table that nothing owns, and so nobody reads.
LEMMA RegisterKeepsPlanInv ==
    ASSUME PlanInv, NEW t \in Threads, Register(t)
    PROVE  PlanInv'
<1>1. PICK n \in Names, table \in Tables :
         /\ Owners(table) = {}
         /\ tables' = [tables EXCEPT ![n] = table]
         /\ version' = [version EXCEPT ![table] = [i \in DOMAIN rows[table] |-> 0]]
  BY DEF Register, add_table
<1>2. UNCHANGED <<rows, fetched, pc, chunk_id, ref, returned, replaced>>
  BY DEF Register, planVars
<1>3. \A u \in Threads : pc[u] \in {"read", "compress", "replace"} => ref[u].table # table
  BY <1>1 DEF Owners, PlanInv, RefHeld
<1>4. /\ DOMAIN version' = Tables
      /\ \A o \in Tables \ {table} : version'[o] = version[o]
      /\ version'[table] = [i \in DOMAIN rows[table] |-> 0]
  BY <1>1 DEF PlanInv, PlanTypeOK
<1>5. PlanTypeOK'
  BY <1>1, <1>2, <1>4 DEF PlanInv, PlanTypeOK
<1>6. ASSUME NEW u \in Threads PROVE RefOK(u)' /\ RefHeld(u)'
  BY <1>2, <1>3, <1>4 DEF PlanInv, RefOK, RefHeld, Record
<1> QED BY <1>2, <1>5, <1>6 DEF PlanInv

\* GetTable replaces what it holds only while the Print of its thread is idle.
LEMMA GetTableKeepsPlanInv ==
    ASSUME PlanInv, NEW t \in Threads, ExecuteGetTable(t)
    PROVE  PlanInv'
<1>1. /\ pc[t] = "idle"
      /\ fetched' = IF tables[table_name[t]] # Absent
                    THEN [fetched EXCEPT ![t] = tables[table_name[t]]] ELSE fetched
      /\ returned' = IF tables[table_name[t]] # Absent THEN returned \cup {t} ELSE returned
      /\ UNCHANGED <<tables, rows, version, pc, chunk_id, ref, replaced>>
  BY DEF ExecuteGetTable, Fetched, has_table, Idle
<1>2. tables[table_name[t]] \in Tables \cup {Absent}
  BY PlanAssumption DEF PlanInv, PlanTypeOK
<1>3. PlanTypeOK'
  BY <1>1, <1>2 DEF PlanInv, PlanTypeOK
<1>4. \A u \in Threads \ {t} : fetched'[u] = fetched[u]
  BY <1>1 DEF PlanInv, PlanTypeOK
<1>5. ASSUME NEW u \in Threads PROVE RefOK(u)' /\ RefHeld(u)'
  BY <1>1, <1>4 DEF PlanInv, RefOK, RefHeld, Record
<1>6. ASSUME NEW u \in Threads, u \in returned' PROVE fetched'[u] # Absent
  BY <1>1, <1>4, <1>6 DEF PlanInv, PlanTypeOK
<1> QED BY <1>3, <1>5, <1>6 DEF PlanInv

\* Steps that only move one thread to a stage in which it holds no reference, or goes on with
\* the one it has.
LEMMA MoveKeepsPlanInv ==
    ASSUME PlanInv, NEW t \in Threads, NEW s \in Stages,
           pc' = [pc EXCEPT ![t] = s],
           UNCHANGED <<tables, rows, version, fetched, returned>>,
           chunk_id' \in [Threads -> Nat \ {0}],
           DOMAIN ref' = Threads,
           \A u \in Threads \ {t} : ref'[u] = ref[u],
           replaced' \in {replaced, replaced \ {t}},
           s \in {"idle", "print"} \/ (s = "replace" /\ pc[t] = "compress" /\ ref' = ref)
    PROVE  PlanInv'
<1>1. pc'[t] = s /\ \A u \in Threads \ {t} : pc'[u] = pc[u]
  BY DEF PlanInv, PlanTypeOK
<1>2. PlanTypeOK'
  BY DEF PlanInv, PlanTypeOK
<1>3. ASSUME NEW u \in Threads PROVE RefOK(u)' /\ RefHeld(u)'
  <2>1. CASE u # t
    BY <2>1, <1>1 DEF PlanInv, RefOK, RefHeld, Record
  <2>2. CASE u = t
    BY <2>2, <1>1 DEF PlanInv, RefOK, RefHeld, Record
  <2> QED BY <2>1, <2>2
<1> QED BY <1>2, <1>3 DEF PlanInv

\* Steps in which one thread gets a reference.
LEMMA TakeKeepsPlanInv ==
    ASSUME PlanInv, NEW t \in Threads, NEW s \in {"read", "compress"},
           NEW table \in Tables, NEW id \in DOMAIN rows[table],
           pc' = [pc EXCEPT ![t] = s],
           ref' = [ref EXCEPT ![t] = get_chunk(table, id)],
           s = "read" => table = fetched[t],
           UNCHANGED <<tables, rows, version, fetched, chunk_id, returned, replaced>>
    PROVE  PlanInv'
<1>1. pc'[t] = s /\ \A u \in Threads \ {t} : pc'[u] = pc[u] /\ ref'[u] = ref[u]
  BY DEF PlanInv, PlanTypeOK
<1>2. ref'[t] = [table |-> table, id |-> id, version |-> version[table][id]]
  BY DEF PlanInv, PlanTypeOK, get_chunk
<1>3. PlanTypeOK'
  BY DEF PlanInv, PlanTypeOK, Stages
<1>4. id \in DOMAIN version[table]
  BY DEF PlanInv, PlanTypeOK
<1>5. ASSUME NEW u \in Threads PROVE RefOK(u)' /\ RefHeld(u)'
  <2>1. CASE u # t
    BY <2>1, <1>1 DEF PlanInv, RefOK, RefHeld, Record
  <2>2. CASE u = t
    BY <2>2, <1>1, <1>2, <1>4 DEF PlanInv, RefOK, RefHeld, Record
  <2> QED BY <2>1, <2>2
<1> QED BY <1>3, <1>5 DEF PlanInv

\* compress_chunk replaces a version and records every reader of the old one.
LEMMA ReplaceKeepsPlanInv ==
    ASSUME PlanInv, NEW t \in Threads, ReplaceChunk(t)
    PROVE  PlanInv'
<1> DEFINE table == ref[t].table
           id == ref[t].id
<1>1. pc[t] = "replace" /\ table \in Tables /\ id \in DOMAIN version[table]
  BY DEF ReplaceChunk, PlanInv, RefOK
<1>2. /\ version' = [version EXCEPT ![table][id] = @ + 1]
      /\ replaced' = (replaced \ {t}) \cup
             {o \in Threads \ {t} : pc[o] \in {"read", "compress"} /\ ref[o] = get_chunk(table, id)}
      /\ ref' = [ref EXCEPT ![t] = Absent] /\ pc' = [pc EXCEPT ![t] = "idle"]
      /\ UNCHANGED <<tables, rows, fetched, chunk_id, returned>>
  BY DEF ReplaceChunk, Go
<1> HIDE DEF table, id
<1>3. /\ DOMAIN version' = Tables
      /\ \A o \in Tables : DOMAIN version'[o] = DOMAIN version[o]
      /\ \A o \in Tables : \A i \in DOMAIN version[o] :
            o # table \/ i # id => version'[o][i] = version[o][i]
  BY <1>1, <1>2 DEF PlanInv, PlanTypeOK
<1>4. pc'[t] = "idle" /\ \A u \in Threads \ {t} : pc'[u] = pc[u] /\ ref'[u] = ref[u]
  BY <1>2 DEF PlanInv, PlanTypeOK
<1>5. PlanTypeOK'
  BY <1>2, <1>3 DEF PlanInv, PlanTypeOK, Stages
<1>6. ASSUME NEW u \in Threads PROVE RefOK(u)' /\ RefHeld(u)'
  <2>1. CASE u = t
    BY <2>1, <1>4 DEF RefOK, RefHeld
  <2>2. CASE u # t
    <3>1. RefOK(u)'
      BY <2>2, <1>3, <1>4 DEF PlanInv, RefOK, Record
    <3>2. pc[u] = "read" => ref'[u].table = fetched'[u]
      BY <2>2, <1>2, <1>4 DEF PlanInv, RefHeld
    <3>3. ASSUME pc[u] \in {"read", "compress"}
          PROVE  u \in replaced' \/ version'[ref[u].table][ref[u].id] = ref[u].version
      <4>1. CASE u \in replaced
        BY <4>1, <2>2, <1>2
      <4>2. CASE u \notin replaced /\ ref[u].table = table /\ ref[u].id = id
        <5>1. version[table][id] = ref[u].version
          BY <3>3, <4>2 DEF PlanInv, RefHeld
        <5>2. ref[u] = get_chunk(table, id)
          BY <3>3, <4>2, <5>1 DEF PlanInv, RefOK, Record, get_chunk
        <5> QED BY <5>2, <3>3, <2>2, <1>2
      <4>3. CASE u \notin replaced /\ (ref[u].table # table \/ ref[u].id # id)
        BY <4>3, <3>3, <1>3 DEF PlanInv, RefOK, RefHeld
      <4> QED BY <4>1, <4>2, <4>3
    <3> QED BY <3>1, <3>2, <3>3, <2>2, <1>4 DEF RefHeld
  <2> QED BY <2>1, <2>2
<1> QED BY <1>2, <1>5, <1>6 DEF PlanInv

-----------------------------------------------------------------------------
(* The whole system *)

\* Initially there are no disablers and no references.
LEMMA InitInv == Init => WarningInv /\ PlanInv
<1> SUFFICES ASSUME Init PROVE WarningInv /\ PlanInv
  OBVIOUS
<1>1. WarningTypeOK /\ SavedInOrder
  <2>1. \A t \in Threads : saved[t] = <<>> /\ Len(saved[t]) = 0
    BY DEF Init, InitWarning
  <2>2. <<>> \in Seq(BOOLEAN)
    OBVIOUS
  <2>3. WarningTypeOK
    BY <2>2 DEF Init, InitWarning, WarningTypeOK
  <2>4. SavedInOrder
    BY <2>1 DEF SavedInOrder
  <2> QED BY <2>3, <2>4
<1>2. DisablerWorksAlone
  BY DEF Init, InitWarning, DisablerWorksAlone, Complete
<1>3. rows \in [Tables -> Seq(Nat)]
  BY PlanAssumption DEF Init
<1>4. PlanTypeOK
  BY <1>3 DEF Init, InitStorage, PlanTypeOK, Stages
<1>5. \A t \in Threads : pc[t] = "idle" /\ t \notin returned
  BY DEF Init
<1>6. PlanInv
  BY <1>4, <1>5 DEF PlanInv, RefOK, RefHeld
<1> QED BY <1>1, <1>2, <1>6 DEF WarningInv

\* Every step of a thread keeps the invariant of the disablers.
LEMMA StepKeepsWarningInv ==
    ASSUME WarningInv, NEW t \in Threads, PrintStep(t) \/ Step(t)
    PROVE  WarningInv'
<1>1. CASE OpenScope(t) \/ ExecutePrint(t)
  BY <1>1, BeginDisableKeepsInv DEF OpenScope, ExecutePrint, Idle
<1>2. CASE FinishDisable(t)
  BY <1>2, EndDisableKeepsInv DEF FinishDisable
<1>3. CASE CloseScope(t) \/ ReadThrows(t) \/ EndPrint(t)
  BY <1>3, DestroyKeepsInv DEF CloseScope, ReadThrows, EndPrint
<1>4. CASE ReadEntry(t) \/ ReadChunk(t)
  BY <1>4, WarnKeepsInv DEF ReadEntry, ReadChunk
<1>5. CASE \/ Register(t) \/ Drop(t) \/ ExecuteGetTable(t) \/ StartCompress(t)
           \/ BuildCompressed(t) \/ CompressFreedChunk(t) \/ ReplaceChunk(t)
           \/ DereferenceNull(t) \/ GetChunk(t) \/ ReadFreedChunk(t) \/ StartRows(t)
  BY <1>5, WarnKeepsInv DEF Register, Drop, ExecuteGetTable, StartCompress, BuildCompressed,
     CompressFreedChunk, ReplaceChunk, DereferenceNull, GetChunk, ReadFreedChunk, StartRows
<1> QED BY <1>1, <1>2, <1>3, <1>4, <1>5 DEF PrintStep, Step

\* Every step of a thread keeps the invariant of plans and references.
LEMMA StepKeepsPlanInv ==
    ASSUME PlanInv, NEW t \in Threads, PrintStep(t) \/ Step(t)
    PROVE  PlanInv'
<1>1. CASE Register(t)
  BY <1>1, RegisterKeepsPlanInv
<1>2. CASE Drop(t)
  <2>1. tables' \in [Names -> Tables \cup {Absent}]
    BY <1>2 DEF Drop, drop_table, reset, PlanInv, PlanTypeOK
  <2> QED BY <1>2, <2>1, OthersKeepPlanInv DEF Drop, planVars
<1>3. CASE \/ OpenScope(t) \/ FinishDisable(t) \/ CloseScope(t) \/ ReadEntry(t)
           \/ DereferenceNull(t) \/ ReadFreedChunk(t) \/ CompressFreedChunk(t)
  <2>1. UNCHANGED <<tables, rows, version, planVars>>
    BY <1>3 DEF OpenScope, FinishDisable, CloseScope, ReadEntry, DereferenceNull,
       ReadFreedChunk, CompressFreedChunk
  <2>2. tables' \in [Names -> Tables \cup {Absent}]
    BY <2>1 DEF PlanInv, PlanTypeOK
  <2> QED BY <2>1, <2>2, OthersKeepPlanInv DEF planVars
<1>4. CASE ExecuteGetTable(t)
  BY <1>4, GetTableKeepsPlanInv
<1>5. CASE ExecutePrint(t)
  <2>1. /\ pc' = [pc EXCEPT ![t] = "print"]
        /\ UNCHANGED <<tables, rows, version, fetched, returned, chunk_id, ref, replaced>>
    BY <1>5 DEF ExecutePrint, Go
  <2>2. chunk_id' \in [Threads -> Nat \ {0}] /\ DOMAIN ref' = Threads
    BY <2>1 DEF PlanInv, PlanTypeOK
  <2>3. "print" \in Stages
    BY DEF Stages
  <2> QED BY <2>1, <2>2, <2>3, MoveKeepsPlanInv
<1>6. CASE GetChunk(t)
  <2>1. /\ fetched[t] \in Tables
        /\ chunk_id[t] \in DOMAIN rows[fetched[t]]
    BY <1>6 DEF GetChunk, Input, PlanInv, PlanTypeOK
  <2>2. /\ pc' = [pc EXCEPT ![t] = "read"]
        /\ ref' = [ref EXCEPT ![t] = get_chunk(fetched[t], chunk_id[t])]
        /\ UNCHANGED <<tables, rows, version, fetched, chunk_id, returned, replaced>>
    BY <1>6 DEF GetChunk, Go, Input
  <2> QED BY <2>1, <2>2, TakeKeepsPlanInv
<1>7. CASE ReadChunk(t)
  <2>1. /\ pc' = [pc EXCEPT ![t] = "print"]
        /\ chunk_id' = [chunk_id EXCEPT ![t] = @ + 1]
        /\ ref' = [ref EXCEPT ![t] = Absent]
        /\ replaced' = replaced \ {t}
        /\ UNCHANGED <<tables, rows, version, fetched, returned>>
    BY <1>7 DEF ReadChunk, Go, NextChunk
  <2>2. chunk_id' \in [Threads -> Nat \ {0}] /\ DOMAIN ref' = Threads
        /\ \A u \in Threads \ {t} : ref'[u] = ref[u]
    BY <2>1 DEF PlanInv, PlanTypeOK
  <2>3. "print" \in Stages
    BY DEF Stages
  <2> QED BY <2>1, <2>2, <2>3, MoveKeepsPlanInv
<1>8. CASE ReadThrows(t) \/ EndPrint(t)
  <2>1. /\ pc' = [pc EXCEPT ![t] = "idle"]
        /\ chunk_id' = [chunk_id EXCEPT ![t] = 1]
        /\ ref' = [ref EXCEPT ![t] = Absent]
        /\ replaced' = replaced \ {t}
        /\ UNCHANGED <<tables, rows, version, fetched, returned>>
    BY <1>8 DEF ReadThrows, EndPrint, Return, Go
  <2>2. chunk_id' \in [Threads -> Nat \ {0}] /\ DOMAIN ref' = Threads
        /\ \A u \in Threads \ {t} : ref'[u] = ref[u]
    BY <2>1 DEF PlanInv, PlanTypeOK
  <2>3. "idle" \in Stages
    BY DEF Stages
  <2> QED BY <2>1, <2>2, <2>3, MoveKeepsPlanInv
<1>9. CASE StartRows(t)
  <2>1. /\ pc[t] = "print"
        /\ chunk_id' = [chunk_id EXCEPT ![t] = 1]
        /\ UNCHANGED <<tables, rows, version, fetched, pc, ref, returned, replaced>>
    BY <1>9 DEF StartRows, Exhausted
  <2>2. pc' = [pc EXCEPT ![t] = "print"] /\ "print" \in Stages
    BY <2>1 DEF PlanInv, PlanTypeOK, Stages
  <2>3. chunk_id' \in [Threads -> Nat \ {0}] /\ DOMAIN ref' = Threads
    BY <2>1 DEF PlanInv, PlanTypeOK
  <2> QED BY <2>1, <2>2, <2>3, MoveKeepsPlanInv
<1>10. CASE StartCompress(t)
  <2>1. PICK n \in Names : /\ has_table(n)
                           /\ \E id \in DOMAIN rows[tables[n]] :
                                 ref' = [ref EXCEPT ![t] = get_chunk(tables[n], id)]
    BY <1>10 DEF StartCompress
  <2>2. tables[n] \in Tables
    BY <2>1 DEF has_table, PlanInv, PlanTypeOK
  <2>3. PICK id \in DOMAIN rows[tables[n]] :
           ref' = [ref EXCEPT ![t] = get_chunk(tables[n], id)]
    BY <2>1
  <2>4. /\ pc' = [pc EXCEPT ![t] = "compress"]
        /\ UNCHANGED <<tables, rows, version, fetched, chunk_id, returned, replaced>>
    BY <1>10 DEF StartCompress, Go
  <2> QED BY <2>2, <2>3, <2>4, TakeKeepsPlanInv
<1>11. CASE BuildCompressed(t)
  <2>1. /\ pc[t] = "compress" /\ pc' = [pc EXCEPT ![t] = "replace"]
        /\ UNCHANGED <<tables, rows, version, fetched, returned, chunk_id, ref, replaced>>
    BY <1>11 DEF BuildCompressed, Go
  <2>2. chunk_id' \in [Threads -> Nat \ {0}] /\ DOMAIN ref' = Threads
    BY <2>1 DEF PlanInv, PlanTypeOK
  <2>3. "replace" \in Stages
    BY DEF Stages
  <2> QED BY <2>1, <2>2, <2>3, MoveKeepsPlanInv
<1>12. CASE ReplaceChunk(t)
  BY <1>12, ReplaceKeepsPlanInv
<1> QED BY <1>1, <1>2, <1>3, <1>4, <1>5, <1>6, <1>7, <1>8, <1>9, <1>10, <1>11, <1>12
        DEF PrintStep, Step

\* Both invariants are inductive.
LEMMA NextKeepsInv ==
    ASSUME WarningInv, PlanInv, [Next]_vars
    PROVE  WarningInv' /\ PlanInv'
<1>1. CASE Next
  BY <1>1, StepKeepsWarningInv, StepKeepsPlanInv DEF Next
<1>2. CASE UNCHANGED vars
  <2>1. UNCHANGED <<warningVars, tables, rows, version, planVars>>
    BY <1>2 DEF vars
  <2>2. WarningInv'
    BY <2>1, WarnKeepsInv
  <2>3. tables' \in [Names -> Tables \cup {Absent}]
    BY <2>1 DEF PlanInv, PlanTypeOK
  <2> QED BY <2>1, <2>2, <2>3, OthersKeepPlanInv DEF planVars
<1> QED BY <1>1, <1>2

\* Both invariants hold in every state.
LEMMA SpecInv == Spec => [](WarningInv /\ PlanInv)
  BY InitInv, NextKeepsInv, PTL DEF Spec, Safety

\* However threads print, compress, register and drop: a chunk that get_chunk has returned
\* is freed only by a compress_chunk that replaced it since, never while _current_chunk holds it.
THEOREM DatabaseOnlyCompressionFrees == Spec => []OnlyCompressionFrees
  BY SpecInv, PlanInvImplies, PTL

\* Print meets a null input only when its GetTable has never returned.
THEOREM DatabaseNullOnlyBeforeInput == Spec => []NullOnlyBeforeInput
  BY SpecInv, PlanInvImplies, PTL

\* While disablers of two threads have not overlapped, the flag is set exactly while some
\* thread has a disabler, at any depth of nesting.
THEOREM DatabaseDisablerWorksAlone == Spec => []DisablerWorksAlone
<1>1. WarningInv => DisablerWorksAlone
  BY DEF WarningInv, DisablerWorksAlone
<1> QED BY <1>1, SpecInv, PTL

\* While disablers of two threads have not overlapped, a warning appears only when no thread
\* has one.
THEOREM DatabaseSilentInScope == Spec => SilentInScope
<1> DEFINE Shows == warning # "shown" /\ warning' = "shown"
<1>1. ASSUME WarningInv, [Next]_vars, Shows, ~overlapped
      PROVE  \A t \in Threads : Complete(t) = <<>>
  <2>1. PICK t \in Threads : PrintStep(t) \/ Step(t)
    BY <1>1 DEF Next, vars, warningVars
  <2>2. Warn
    BY <2>1, <1>1 DEF PrintStep, Step, Register, Drop, OpenScope, FinishDisable, CloseScope,
       ExecuteGetTable, ReadEntry, ExecutePrint, DereferenceNull, GetChunk, ReadChunk, ReadThrows,
       ReadFreedChunk, StartRows, EndPrint, StartCompress, BuildCompressed, CompressFreedChunk,
       ReplaceChunk, BeginDisable, EndDisable, Destroy, warningVars
  <2>3. ~disabled
    BY <2>2, <1>1 DEF Warn, WarningInv, WarningTypeOK
  <2> QED BY <2>3, <1>1 DEF WarningInv, DisablerWorksAlone
<1>2. WarningInv /\ [Next]_vars =>
         [Shows /\ ~overlapped => \A t \in Threads : Complete(t) = <<>>]_vars
  BY <1>1
<1> QED BY <1>2, SpecInv, PTL DEF Spec, Safety, SilentInScope
-----------------------------------------------------------------------------
(* Types.  That Print stays within its table needs to know where each call *)
(* leaves the chunk id: a thread that is not printing has reset it, and a  *)
(* thread that reads has one of a chunk of its table.                      *)

PlaceOK(t) ==
    /\ ref[t] \in ChunkRef \cup {Absent}
    /\ (ref[t] = Absent) <=> (pc[t] \in {"idle", "print"})
    /\ pc[t] \in {"idle", "compress", "replace"} => chunk_id[t] = 1
    /\ pc[t] = "print" /\ fetched[t] # Absent => chunk_id[t] <= Len(rows[fetched[t]]) + 1
    /\ pc[t] = "read" => fetched[t] \in Tables /\ chunk_id[t] <= Len(rows[fetched[t]])

TypeInv ==
    /\ version \in [Tables -> Seq(Nat)]
    /\ ref \in [Threads -> ChunkRef \cup {Absent}]
    /\ pass \in [Threads -> {"widths", "rows"}]
    /\ undefined \in {"no", "null", "freed"}
    /\ returned \subseteq Threads /\ replaced \subseteq Threads
    /\ \A t \in Threads : PlaceOK(t)

\* The type invariant follows from the two parts that are proved inductive.
LEMMA TypeInvImplies == PlanInv /\ TypeInv => TypeOK
<1> SUFFICES ASSUME PlanInv, TypeInv PROVE TypeOK
  OBVIOUS
<1>1. \A t \in Tables : Len(version[t]) = Len(rows[t])
  <2> TAKE t \in Tables
  <2>1. version[t] \in Seq(Nat) /\ rows[t] \in Seq(Nat) /\ DOMAIN version[t] = DOMAIN rows[t]
    BY DEF PlanInv, PlanTypeOK, TypeInv
  <2>2. /\ Len(version[t]) \in Nat /\ DOMAIN version[t] = 1..Len(version[t])
        /\ Len(rows[t]) \in Nat /\ DOMAIN rows[t] = 1..Len(rows[t])
    BY <2>1
  <2>3. \A m, n \in Nat : 1..m = 1..n => m = n
    <3>1. \A m, n \in Nat : m < n => n \in 1..n /\ n \notin 1..m
      OBVIOUS
    <3>2. \A m, n \in Nat : m = n \/ m < n \/ n < m
      OBVIOUS
    <3> QED BY <3>1, <3>2
  <2> QED BY <2>1, <2>2, <2>3
<1>2. ASSUME NEW t \in Threads, pc[t] = "print", fetched[t] # Absent
      PROVE  chunk_id[t] \in 1..(Len(rows[fetched[t]]) + 1)
  <2>1. chunk_id[t] \in Nat \ {0} /\ fetched[t] \in Tables
    BY <1>2 DEF PlanInv, PlanTypeOK
  <2>2. Len(rows[fetched[t]]) \in Nat
    BY <2>1 DEF PlanInv, PlanTypeOK
  <2>3. chunk_id[t] <= Len(rows[fetched[t]]) + 1
    BY <1>2 DEF TypeInv, PlaceOK
  <2> QED BY <2>1, <2>2, <2>3
<1> QED BY <1>1, <1>2 DEF TypeOK, TypeInv, PlanInv, PlanTypeOK, PlaceOK, Stages

\* Steps that move no thread.
LEMMA NoMoveKeepsPlaces ==
    ASSUME TypeInv, UNCHANGED <<rows, fetched, pc, chunk_id, ref>>
    PROVE  (\A t \in Threads : PlaceOK(t)') /\ ref' \in [Threads -> ChunkRef \cup {Absent}]
  BY DEF TypeInv, PlaceOK

\* Steps that move one thread.
LEMMA MoveKeepsPlaces ==
    ASSUME PlanInv, TypeInv, NEW t \in Threads, UNCHANGED <<rows, fetched>>,
           NEW s \in Stages, NEW r \in ChunkRef \cup {Absent}, NEW id,
           pc' = [pc EXCEPT ![t] = s], ref' = [ref EXCEPT ![t] = r],
           chunk_id' = [chunk_id EXCEPT ![t] = id],
           r = Absent <=> s \in {"idle", "print"},
           s \in {"idle", "compress", "replace"} => id = 1,
           s = "print" /\ fetched[t] # Absent => id <= Len(rows[fetched[t]]) + 1,
           s = "read" => fetched[t] \in Tables /\ id <= Len(rows[fetched[t]])
    PROVE  (\A u \in Threads : PlaceOK(u)') /\ ref' \in [Threads -> ChunkRef \cup {Absent}]
<1>1. pc'[t] = s /\ ref'[t] = r /\ chunk_id'[t] = id
  BY DEF PlanInv, PlanTypeOK
<1>2. \A u \in Threads \ {t} : pc'[u] = pc[u] /\ ref'[u] = ref[u] /\ chunk_id'[u] = chunk_id[u]
  BY DEF PlanInv, PlanTypeOK
<1>3. PlaceOK(t)'
  BY <1>1 DEF PlaceOK
<1>4. \A u \in Threads \ {t} : PlaceOK(u)'
  BY <1>2 DEF PlaceOK, TypeInv
<1>5. ref' \in [Threads -> ChunkRef \cup {Absent}]
  BY DEF TypeInv
<1> QED BY <1>3, <1>4, <1>5

\* A reference that get_chunk returns.
LEMMA GetChunkType ==
    ASSUME PlanInv, TypeInv, NEW table \in Tables, NEW id \in DOMAIN rows[table]
    PROVE  get_chunk(table, id) \in ChunkRef /\ get_chunk(table, id) # Absent
<1>1. /\ version[table] \in Seq(Nat) /\ DOMAIN version[table] = DOMAIN rows[table]
      /\ rows[table] \in Seq(Nat)
  BY DEF PlanInv, PlanTypeOK, TypeInv
<1>2. id \in Nat \ {0} /\ version[table][id] \in Nat
  BY <1>1
<1> QED BY <1>2, AbsentChunkAssumption DEF get_chunk, ChunkRef

\* Every step of a thread keeps the types.
LEMMA StepKeepsTypeInv ==
    ASSUME PlanInv, TypeInv, NEW t \in Threads, PrintStep(t) \/ Step(t)
    PROVE  TypeInv'
<1> USE DEF Stages
<1>0. /\ version \in [Tables -> Seq(Nat)] /\ pass \in [Threads -> {"widths", "rows"}]
      /\ undefined \in {"no", "null", "freed"} /\ returned \subseteq Threads
      /\ replaced \subseteq Threads /\ chunk_id \in [Threads -> Nat \ {0}]
      /\ pc \in [Threads -> Stages] /\ ref \in [Threads -> ChunkRef \cup {Absent}]
  BY DEF TypeInv, PlanInv, PlanTypeOK
<1>s. ref = [ref EXCEPT ![t] = ref[t]] /\ chunk_id = [chunk_id EXCEPT ![t] = chunk_id[t]]
      /\ pc = [pc EXCEPT ![t] = pc[t]]
  BY <1>0
<1>p. PlaceOK(t) /\ chunk_id[t] \in Nat
  BY <1>0 DEF TypeInv
<1>1. CASE Register(t)
  <2>1. PICK table \in Tables : version' = [version EXCEPT ![table] = [i \in DOMAIN rows[table] |-> 0]]
    BY <1>1 DEF Register
  <2>2. UNCHANGED <<rows, planVars, undefined>>
    BY <1>1 DEF Register
  <2>3. [i \in DOMAIN rows[table] |-> 0] \in Seq(Nat)
    <3>1. rows[table] \in Seq(Nat)
      BY DEF PlanInv, PlanTypeOK
    <3>2. DOMAIN rows[table] = 1..Len(rows[table]) /\ Len(rows[table]) \in Nat
      BY <3>1
    <3> QED BY <3>2
  <2>4. version' \in [Tables -> Seq(Nat)]
    BY <1>0, <2>1, <2>3
  <2> QED BY <1>0, <2>2, <2>4, NoMoveKeepsPlaces DEF TypeInv, planVars
<1>2. CASE \/ Drop(t) \/ OpenScope(t) \/ FinishDisable(t) \/ CloseScope(t) \/ ReadEntry(t)
           \/ DereferenceNull(t) \/ ReadFreedChunk(t) \/ CompressFreedChunk(t)
  <2>1. UNCHANGED <<rows, version, planVars>> /\ undefined' \in {"no", "null", "freed"}
    BY <1>0, <1>2 DEF Drop, OpenScope, FinishDisable, CloseScope, ReadEntry, DereferenceNull,
       ReadFreedChunk, CompressFreedChunk
  <2> QED BY <1>0, <2>1, NoMoveKeepsPlaces DEF TypeInv, planVars
<1>3. CASE ExecuteGetTable(t)
  <2>1. /\ pc[t] = "idle" /\ returned' \subseteq Threads
        /\ fetched' = [fetched EXCEPT ![t] = fetched'[t]]
        /\ UNCHANGED <<rows, version, pc, pass, chunk_id, ref, replaced, undefined>>
    BY <1>0, <1>3 DEF ExecuteGetTable, Idle, Fetched, PlanInv, PlanTypeOK
  <2>2. \A u \in Threads \ {t} : fetched'[u] = fetched[u]
    BY <2>1 DEF PlanInv, PlanTypeOK
  <2>3. (\A u \in Threads : PlaceOK(u)') /\ ref' \in [Threads -> ChunkRef \cup {Absent}]
    BY <2>1, <2>2, <1>0 DEF PlaceOK, TypeInv
  <2> QED BY <1>0, <2>1, <2>3 DEF TypeInv
<1>4. CASE ExecutePrint(t)
  <2>1. /\ pc[t] = "idle" /\ pc' = [pc EXCEPT ![t] = "print"]
        /\ UNCHANGED <<rows, version, fetched, pass, chunk_id, ref, returned, replaced, undefined>>
    BY <1>4 DEF ExecutePrint, Go, Idle
  <2>2. fetched[t] # Absent => Len(rows[fetched[t]]) \in Nat
    BY DEF PlanInv, PlanTypeOK
  <2>3. ref[t] = Absent /\ chunk_id[t] = 1
    BY <2>1, <1>p DEF PlaceOK
  <2>4. (\A u \in Threads : PlaceOK(u)') /\ ref' \in [Threads -> ChunkRef \cup {Absent}]
    <3>1. fetched[t] # Absent => 1 <= Len(rows[fetched[t]]) + 1
      BY <2>2
    <3> QED BY <2>1, <2>3, <3>1, <1>s, MoveKeepsPlaces
  <2> QED BY <1>0, <2>1, <2>4 DEF TypeInv
<1>5. CASE GetChunk(t)
  <2>1. /\ fetched[t] \in Tables /\ chunk_id[t] <= Len(rows[fetched[t]])
        /\ chunk_id[t] \in DOMAIN rows[fetched[t]]
    BY <1>5 DEF GetChunk, Input, PlanInv, PlanTypeOK
  <2>2. /\ pc' = [pc EXCEPT ![t] = "read"]
        /\ ref' = [ref EXCEPT ![t] = get_chunk(fetched[t], chunk_id[t])]
        /\ UNCHANGED <<rows, version, fetched, pass, chunk_id, returned, replaced, undefined>>
    BY <1>5 DEF GetChunk, Go, Input
  <2>3. (\A u \in Threads : PlaceOK(u)') /\ ref' \in [Threads -> ChunkRef \cup {Absent}]
    BY <2>1, <2>2, <1>s, GetChunkType, MoveKeepsPlaces
  <2> QED BY <1>0, <2>2, <2>3 DEF TypeInv
<1>6. CASE ReadChunk(t)
  <2>1. /\ pc[t] = "read" /\ pc' = [pc EXCEPT ![t] = "print"]
        /\ chunk_id' = [chunk_id EXCEPT ![t] = chunk_id[t] + 1]
        /\ ref' = [ref EXCEPT ![t] = Absent]
        /\ replaced' = replaced \ {t}
        /\ UNCHANGED <<rows, version, fetched, pass, returned, undefined>>
    BY <1>6, <1>0 DEF ReadChunk, Go, NextChunk
  <2>2. fetched[t] \in Tables /\ chunk_id[t] <= Len(rows[fetched[t]])
    BY <2>1, <1>p DEF PlaceOK
  <2>3. Len(rows[fetched[t]]) \in Nat
    BY <2>2 DEF PlanInv, PlanTypeOK
  <2>4. chunk_id[t] + 1 <= Len(rows[fetched[t]]) + 1
    BY <2>2, <2>3, <1>p
  <2>5. (\A u \in Threads : PlaceOK(u)') /\ ref' \in [Threads -> ChunkRef \cup {Absent}]
    BY <2>1, <2>4, MoveKeepsPlaces
  <2> QED BY <1>0, <2>1, <2>5 DEF TypeInv
<1>7. CASE ReadThrows(t) \/ EndPrint(t)
  <2>1. /\ pc' = [pc EXCEPT ![t] = "idle"]
        /\ pass' = [pass EXCEPT ![t] = "widths"]
        /\ chunk_id' = [chunk_id EXCEPT ![t] = 1]
        /\ ref' = [ref EXCEPT ![t] = Absent]
        /\ replaced' = replaced \ {t}
        /\ UNCHANGED <<rows, version, fetched, returned, undefined>>
    BY <1>7 DEF ReadThrows, EndPrint, Return, Go
  <2>2. (\A u \in Threads : PlaceOK(u)') /\ ref' \in [Threads -> ChunkRef \cup {Absent}]
    BY <2>1, MoveKeepsPlaces
  <2> QED BY <1>0, <2>1, <2>2 DEF TypeInv
<1>8. CASE StartRows(t)
  <2>1. /\ pc[t] = "print"
        /\ chunk_id' = [chunk_id EXCEPT ![t] = 1]
        /\ pass' = [pass EXCEPT ![t] = "rows"]
        /\ UNCHANGED <<rows, version, fetched, pc, ref, returned, replaced, undefined>>
    BY <1>8 DEF StartRows, Exhausted
  <2>2. fetched[t] # Absent => 1 <= Len(rows[fetched[t]]) + 1
    <3>1. fetched[t] # Absent => Len(rows[fetched[t]]) \in Nat
      BY DEF PlanInv, PlanTypeOK
    <3> QED BY <3>1
  <2>3. ref[t] = Absent /\ pc' = [pc EXCEPT ![t] = "print"]
        /\ ref' = [ref EXCEPT ![t] = Absent]
    BY <2>1, <1>p, <1>s DEF PlaceOK
  <2>4. (\A u \in Threads : PlaceOK(u)') /\ ref' \in [Threads -> ChunkRef \cup {Absent}]
    BY <2>1, <2>2, <2>3, MoveKeepsPlaces
  <2> QED BY <1>0, <2>1, <2>4 DEF TypeInv
<1>9. CASE StartCompress(t)
  <2>1. PICK n \in Names : /\ has_table(n)
                           /\ \E id \in DOMAIN rows[tables[n]] :
                                 ref' = [ref EXCEPT ![t] = get_chunk(tables[n], id)]
    BY <1>9 DEF StartCompress
  <2>2. tables[n] \in Tables
    BY <2>1 DEF has_table, PlanInv, PlanTypeOK
  <2>3. PICK id \in DOMAIN rows[tables[n]] :
           ref' = [ref EXCEPT ![t] = get_chunk(tables[n], id)]
    BY <2>1
  <2>4. /\ pc[t] = "idle" /\ pc' = [pc EXCEPT ![t] = "compress"]
        /\ UNCHANGED <<rows, version, fetched, pass, chunk_id, returned, replaced, undefined>>
    BY <1>9 DEF StartCompress, Go, Idle
  <2>5. chunk_id[t] = 1
    BY <2>4, <1>p DEF PlaceOK
  <2>6. (\A u \in Threads : PlaceOK(u)') /\ ref' \in [Threads -> ChunkRef \cup {Absent}]
    BY <2>2, <2>3, <2>4, <2>5, <1>s, GetChunkType, MoveKeepsPlaces
  <2> QED BY <1>0, <2>4, <2>6 DEF TypeInv
<1>10. CASE BuildCompressed(t)
  <2>1. /\ pc[t] = "compress" /\ pc' = [pc EXCEPT ![t] = "replace"]
        /\ UNCHANGED <<rows, version, fetched, pass, returned, chunk_id, ref, replaced, undefined>>
    BY <1>10 DEF BuildCompressed, Go
  <2>2. ref[t] \in ChunkRef /\ ref[t] # Absent /\ chunk_id[t] = 1
    BY <2>1, <1>p DEF PlaceOK
  <2>3. (\A u \in Threads : PlaceOK(u)') /\ ref' \in [Threads -> ChunkRef \cup {Absent}]
    BY <2>1, <2>2, <1>s, MoveKeepsPlaces
  <2> QED BY <1>0, <2>1, <2>3 DEF TypeInv
<1>11. CASE ReplaceChunk(t)
  <2> DEFINE table == ref[t].table
             id == ref[t].id
  <2>1. /\ pc[t] = "replace" /\ pc' = [pc EXCEPT ![t] = "idle"]
        /\ version' = [version EXCEPT ![table][id] = @ + 1]
        /\ ref' = [ref EXCEPT ![t] = Absent]
        /\ replaced' \subseteq Threads
        /\ UNCHANGED <<rows, fetched, pass, chunk_id, returned, undefined>>
    BY <1>0, <1>11 DEF ReplaceChunk, Go
  <2>2. table \in Tables /\ id \in DOMAIN version[table] /\ version[table] \in Seq(Nat)
    BY <2>1, <1>0 DEF PlanInv, RefOK
  <2> HIDE DEF table, id
  <2>3. [version[table] EXCEPT ![id] = @ + 1] \in Seq(Nat)
    <3>1. version[table][id] + 1 \in Nat
      BY <2>2
    <3> QED BY <2>2, <3>1
  <2>4. version' = [version EXCEPT ![table] = [version[table] EXCEPT ![id] = @ + 1]]
    BY <2>1, <2>2, <1>0
  <2>5. version' \in [Tables -> Seq(Nat)]
    BY <2>2, <2>3, <2>4, <1>0
  <2>6. chunk_id[t] = 1
    BY <2>1, <1>p DEF PlaceOK
  <2>7. (\A u \in Threads : PlaceOK(u)') /\ ref' \in [Threads -> ChunkRef \cup {Absent}]
    BY <2>1, <2>6, <1>s, MoveKeepsPlaces
  <2> QED BY <1>0, <2>1, <2>5, <2>7 DEF TypeInv
<1> QED BY <1>1, <1>2, <1>3, <1>4, <1>5, <1>6, <1>7, <1>8, <1>9, <1>10, <1>11
        DEF PrintStep, Step

\* The variables keep their types and every Print its place: it never asks for a chunk that
\* is more than one behind the last chunk of its table, whatever the other threads replace.
THEOREM DatabaseTypeOK == Spec => []TypeOK
<1>1. Init => TypeInv
  <2> SUFFICES ASSUME Init PROVE TypeInv
    OBVIOUS
  <2>1. version \in [Tables -> Seq(Nat)]
    <3>1. ASSUME NEW t \in Tables PROVE [i \in DOMAIN rows[t] |-> 0] \in Seq(Nat)
      <4>1. rows[t] \in Seq(Nat)
        BY PlanAssumption DEF Init
      <4>2. DOMAIN rows[t] = 1..Len(rows[t]) /\ Len(rows[t]) \in Nat
        BY <4>1
      <4> QED BY <4>2
    <3> QED BY <3>1 DEF Init
  <2> QED BY <2>1 DEF Init, TypeInv, PlaceOK
<1>2. PlanInv /\ TypeInv /\ [Next]_vars => TypeInv'
  <2> SUFFICES ASSUME PlanInv, TypeInv, [Next]_vars PROVE TypeInv'
    OBVIOUS
  <2>1. CASE Next
    BY <2>1, StepKeepsTypeInv DEF Next
  <2>2. CASE UNCHANGED vars
    BY <2>2, NoMoveKeepsPlaces DEF vars, planVars, TypeInv
  <2> QED BY <2>1, <2>2
<1> QED BY <1>1, <1>2, SpecInv, TypeInvImplies, PTL DEF Spec, Safety

=============================================================================
