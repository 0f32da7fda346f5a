----------------------------- MODULE TableScan -----------------------------
(***************************************************************************)
(* Table scans (src/lib/operators/table_scan.cpp, table_scan_impl.hpp,     *)
(* segment_scanner.hpp) over one base table, and over the reference tables *)
(* that earlier scans or the caller made from it.  A scan works through    *)
(* its input chunk by chunk, and through a reference segment run by run of *)
(* equal chunk ids, reading one segment of the base table for each.        *)
(* compress_chunk may run between any two of these reads.  append and      *)
(* create_new_chunk, which the code documents as not thread-safe, run only *)
(* while no scan does.                                                     *)
(*                                                                         *)
(* A reference table is modelled by its chunks; all reference segments of  *)
(* a chunk share one position list.  get_chunk followed by get_segment is  *)
(* one step here: what happens between the two is outside this module.     *)
(***************************************************************************)
EXTENDS Table, SegmentScanner, SequencesExt

CONSTANTS
    Schema,           \* the column types of the base table
    NumOps,           \* the number of operators
    Predicates,       \* [Ops -> sets of predicates the operator may be created with]
    ReferenceTables   \* the reference tables a caller may build and wrap

ASSUME SchemaAssumption == Schema \in Seq(DataTypes \cap TypeStrings) /\ Schema # <<>>
ASSUME OpsAssumption == NumOps \in Nat

\* An operator may read the output of one with a smaller number.
Ops == 1..NumOps

ASSUME PredicatesAssumption ==
    \A o \in Ops : Predicates[o] \subseteq
        [column_id : DOMAIN Schema, scan_type : ScanTypes, type : DataTypes, value : Values]

\* A table has a chunk, and a reference segment names a column of the base table.
ASSUME ReferenceTablesAssumption ==
    \A table \in ReferenceTables :
        /\ table.columns \in Seq(DOMAIN Schema)
        /\ table.pos_lists \in Seq(Seq([chunk_id : Nat, chunk_offset : Nat \ {0}]))
        /\ table.pos_lists # <<>>

VARIABLE ops   \* what each operator has done so far

scan_vars == <<vars, ops>>

Base == 0   \* stands for the base table where an operator's number stands for its output

ReferenceChunkOf(table, columns, pos_list) ==
    [table |-> table, columns |-> columns, pos_list |-> pos_list]

\* The chunk without segments that the constructor of the output table makes.
BareChunk == ReferenceChunkOf(Base, <<>>, <<>>)

\* rows is the content of the input when the operator was executed.
Created == [status |-> "new", input |-> Base, types |-> <<>>,
            predicate |-> [column_id |-> 0, scan_type |-> "none", type |-> "none", value |-> 0],
            chunk_id |-> 1, start_index |-> 1, found |-> <<>>, output |-> <<BareChunk>>,
            rows |-> <<>>]

-----------------------------------------------------------------------------
TypesOf(table) == IF table = Base THEN column_types ELSE ops[table].types

\* _create_chunk: a reference segment for every column of the referenced table.
create_chunk(pos_list, table) ==
    ReferenceChunkOf(table, [i \in DOMAIN TypesOf(table) |-> i], pos_list)

OutputHasNoRows(op) == \A c \in DOMAIN op.output : op.output[c].pos_list = <<>>

\* Variant: every chunk of the input becomes a chunk of the output.
Mutant_AlwaysPushed(op, chunk) == Append(op.output, chunk)

\* Table::emplace_chunk of the output table.
Emplaced(op, chunk) ==
    IF OutputHasNoRows(op) THEN [op.output EXCEPT ![1] = chunk] ELSE Append(op.output, chunk)

EmplaceReturns(op, chunk) ==
    ~OutputHasNoRows(op) => DebugAssert(Len(chunk.columns) = Len(op.types))

PositionsOf(output) == FlattenSeq([c \in DOMAIN output |-> output[c].pos_list])

AllPositions ==
    FlattenSeq([c \in DOMAIN chunks |-> [k \in 1..Chunk_size(chunks[c]) |-> RowID(c, k)]])

\* The last index of the run of equal chunk ids that begins at start_index.
RunEnd(pos_list, start_index) ==
    CHOOSE e \in start_index..Len(pos_list) :
        /\ \A i \in start_index..e : pos_list[i].chunk_id = pos_list[start_index].chunk_id
        /\ e < Len(pos_list) => pos_list[e + 1].chunk_id # pos_list[start_index].chunk_id

-----------------------------------------------------------------------------
ScanInit == /\ column_types = Schema
            /\ chunks = <<[i \in DOMAIN Schema |-> EmptyValueSegment(Schema[i])]>>
            /\ current = 1
            /\ detached = <<>>
            /\ last = [call |-> "add_column", outcome |-> "ok", row |-> <<>>]
            /\ ops = [o \in Ops |-> Created]

Idle == \A o \in Ops : ops[o].status # "running"

\* The caller builds a reference table by hand; executing a TableWrapper hands it out.
TableWrapper_execute(o, table) ==
    /\ ops[o].status = "new"
    /\ \A c \in DOMAIN table.pos_lists : \A i \in DOMAIN table.pos_lists[c] :
          LET row_id == table.pos_lists[c][i]
          IN  row_id.chunk_id \in DOMAIN chunks
              /\ row_id.chunk_offset <= Chunk_size(chunks[row_id.chunk_id])
    /\ ops' = [ops EXCEPT
                 ![o].status = "wrapped",
                 ![o].types = [i \in DOMAIN table.columns |-> column_types[table.columns[i]]],
                 ![o].output = [c \in DOMAIN table.pos_lists |->
                     ReferenceChunkOf(Base, table.columns, table.pos_lists[c])]]
    /\ UNCHANGED vars

HasOutput(input) == input # Base => ops[input].status \in {"done", "wrapped"}

\* The search value is read with boost::get<T>, T being the type of the column.
ExecuteReturns(input, p) ==
    /\ HasOutput(input)
    /\ p.column_id \in DOMAIN TypesOf(input)
    /\ TypesOf(input)[p.column_id] = p.type

\* A release build reads past the column types for a column the input does not have.
DefinedScan(input, p) ==
    IsDebug \/ (HasOutput(input) => p.column_id \in DOMAIN TypesOf(input))

\* TableScan::execute up to the loop over the chunks.
execute(o, input, p) ==
    /\ ops[o].status = "new"
    /\ input # Base => ops[input].status # "running"
    /\ DefinedScan(input, p)
    /\ \/ /\ ExecuteReturns(input, p)
          /\ ops' = [ops EXCEPT
                       ![o].status = "running", ![o].input = input, ![o].predicate = p,
                       ![o].types = TypesOf(input),
                       ![o].rows = IF input = Base THEN AllPositions
                                   ELSE PositionsOf(ops[input].output)]
       \/ /\ ~ExecuteReturns(input, p)
          /\ ops' = [ops EXCEPT ![o].status = "throws"]
    /\ UNCHANGED vars

\* Variant: the loop goes on to the next chunk only after it has added one.
Mutant_SkipsNoChunk(o, pos_list, table) ==
    LET chunk == create_chunk(pos_list, table)
    IN  ops' = [ops EXCEPT ![o].chunk_id = IF pos_list = <<>> THEN @ ELSE @ + 1,
                           ![o].start_index = 1, ![o].found = <<>>,
                           ![o].output = IF pos_list = <<>> THEN @ ELSE Emplaced(ops[o], chunk)]

\* What the scan does with the positions it has selected in a chunk of its input.
AddToOutput(o, pos_list, table) ==
    LET chunk == create_chunk(pos_list, table)
    IN  \/ /\ pos_list = <<>>
           /\ ops' = [ops EXCEPT ![o].chunk_id = @ + 1, ![o].start_index = 1, ![o].found = <<>>]
        \/ /\ pos_list # <<>>
           /\ EmplaceReturns(ops[o], chunk)
           /\ ops' = [ops EXCEPT ![o].chunk_id = @ + 1, ![o].start_index = 1, ![o].found = <<>>,
                                 ![o].output = Emplaced(ops[o], chunk)]
        \/ /\ pos_list # <<>>
           /\ ~EmplaceReturns(ops[o], chunk)
           /\ ops' = [ops EXCEPT ![o].status = "throws"]

\* One iteration over the chunks of the base table.
scan_chunk(o) ==
    LET op == ops[o]
        p == op.predicate
    IN  /\ op.status = "running"
        /\ op.input = Base
        /\ op.chunk_id <= Len(chunks)
        /\ AddToOutput(o, scan_segment(p.scan_type, op.chunk_id,
                                       chunks[op.chunk_id][p.column_id], p.value), Base)
        /\ UNCHANGED vars

\* The chunk of a reference table that the scan has reached.
InputChunk(o) == ops[ops[o].input].output[ops[o].chunk_id]

InReferenceChunk(o) == /\ ops[o].status = "running"
                       /\ ops[o].input # Base
                       /\ ops[o].chunk_id <= Len(ops[ops[o].input].output)

\* A reference segment without positions.
scan_empty_list(o) ==
    /\ InReferenceChunk(o)
    /\ InputChunk(o).pos_list = <<>>
    /\ AddToOutput(o, <<>>, InputChunk(o).table)
    /\ UNCHANGED vars

\* One run of positions with the same chunk id; the last run ends the iteration.
scan_run(o) ==
    /\ InReferenceChunk(o)
    /\ InputChunk(o).pos_list # <<>>
    /\ LET op == ops[o]
           p == op.predicate
           pos_list == InputChunk(o).pos_list
           end == RunEnd(pos_list, op.start_index)
           segment == chunks[pos_list[op.start_index].chunk_id][InputChunk(o).columns[p.column_id]]
           found == op.found \o scan_positions(p.scan_type, segment, p.value,
                                               SubSeq(pos_list, op.start_index, end))
       IN  \/ /\ end < Len(pos_list)
              /\ ops' = [ops EXCEPT ![o].start_index = end + 1, ![o].found = found]
           \/ /\ end = Len(pos_list)
              /\ AddToOutput(o, found, InputChunk(o).table)
    /\ UNCHANGED vars

\* After the loop: an output without rows gets one empty chunk, over the input table.
finish(o) ==
    LET op == ops[o]
    IN  /\ op.status = "running"
        /\ op.chunk_id > IF op.input = Base THEN Len(chunks) ELSE Len(ops[op.input].output)
        /\ ops' = [ops EXCEPT ![o].status = "done",
                              ![o].output = IF OutputHasNoRows(op)
                                            THEN Emplaced(op, create_chunk(<<>>, op.input)) ELSE @]
        /\ UNCHANGED vars

ScanStep(o) == scan_chunk(o) \/ scan_empty_list(o) \/ scan_run(o) \/ finish(o)

\* The base table changes.
BaseStep == /\ \/ Idle /\ \E values \in Rows : append(values)
               \/ Idle /\ create_new_chunk
               \/ \E chunk_id \in 1..MaxChunks : compress_chunk(chunk_id)
            /\ UNCHANGED ops

ScanNext == \/ BaseStep
            \/ \E o \in Ops : \/ \E table \in ReferenceTables : TableWrapper_execute(o, table)
                              \/ \E input \in 0..(o - 1), p \in Predicates[o] : execute(o, input, p)
                              \/ ScanStep(o)

\* A scan is a loop in one thread.  It takes no lock but the shared one of get_chunk.
ScanSpec == /\ ScanInit /\ [][ScanNext]_scan_vars
            /\ \A o \in Ops : WF_scan_vars(ScanStep(o))

-----------------------------------------------------------------------------
\* operator[](k - 1) of the i-th segment of a reference chunk, with the checks it makes
\* itself and those of the segment behind it.
Dereferenced(chunk, i, k) ==
    LET row_id == chunk.pos_list[k]
    IN  IF /\ DebugAssert(row_id.chunk_id \in DOMAIN chunks)
           /\ DebugAssert(row_id.chunk_offset <= Chunk_size(chunks[row_id.chunk_id]))
        THEN ValueAt(chunks[row_id.chunk_id][chunk.columns[i]], row_id.chunk_offset)
        ELSE Throws

\* The column of the base table that column i of the input of a scan shows.
BaseColumn(op) ==
    IF op.input = Base THEN op.predicate.column_id
    ELSE ops[op.input].output[1].columns[op.predicate.column_id]

\* The positions of the base table, and those whose value satisfies the predicate of a scan.
Positions == UNION {{RowID(c, k) : k \in 1..Chunk_size(chunks[c])} : c \in DOMAIN chunks}

Satisfying(op) ==
    {row_id \in Positions :
        compare(op.predicate.scan_type,
                Entry(chunks[row_id.chunk_id][BaseColumn(op)], row_id.chunk_offset),
                op.predicate.value)}

\* A finished scan has selected exactly the rows of its input that satisfy its predicate,
\* each as often and in the order in which the input had them, whichever chunks were
\* compressed before, during or after the scan.
ScanSelects ==
    \A o \in Ops :
        ops[o].status = "done" =>
            PositionsOf(ops[o].output) = Picked(ops[o].rows, Satisfying(ops[o]))

\* The output of a finished scan has no empty chunk unless nothing was selected, and then it
\* has just one (table_scan_impl.hpp).  A chunk with positions has a segment for every
\* column of the base table, in its order and pointing to it, whichever columns the input
\* shows: a later scan finds a value or a dictionary segment behind them.  The chunk of a
\* scan that selected nothing has the columns of the input.
OutputShape ==
    \A o \in Ops :
        ops[o].status = "done" =>
            LET output == ops[o].output
            IN  /\ output # <<>>
                /\ Len(output) > 1 => \A c \in DOMAIN output : output[c].pos_list # <<>>
                /\ \A c \in DOMAIN output :
                      IF output[c].pos_list # <<>>
                      THEN output[c].table = Base /\ output[c].columns = [i \in DOMAIN Schema |-> i]
                      ELSE output[c].columns = [i \in DOMAIN ops[o].types |-> i]

\* The assertion in DictionarySegment::get (dictionary_segment.hpp:61) refuses the offset:
\* values of the segment repeat, so that its dictionary is shorter than the offset.
RefusedByGet(chunk, i, k) ==
    LET row_id == chunk.pos_list[k]
        segment == chunks[row_id.chunk_id][chunk.columns[i]]
    IN  /\ IsDebug
        /\ segment.kind = "dictionary"
        /\ Len(segment.dictionary) < row_id.chunk_offset

\* A reference segment of a finished scan never shows another value: after every later
\* append, new chunk and compression of the base table it shows what it showed before, or
\* it throws for the one reason that get refuses the offset.  It does not recover from
\* that, and in a release build nothing that it shows changes.
ReferencesKept(o) ==
    /\ ops'[o] = ops[o]
    /\ \A c \in DOMAIN ops[o].output :
          LET chunk == ops[o].output[c]
          IN  \A k \in DOMAIN chunk.pos_list, i \in DOMAIN chunk.columns :
                 \/ Dereferenced(chunk, i, k)' = Dereferenced(chunk, i, k)
                 \/ Dereferenced(chunk, i, k)' = Throws /\ RefusedByGet(chunk, i, k)'

ReferencesStable ==
    [][\A o \in Ops : ops[o].status = "done" => ReferencesKept(o)]_scan_vars

\* A scan whose input has all columns of the base table ends, and does not throw, although
\* chunks of the base table are compressed while it runs.
FromAllColumns(op) == op.types = Schema

ScanTerminates ==
    \A o \in Ops :
        (ops[o].status = "running" /\ FromAllColumns(ops[o])) ~> (ops[o].status = "done")
=============================================================================
