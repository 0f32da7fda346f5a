# OpossumDB and its linter: TLA+ specification and proofs

The repository is a small columnar in-memory database (the "OpossumDB" teaching
version of Hyrise), written in C++, and the linter `cpplint.py` that its build
runs over the sources. The database has tables split into chunks, chunks into
segments, dictionary compression, and operators of which the table scan is the
one that computes. This directory holds TLA+ modules for both, TLC
configurations, and TLAPS proofs. Paths of the database below are relative to
`src/src/lib`; the linter is `src/cpplint.py`.

## The system

| Part | State | Operations | Correct means |
|---|---|---|---|
| `ValueSegment`, `DictionarySegment` (`storage/`) | values; or sorted dictionary and attribute vector | append, construct from a value segment, `operator[]`, `lower_bound`, `upper_bound` | compression loses nothing; look-ups count the smaller entries |
| `FittedAttributeVector` | value ids in 8, 16 or 32 bits | get, set, size | narrowing an id never changes it, and the largest number stays free |
| `Chunk` | one segment per column | add_segment, append, size, get_segment | columns have one length |
| `Table` | column types, `_chunks`, `_current_chunk` | add_column(_definition), append, create_new_chunk, emplace_chunk, compress_chunk | it is a sequence of rows; entries never move; chunks respect the chunk size |
| `ReferenceSegment` | referenced table, column, position list | `operator[]`, size | it never shows another value |
| segment scanners, `TableScan` (`operators/`) | position in the input, positions found, output table | execute | selects exactly the rows that satisfy the predicate |
| `AbstractOperator`, `GetTable`, `TableWrapper`, `Print` | input operators, output | execute, get_output | an output stays valid until the next one; Print ends and reads only what lives |
| `StorageManager` | map from names to tables | add, drop, get, reset | a name leads to the table added last; dropping it frees nothing in use |
| `type_cast`, `resolve_type`, `AllTypeVariant` | none | casts, dispatch on type strings | a cast returns a value of its type or throws |
| `PerformanceWarning` (`utils/`) | a process-wide flag, a static object per warning | disable, enable, warn | warnings are off exactly while a disabler lives |
| `load_table` | none | load | the table holds the rows of the file |
| linter: errors | filters, verbosity, suppressions, counts | Error, NOLINT comments, SetFilters, BackupFilters | an error is printed exactly when nothing suppresses it, and counted once |
| linter: text | lines and their cleansed copies | remove comments and strings, match brackets | what is left of a line is its code |
| linter: `_IncludeState` | include lists per branch, section, last header | CheckIncludeLine, ResetSection | no false duplicates; sections in order |
| linter: `NestingState` | stack of blocks, saved stacks per conditional | Update, UpdatePreprocessor | the stack is that of the code compiled first |
| linter: `_FunctionState` | the open function and its lines | CheckForFunctionLengths | overlong functions are reported at the right level |
| linter: driver | files to do, options, configuration | ParseArguments, ProcessConfigOverrides, ProcessFile | every file is linted under its own configuration; the run ends |

How they interact: operators hold shared pointers to tables; a table owns its
chunks through shared pointers, and `_current_chunk` shares one of them. A scan
reads chunks of its input and returns a new table of reference segments, which
hold chunk ids and offsets of the base table. `compress_chunk` replaces a chunk
while others may read the table: `_chunks_mutex` guards the replacement and the
look-up in `get_chunk`, which returns a reference without owning the chunk.
`append` is documented as not thread-safe. `Print` disables the warnings of the
whole process while it runs. The linter is one thread; its components are made
anew for each file, and its filters, suppressions, counts and the values of
configuration files are global variables that live from file to file.

What is hard here: operations that throw half way and leave what they did
(`Chunk::append`, `create_new_chunk`, `add_column`); `_current_chunk` and
`_chunks` falling out of step; chunks re-encoded under running scans and under
existing position lists; the boundaries of the id widths and of the value id
that stands for "not found"; the chunk size tested with `==`; references that
outlive a lock; a flag shared by scopes of several threads. In the linter: state
that must be restored on each way out of a function, stacks and lists saved and
restored at preprocessor conditionals, guesses about `<` that are taken back,
and passes over the text that must not mislead one another.
`PROJECT.json` lists the hazards with their lines and the properties that cover
them.

## Modules

| Module | Models | How |
|---|---|---|
| `Segments` | `value_segment.cpp`, `dictionary_segment.hpp`, `fitted_attribute_vector.hpp`, `type_cast.hpp` | operators on records `[kind, type, ...]` |
| `SegmentCompression` | the life of one segment | actions append, append_throws, compress, compress_throws; `appended` is a history variable |
| `Chunk` | `chunk.cpp` | a sequence of segments; `Chunk_append` is the chunk that append leaves, `Chunk_append_returns` whether it returned |
| `Table` | `table.cpp` | `column_types`, `chunks`; `_current_chunk` is a position (`current`) or, when it points to a chunk that is not in `_chunks`, 0 with the content in `detached`; `last` is the last call and its outcome |
| `RowStore` | what a table promises | a sequence of rows; abstract specification |
| `TableRows` | `Table` implements `RowStore` | the mapping flattens the chunks; also two restricted callers, `SchemaSpec` and `AddColumnSpec` |
| `SegmentScanner` | `segment_scanner.hpp` | the six scan types on values and on value ids |
| `TableScan` | `table_scan.cpp`, `table_scan_impl.hpp`, `reference_segment.cpp`, `table_wrapper.cpp` | composes `Table` with operators; each operator has its input, its place in it, the positions found and its output |
| `StorageManager`, `PerformanceWarning` | `storage_manager.cpp`, `performance_warning.hpp` | state and operations; a disabler reads the flag and sets it in two steps |
| `Database` | `get_table.cpp`, `print.cpp`, `abstract_operator.cpp`, `Table::get_chunk`, `compress_chunk` | composes the two with threads that each own a GetTable and a Print; a chunk lives as long as an owner |
| `ErrorRecords`, `LintErrors` | errors, filters, suppressions of the linter | `raised` and `printed` are history |
| `Expressions`, `CleansedLines` | bracket matching; removal of comments and strings | operators on lines of tokens |
| `LintText` | both on every short text | a behaviour types a text; references: balanced brackets, a C++ lexer |
| `IncludeState`, `NestingState`, `FunctionState` | the state per file | operations on their own variables |
| `Lint` | the driver | composes the linter's components; `pc` is the stage of the run, `world` what it reads |
| `LintProperties` | what a run of the linter promises | definitions that look at the whole input at once |
| `MC*` | instances for TLC | rows, chunks, predicates; threads and tables; texts, files, configurations |
| `SegmentProofs`, `SegmentCompressionProofs`, `TableProofs`, `TableScanProofs`, `DatabaseProofs`, `LintProofs` | theorems | see below |
| `LintOperatorProofs` | what the linter's operators return, for every text | cleansed copies with as many lines, stacks of blocks that begin on lines of the text, errors of known categories on its lines |
| `SequenceFacts` | induction, least and greatest numbers, loops, flattened and reversed sequences | lemmas that the proofs share |

Definitions keep the names of the code. `PROJECT.json` maps each to its lines.
Definitions named `Mutant_...` are variants of the definition that follows them,
changed as a plausible mistake would; nothing uses them. They document which
mistake each property detects.

Abstractions:
- Positions, chunk ids and offsets start at 1; value ids start at 0, as in the code.
- The values of a type are integers in the order of `operator<`. NaN has no place
  in an order and is excluded.
- An `AllTypeVariant` is a function from each type to what `type_cast` returns for
  it, or `Throws`.
- A type string is a member of `DataTypes` or unknown. Column names are dropped.
- The widths 255, 65535 and 2^32 - 1 are the constants `U8Max < U16Max < U32Max`,
  so that TLC reaches every boundary; ids are narrowed with `%`.
- `IsDebug` says whether `DebugAssert` is compiled in. Calls whose behaviour is
  undefined without it (a row that is too short, an index out of range, an
  unknown type turned into a null segment) are left out of release builds by
  guards and by the assumption `TypeStringsAssumption`.
- A table has one caller at a time. In `TableScan` `compress_chunk` runs between
  any two reads of running scans, `append` and `create_new_chunk` only while no
  scan runs, as the comment on `append` demands. `get_chunk(...).get_segment(...)`
  is one step there: the reference that outlives the lock is in `Database`, where
  a chunk is a version number and an access to a chunk without owner makes the
  process undefined.
- Undefined behaviour in `Database` (a null input, a freed chunk) ends the
  behaviour; nothing is said of what comes after.
- A line that the linter reads is a sequence of tokens, and the width of a line
  their number. Numbers of lines start at 1 and the marker lines that the linter
  adds are left out, so line `n` is the line it reports as `n`; 0 is the file.
- Of the checks that look at one line with regular expressions only those that
  use state are modelled, and tabs and C types stand for the rest.
- Limits of the linter are constants: the width of a line (80), the lines of a
  function (250, 400 in tests) and of a namespace that needs a comment (10) are
  5 tokens, 2, 3 and 3 in the runs.

## Runs

Passing runs:

- `segment_debug`: `HoldsAppendedValues`, `DictionaryOK`, `SentinelIsFree`,
  `BoundsOK`. Two types, values with duplicates, sequences of up to five values
  with `U8Max = 1`, `U16Max = 2`, `U32Max = 3`, so that each
  width is used at and beyond its limit.
- `table_debug`: any caller of a debug build with known types and castable values:
  `AppendTargetInTable`, `ReturnedAppendIsStored`, `FailedAppendAddsNoRow`. Two
  columns, three chunks of two rows, emplaced chunks that are full, not full,
  compressed, too large and empty: a chunk fills up, is compressed while it is
  current, and is followed by created and emplaced ones.
- `table_rows`: `ImplementsRowStore`, for callers that keep chunks and column
  definitions in step (`SchemaSpec`). The rows are only defined by columns then;
  otherwise an earlier chunk may miss a column.
- `table_faults`: values that cannot be cast and unknown types:
  `FirstSegmentIsLongest`, `ValueIdsInDictionary`, `ChunkSizeRespected`,
  `StableEntries`. Torn rows, detached and unfinished chunks all occur.
- `scan`: two operators over a table of two columns and up to two chunks of two
  rows. The first scans the base table or is a hand-built reference table, the
  second scans the base table or the output of the first, whatever its state.
  `ScanSelects`, `OutputShape`, `ReferencesStable`, and `ScanTerminates` under
  weak fairness of the steps of each scan: a scan is a loop in its own thread and
  waits for nothing but the shared lock in `get_chunk`, which writers hold for one
  assignment. Position lists jump between chunks, repeat positions and are empty.
  Rows repeat, so that reads through a reference segment run into the assertion of
  `DictionarySegment::get` after a compression; `ReferencesStable` allows this one
  change, from a value to an exception in a debug build, and no other.

- `database`: two threads that fetch, print and compress two tables, register and
  drop them, open scopes with disablers and look at entries in any order.
  `OnlyCompressionFrees`, `NullOnlyBeforeInput`, `DisablerWorksAlone`,
  `SilentInScope`, and `PrintEnds` under weak fairness of the steps of each Print:
  a Print waits for nothing but the lock in `get_chunk`. One table has a full
  chunk that is the current one, or that has an empty successor, so that a
  replaced chunk is freed in one case and not in the other.
- `lint_text`: every text of up to five tokens on up to three lines, over brackets
  and over the marks of comments and strings. `CloseFindsTheMatch`,
  `ReverseIsInverse`, `TextInsideAgrees`, `ElidedIsCode`. The last one excludes
  three kinds of text that the linter misreads without a word: quote marks in
  comments, `/*` in a raw string, code after the end of a comment of several lines.
- `lint`: about 32 thousand inputs in twelve families: includes and conditionals,
  headers on disk, blocks, inline assembly, functions of up to seven lines,
  suppressions in two files, header guards, bad characters and ends of lines,
  configuration files in two directories, command lines. `FiltersRestored`,
  `NearestFilterWins`, `ErrorsPrintedExactly`, `RunSummaryTrue`,
  `NestingFollowsFirstBranch`, `NoFalseDuplicates`, `HeaderRecordedOnce`,
  `OverlongFunctionsReported`, `SectionMonotone`, and `LintTerminates` under weak
  fairness: the linter is one thread that nothing blocks. The fairness of the
  steps on a text is stated of `Advance`, their effect on the control, because
  these steps are expensive to evaluate; one of them is always enabled in its
  stages. The errors that the model prints were compared with those of
  `cpplint.py` itself, and agree, on all of these inputs but the ones added last
  (a file named twice, NOLINTNEXTLINE within a header guard).
  `ErrorsPrintedExactly` leaves out what `RemoveMultiLineComments` and
  `CheckForHeaderGuard` report, which run before the comments are read, and texts
  in which a raw string hides a comment from the header guard check, which reads
  lines without raw strings. `NoFalseDuplicates` speaks of two includes with no
  other conditional between them: after a nested one the wrong list is reset (see
  below). It and `OverlongFunctionsReported` leave out texts with inline assembly,
  of whose blocks no line is checked.

Runs that show a disagreement between code and documentation:

- `segment_read_debug`: `DictionarySegment::get` checks the position against the
  dictionary size, so a debug build refuses valid positions once values repeat.
  `ReferenceSegment::operator[]` ends in it: what a scan returned can be read until
  a chunk with repeated values is compressed, and then no longer.
- `table_torn_row`: `append` throws at the second column after the first has grown.
- `lint_config`: the `linelength` of a parent directory's CPPLINT.cfg overrides
  the nested one, and stays in force for the files that follow.
- `database_warnings`: overlapping disablers of two threads leave the warnings
  disabled after both are gone.

Other disagreements met while modelling, which have no run of their own:
`table.hpp:51` says of `emplace_chunk` "If the first chunk is empty, it is replaced",
but `table.cpp:97` replaces it only when the whole table has no rows
(`row_count() == 0`). After `create_new_chunk` and an append the first chunk is
empty and stays, and the new chunk is pushed; `Table` models the code. `ImplementsRowStore` holds for the code, and would
not for the comment, which puts the new rows before those that are there.
`create_new_chunk` that throws makes later appends store their rows outside the
table; a column added after `create_new_chunk` is missing from the earlier chunk;
with chunk size 0 a chunk grows without limit; the scan of a reference table that
shows one of two columns returns chunks with two segments; the linter reports an
unterminated comment one line off (line 1348), does not see a NUL inside a
comment of several lines although it means to check raw lines (5838), resets
the wrong include list at `#else` after a nested conditional (729), applies
several `filter=` lines of one CPPLINT.cfg in reverse order (5917), and raises an
exception for a filter without a sign that its usage text shows.

The bounds are small because each hazard needs few objects: a first and a second
column, a full chunk with a successor, a value below, between and above the
others, two threads, two files, two directories, a conditional inside another.
The proofs remove the bounds where it matters most.

## Proofs

Checked by TLAPS for all constants that satisfy the named assumptions:

- `CompressionIsLossless`: from lemmas on ranks (`RankOrders`, `RankIsOnto`), the
  sorted dictionary (`DictionaryIsSorted`), `lower_bound` of a stored value
  (`LowerBoundFindsEntry`) and the width (`WidthFits`).
- `CompareByValueIdIsCompare`: `lower_bound` and `upper_bound` split a strictly
  increasing dictionary, so the comparison of ids is that of values, for all six
  scan types and with INVALID_VALUE_ID. The dictionary may have up to `U32Max`
  entries: ids are then still smaller than INVALID_VALUE_ID.
- `ScanIgnoresCompression`: both together.
- `SegmentTypeOK`, `SegmentHoldsAppendedValues`, `SegmentDictionaryOK`,
  `SegmentSentinelIsFree`, `SegmentBoundsOK`: the life of one segment, both builds.
  The inductive invariant adds to the history of appended values that the ids of a
  dictionary segment are exactly the positions of a strictly increasing dictionary
  that fits the width; all five properties follow from it and from the lemmas on
  ranks.
- `TableTypeOK`, `TableFirstSegmentIsLongest`, `TableValueIdsInDictionary`,
  `TableStableEntries`: both builds, any calls, any outcome. `FirstSegmentIsLongest`
  is not inductive: an append keeps it only if it appends to the segments from the
  left, and compression only if the new segments have the old sizes, which needs
  value ids that were not narrowed. The inductive invariant `IInv` is the type
  invariant together with, for every chunk and for the detached one, a first
  segment that is the longest and value ids inside the dictionary. `StableEntries`
  follows from it step by step; replacing chunk 0 in `emplace_chunk` keeps the
  entries because no chunk has a row, and then no segment of it has one either.
- `TableChunkSizeRespected`: debug build, positive chunk size (with 0 it does
  not hold). Appending checks for equality, so the
  inequality must hold of the current chunk too, detached or not.
- `TableAppendTargetInTable`: debug build, known column types (with unknown ones a
  chunk that `create_new_chunk` did not finish is appended to).
- `TableFailedAppendAddsNoRow` (both builds) and `TableReturnedAppendIsStored` (debug
  build, known types): an append is all or nothing, under two hypotheses.
  `RowsAreCastable`: every value of a row can be cast to every type; the run
  `table_torn_row` shows that a row is torn without it. `EmplacedHeadsDecide`: an
  emplaced chunk whose first segment is a value segment has only value segments;
  otherwise append grows the first column and then throws at a dictionary segment,
  which cannot be appended to. Chunks that the table makes itself always satisfy
  it, because `compress_chunk` puts its chunk into the table only when every
  segment of it is compressed. The invariant `RowsInv`
  says of every chunk that its first segment decides in this sense, and in a debug
  build that its segments have one length.
- `TableImplementsRowStore`: `SchemaSpec`, debug build, known types and the two
  hypotheses above. The abstract rows are the flattened rows of the chunks. The
  inductive invariant `SchemaInv` joins `IInv`, `RowsInv`, `AppendTargetInTable`
  and that each chunk has the columns of the table. A returned append extends the
  list of the last chunk with rows, and the lists after it are empty, so the
  flattened sequence grows by one row at its end (`FlattenExtend`); compression
  keeps every list; a new or emplaced chunk without rows adds an empty one.
- `ScanSelectsExactly`, `ScanOutputShape`, `ScanReferencesStable`: any table with
  castable rows, any number of operators over one another, any hand-made reference
  tables with valid positions, both builds. `ScanInv` says of the base table that
  segments have one length and that scanning one, by values or by ids, is comparing
  its entries (`FaithfulScan`, kept by compression through
  `ScanIgnoresCompression`). Of a running scan it says that its output has what is
  picked from the lists of its input before `chunk_id`, and `found` what is picked
  from the current list before `start_index`; `PickedConcat` puts the parts
  together. A finished scan is readable: its chunks with positions point to the
  base table and show the same columns, so the next scan may go through it. A
  compression between two reads changes neither positions nor entries
  (`PositionsAreKept`), so what was picked before it and after it fit together.
  Every other operator that is read has stopped changing. For `ReferencesStable`,
  `operator[]` at a stored position is the entry unless `get` refuses the offset
  (`ReadAtPosition`); entries are kept, and a dictionary segment never changes
  (`DictionariesStay`), so what is refused stays refused and nothing else changes.
- `DatabaseTypeOK`: with `PlanInv`, since what a reader holds is typed by the table
  it reads.

- `DatabaseOnlyCompressionFrees`, `DatabaseNullOnlyBeforeInput`: any number of
  threads, names and tables of any content. The inductive invariant `PlanInv`
  adds to the types that a Print in the middle of a chunk reads the table that
  its GetTable holds, which therefore has an owner, and that the version a reader
  has seen is still in the table's list unless the reader is in `replaced`. A
  table can only be registered anew while nothing owns it, so its versions start
  again under no reader.
- `DatabaseDisablerWorksAlone`, `DatabaseSilentInScope`: `WarningInv` says that as
  long as scopes of threads have not overlapped only one thread has disablers,
  and of what these have saved the first entry is FALSE and all others TRUE;
  restoring it in reverse is then right at any depth, also between the two steps
  of a constructor.
- The linter, for every command line, every set of files, texts and configuration
  files. `WorldsAssumption` says how these are read: lines are lists of tokens,
  options and filters are lists, a directory is a list of names, a verbosity is
  between 0 and 5 (as the usage text says, lines 83-84) and a line length a number
  (`int`, lines 5899 and 6082). The default filters all have a sign (the comment at
  258-261). The categories that the checks raise are listed (the comment at 176-180
  asks for it: `CategoriesAssumption`), and the directives for C and kernel files
  suppress listed ones, among them not the missing copyright (264-271:
  `SuppressedAssumption`). The triggers of function lengths are positive (983-984).
  - `LintFiltersRestored`: `FiltersInv` adds that from `StartFile` to the end of a
    file the backup equals the filters given, and that the filters have not changed
    as long as configuration files are searched.
  - `LintHeaderRecordedOnce`, `LintSectionMonotone`: every step of the run is an
    include, a directive, a new file or leaves the include state alone
    (`StepOnIncludes`). `IncludeInv` is the property with the types of the lists: a
    header is recorded only after all lists were searched, and a directive only adds
    or empties a list.
  - `LintNearestFilterWins`: `SearchInv` says during the search that the directories
    below `level` were all read and none of them stopped it, and that the filters
    found so far, reversed and put together as they would be applied now, decide
    every category as the nearest of the directories read does, unless one of them
    is malformed. A further directory puts its filters before all others, where they
    decide only what no other has decided (`FlattenConcat`, `ReverseConcat`); at the
    end all of them follow the filters of the command line.
  - `LintTypeOK`, and the lemma `TextInvariant` on which all the following theorems
    rest. `TextInv` says at every stage which lines of the text the components speak
    of: the copies have as many lines as the text and are made of its tokens, the
    blocks on the stack and on the saved stacks begin before the current line, the
    includes listed are of lines before it, what is left of the command line is its
    end, and `raised` and `printed` are lists of errors. Each check is shown to
    return such errors in `LintOperatorProofs`, each loop over a line by a function
    that exists and never leaves its set (`IteratesExist`, `IteratesStay`).
    `TypeInv` adds the signs of the filters, the numbers of the options, the known
    categories of the suppressions, and that `_last_header` is the last one listed.
  - `LintRunSummaryTrue`: `SummaryInv` keeps `errors_by_category` equal to the
    tally of what was printed. A report counts its errors one at a time, so one more
    printed error must add one to its key and to no other (`TallyAppend`).
  - `LintErrorsPrintedExactly`: the comments of a file are read line by line, and
    ahead of that by the header guard check, while errors are raised on lines
    anywhere. `SuppInv` says which comments are in force at each stage, all of them
    of this file; `PrintInv` that what was printed for this file was raised in it,
    since the number of the file is its place on the command line and the same file
    may come twice; `ExactInv` is the property at every stage. It holds for an
    error on the line just read because a comment concerns only its own line or the
    next one (`SuppressedAsRead`), and stays so because no later comment concerns a
    line before it.
  - `LintNestingFollowsFirstBranch`: `NestingInv` matches each entry of the saved
    stacks with the open conditional it belongs to (`Conditionals`: the lines where
    they begin, from the outermost to the innermost, found by counting `#if` against
    `#endif`), says which of them are in a later branch, and that the stack saved by
    the outermost of these is the one that the text without later branches has; the
    stacks saved further in do not matter. `StacksStep` gives what the reference
    computes line by line.
  - `LintNoFalseDuplicates`: `BranchInv` says of every include listed that a
    conditional has begun or ended since, or that it is on the innermost list and no
    other branch has begun since. A directive that begins another branch empties
    exactly that list.
  - `LintOverlongFunctionsReported`: `BodyInv` says that the function state counts
    the lines of the last body that began and has not ended, and that every body
    behind is reported as its length says. The confidence is a logarithm:
    `ErrorLevelIs` shows that it reaches the verbosity exactly when the length
    exceeds the trigger times the power of two.

Induction is used in the form of sets: a set of natural numbers with 0 and all
successors is everything (`Induction`, from the well-foundedness of `<`), and the
property in question is the membership in a comprehension. With it the provers
reach recursive functions: that the function exists (`FlattenExists`,
`PickingExists`), what it does in one step, and from there what it computes. This
is why the loop of a scan, `Picked`, is written as a recursive function, and why
`ScanSelects` is stated with it.

Only model-checked: liveness (`ScanTerminates`, `PrintEnds`, `LintTerminates`),
which needs ENABLED; and the properties of `LintText` (`CloseFindsTheMatch`,
`ReverseIsInverse`, `TextInsideAgrees`, `ElidedIsCode`), which compare the searches and the
cleansing with a reduction of brackets, a RECURSIVE operator, and with a lexer, a
fold over lines and tokens. A module that reaches the first has no SMT backend, and
what the searches compute for every text, with their guesses about `<` that are taken
back, is an induction over data which the provers do not reach. The runs that expect a violation are TLC's too.

## Plan

1. `LoadTable` and the casts: widths of the chunk size, `lexical_cast` and
   `numeric_cast` by what they do to integers, decimals and words.
2. The bracket searches against a reference written as a recursive function, so
   that `LintText` can be proved about.

## Not modelled

- The linter's checks of single lines (spacing, braces, casts, `printf`, C++11
  features and others): stateless regular expressions over characters, which a
  model of tokens could only repeat. `CheckTrailingSemicolon` parses a NOLINT
  comment a second time, which only repeats a complaint about it.
- Input of the linter from stdin, escapes, digit separators and line
  continuations, delimiters of raw strings, class names with attributes, the
  wording and formats of its output.
- `load_table`, the conversions of `type_cast`, what `Print` writes, concurrent
  calls of the storage manager and of `append` (neither is meant to be
  thread-safe), the playground binary, tests, third party code.
