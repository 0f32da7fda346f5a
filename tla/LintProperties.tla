--------------------------- MODULE LintProperties ---------------------------
(***************************************************************************)
(* What a run of the linter promises.  Each property compares what the     *)
(* linter has worked out step by step with a definition that looks at the  *)
(* whole input at once.                                                    *)
(***************************************************************************)
EXTENDS Lint

\* What the linter keeps is of its type: errors have known categories, filters a sign, open
\* blocks begin on lines of the text, and the header that the next #include is compared with
\* (_last_header) is the last one listed.
TypeOK ==
    /\ IsSuffix(todo, world.args.files)
    /\ level \in Nat /\ linenum \in 1..(Len(lines) + 1) /\ exit_code \in {0, 1}
    /\ line_length \in Int /\ verbose_level \in 0..5 /\ error_count \in Nat
    /\ \A i \in DOMAIN filters : filters[i].sign \in {"+", "-"}
    /\ error_suppressions \subseteq (ErrorCategories \cup {"all"}) \X Nat
    /\ global_error_suppressions \subseteq ErrorCategories
    /\ \A i \in DOMAIN raised : raised[i].category \in ErrorCategories /\ raised[i].confidence \in 0..5
    /\ section \in INITIAL_SECTION..OTHER_H_SECTION
    /\ last_header # 0 => /\ include_list # <<>> /\ Last(include_list) # <<>>
                          /\ last_header = Headers[Last(Last(include_list)).header].rank
    /\ lines_in_function \in Nat
    /\ \A i \in DOMAIN stack : stack[i].line \in 1..Len(lines)

-----------------------------------------------------------------------------
(* Filters *)

\* The sign that the last filter that applies to the category gives, or "none".
Verdict(fs, category) ==
    LET i == SelectLastInSeq(fs, LAMBDA f : StartsWith(category, f.prefix))
    IN IF i = 0 THEN "none" ELSE fs[i].sign

GivenFilters == DefaultFilters \o Option("filter", <<>>)

\* The options of the configuration file of a directory above the file.
OptionsOf(n, name) ==
    LET d == SubSeq(TheFile.path.dir, 1, n)
    IN IF d \in DOMAIN world.configs
       THEN {world.configs[d][i].value : i \in {j \in DOMAIN world.configs[d] : world.configs[d][j].name = name}}
       ELSE {}

HasOption(n, name) ==
    LET d == SubSeq(TheFile.path.dir, 1, n)
    IN d \in DOMAIN world.configs /\ \E i \in DOMAIN world.configs[d] : world.configs[d][i].name = name

\* The directories whose configuration is in force: none further up than one that has
\* "set noparent".
InForce == {n \in 0..Len(TheFile.path.dir) :
              \A m \in (n + 1)..Len(TheFile.path.dir) :
                 ~HasOption(m, "set noparent") /\ ~HasOption(m, "unreadable")}

Nearest(ns) == CHOOSE n \in ns : \A m \in ns : m <= n

\* After any number of files with configurations of their own, linted, excluded or skipped,
\* the filters between two files are the ones of the command line (ProcessFile backs them up
\* and must restore them on each of its ways out).
FiltersRestored == pc = "file" => filters = GivenFilters

\* A category is filtered for a file as the nearest configuration file on its path with a filter
\* for it says, or else as the command line says: the filters are collected from the file's
\* directory upwards and must be applied the other way round (ProcessConfigOverrides).
NearestFilterWins ==
    pc = "read" => \A c \in ErrorCategories :
        LET Verdicts(n) == {Verdict(fs, c) : fs \in OptionsOf(n, "filter")} \ {"none"}
            deciding    == {n \in InForce : Verdicts(n) # {}}
            sign        == IF IsFiltered(c) THEN "-" ELSE "+"
        IN IF deciding # {} THEN sign \in Verdicts(Nearest(deciding))
           ELSE IsFiltered(c) <=> Verdict(GivenFilters, c) = "-"

\* "CPPLINT.cfg has an effect on files in the same directory and all sub-directories, unless
\* overridden by a nested configuration file": the line length in force for a file is the one
\* of the nearest configuration file that gives one, or else the one of the command line.
NestedConfigOverrides ==
    pc = "read" =>
        LET giving == {n \in InForce : HasOption(n, "linelength")}
        IN IF giving = {} THEN line_length = Option("linelength", DefaultLineLength)
           ELSE line_length \in OptionsOf(Nearest(giving), "linelength")

-----------------------------------------------------------------------------
(* Errors *)

\* What the file itself suppresses: on a line, and everywhere.
SuppressedHere(e) ==
    \/ e.category \in GlobalSuppressions(TheFile.lines)
    \/ \E n \in DOMAIN lines, c \in {e.category, "all"} : <<c, e.line>> \in NolintSuppressions(lines[n], n)

\* What may be raised before the NOLINT comments of the file are read: by
\* RemoveMultiLineComments and by CheckForHeaderGuard, which also complains of the comments on
\* the lines it reports on.
Early(e) ==
    \/ e.category \in {"build/header_guard", "readability/multiline_comment"}
    \/ /\ e.category = "readability/nolint" /\ target.ext = "h"
       /\ e.line \in {DirectiveLine("#ifndef"), EndifLine}

\* CheckForHeaderGuard reads lines without raw strings; these hide no NOLINT comment from it.
GuardReadsComments == \A n \in DOMAIN lines : Nolint(GuardLines[n]) = Nolint(lines[n])

\* Once the lines of a file are through, an error that was raised has been printed if and only
\* if its confidence is high enough and neither the filters in force nor a NOLINT comment or a
\* directive of this very file suppress it; nothing is left of the suppressions of the files
\* before (ResetNolintSuppressions), and a comment is read before the errors of its line.
ErrorsPrintedExactly ==
    pc = "finish" /\ GuardReadsComments => \A e \in ToSet(raised) : ~Early(e) =>
        ([file |-> ThisFile, error |-> e] \in ToSet(printed)
            <=> e.confidence >= verbose_level /\ ~IsFiltered(e.category) /\ ~SuppressedHere(e))

\* The key under which an error is counted.
CountKey(category) == IF counting = "toplevel" THEN TopLevel(category) ELSE category

\* How often errors of each key are among the printed ones.
PrintedPerKey ==
    [k \in {CountKey(p.error.category) : p \in ToSet(printed)} |->
        Cardinality({i \in DOMAIN printed : CountKey(printed[i].error.category) = k})]

\* The exit status tells whether an error was printed for any file, and the summary, where one
\* is asked for, counts every printed error once under its category, over all files.
RunSummaryTrue ==
    pc = "done" /\ world.args.files # <<>> /\ todo = <<>> /\ FirstStop = 0 /\ ValidFilters(GivenFilters) =>
        /\ exit_code = (IF printed = <<>> THEN 0 ELSE 1)
        /\ errors_by_category = IF counting \in {"detailed", "toplevel"} THEN PrintedPerKey ELSE EmptyBag

-----------------------------------------------------------------------------
(* Conditionals *)

IsIf(n) == FirstWord(clean.elided[n]) \in {"#if", "#ifdef", "#ifndef"}
IsElse(n) == FirstWord(clean.elided[n]) \in {"#else", "#elif"}
IsEndif(n) == FirstWord(clean.elided[n]) = "#endif"

\* The conditionals opened and not closed again by the lines of a range.
Balance(ns) == Cardinality({n \in ns : IsIf(n)}) - Cardinality({n \in ns : IsEndif(n)})

\* The conditional that begins at line i has not ended with line k.
OpenAt(i, k) == IsIf(i) /\ \A m \in (i + 1)..k : Balance((i + 1)..m) >= 0

\* Line k is in a branch that is not the first one of a conditional.
InLaterBranch(k) ==
    \E i \in 1..k, j \in 1..k :
        /\ i < j /\ IsElse(j) /\ OpenAt(i, j) /\ Balance((i + 1)..j) = 0
        /\ OpenAt(i, k)

\* The open blocks after each line up to the last one, without the lines skipped.
StacksWithout(skipped, elided, raw_lines, last) ==
    LET after[n \in 0..last] ==
            IF n = 0 THEN <<>>
            ELSE IF n \in skipped THEN after[n - 1]
            ELSE UpdateStack(after[n - 1], elided, raw_lines, n).stack
    IN  after

\* The open blocks after each line of the text without the lines of later branches.
FirstBranchStack ==
    StacksWithout({n \in 1..Len(lines) : InLaterBranch(n)}, clean.elided, clean.raw_lines, Len(lines))

\* Outside of later branches, the open blocks are those of the text without these branches,
\* however conditionals are nested and whatever braces their branches open and close
\* (UpdatePreprocessor saves and restores the stack).
NestingFollowsFirstBranch ==
    pc = "lines" /\ linenum > 1 /\ ~InLaterBranch(linenum - 1) =>
        stack = FirstBranchStack[linenum - 1]

\* Lines m < n are in different branches of one conditional, which has no other one inside.
Exclusive(m, n) ==
    /\ \E j \in m..n : IsElse(j)
    /\ \A j \in (m + 1)..(n - 1) : ~IsIf(j) /\ ~IsEndif(j)

\* The text has inline assembly, which is not looked at.
HasAsm == "asm" \in UNION {ToSet(lines[n]) : n \in DOMAIN lines}

\* An include is never held against one in another branch of the same conditional: no header
\* of such a branch is on the lists that FindHeader searches.
NoFalseDuplicates ==
    pc = "lines" /\ linenum <= Len(lines) /\ ~HasAsm /\ IsInclude(clean.elided[linenum]) =>
        \A i \in DOMAIN include_list : \A j \in DOMAIN include_list[i] :
            ~Exclusive(include_list[i][j].line, linenum)

-----------------------------------------------------------------------------
(* Functions *)

\* The line begins a function with a body, or ends one.
BeginsBody(n) == StartsFunction(clean.lines[n]) /\ HasBody(clean.lines, n)
EndsBody(n) == ~StartsFunction(clean.lines[n]) /\ EndsFunction(clean.lines[n])

IsBody(b, e) ==
    /\ BeginsBody(b) /\ EndsBody(e)
    /\ \A n \in (b + 1)..(e - 1) : ~BeginsBody(n) /\ ~EndsBody(n)

BodyLength(b, e) ==
    Cardinality({n \in (b + 1)..(e - 1) : ~BlankLine(clean.lines[n]) /\ ~StartsFunction(clean.lines[n])})

\* At verbosity v a function is reported, and with a confidence that lets the error through,
\* exactly when it has more lines than the trigger times 2^v: the logarithm that gives the
\* confidence and the power that gives the limit agree at every boundary, and nothing of the
\* function before is counted.
OverlongFunctionsReported ==
    pc = "finish" /\ ~HasAsm =>
        \A b, e \in DOMAIN lines : b < e /\ IsBody(b, e) =>
            LET trigger == IF FunctionName(clean.lines[b]) \in TestNames THEN TestTrigger ELSE NormalTrigger
            IN BodyLength(b, e) > trigger * 2^verbose_level
                  <=> \E x \in ToSet(raised) :
                         x.line = e /\ x.category = "readability/fn_size" /\ x.confidence >= verbose_level

-----------------------------------------------------------------------------
\* The run ends: the search for configuration files and the loops over files and lines come to
\* an end for every input.
LintTerminates == <>(pc = "done")
=============================================================================
