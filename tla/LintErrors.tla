----------------------------- MODULE LintErrors -----------------------------
(***************************************************************************)
(* The part of the linter's state (cpplint.py) that decides which of the   *)
(* errors its checks raise are printed and counted: the filters and the    *)
(* verbosity of _CppLintState, and the suppressions that NOLINT comments   *)
(* and the directives for C and kernel files put in force for one file.    *)
(*                                                                         *)
(* A filter is a record [sign, prefix]; sign is "none" where the + or - is *)
(* missing.                                                                *)
(***************************************************************************)
EXTENDS Naturals, Sequences, SequencesExt, ErrorRecords

CONSTANTS
    ErrorCategories,        \* _ERROR_CATEGORIES
    LegacyCategories,       \* _LEGACY_ERROR_CATEGORIES
    DefaultFilters,         \* _DEFAULT_FILTERS
    CSuppressed,            \* _DEFAULT_C_SUPPRESSED_CATEGORIES
    KernelSuppressed,       \* _DEFAULT_KERNEL_SUPPRESSED_CATEGORIES
    NolintComments          \* NOLINT comment |-> [next, category], "all" for no category

\* The categories of the errors that the modelled checks raise.
RaisedCategories ==
    {"build/c++11", "build/class", "build/header_guard", "build/include", "build/include_alpha",
     "build/include_order", "build/include_what_you_use", "build/namespaces", "legal/copyright",
     "readability/constructors", "readability/fn_size", "readability/multiline_comment",
     "readability/multiline_string", "readability/namespace", "readability/nolint",
     "readability/nul", "readability/utf8", "runtime/indentation_namespace", "runtime/int",
     "whitespace/end_of_line", "whitespace/ending_newline", "whitespace/indent",
     "whitespace/line_length", "whitespace/newline", "whitespace/tab"}

\* "If you add a new error message with a new category, add it to the list here!"
ASSUME CategoriesAssumption == RaisedCategories \subseteq ErrorCategories

\* The directives suppress known categories, which are about code, not about a missing copyright.
ASSUME SuppressedAssumption ==
    CSuppressed \cup KernelSuppressed \subseteq ErrorCategories \ {"legal/copyright"}

VARIABLES
    filters, filters_backup,        \* the filters in force; what they were before the file
    verbose_level, counting,
    error_suppressions,             \* pairs <<category or "all", line>>
    global_error_suppressions,      \* categories
    error_count, errors_by_category,
    raised, printed                 \* history: the file's errors; all that were printed

settings == <<filters, filters_backup, verbose_level, counting>>
suppressions == <<error_suppressions, global_error_suppressions>>
counts == <<error_count, errors_by_category, raised, printed>>

InitErrors ==
    /\ filters = DefaultFilters /\ filters_backup = DefaultFilters
    /\ verbose_level = 1 /\ counting = "total"
    /\ error_suppressions = {} /\ global_error_suppressions = {}
    /\ error_count = 0 /\ errors_by_category = EmptyBag
    /\ raised = <<>> /\ printed = <<>>

-----------------------------------------------------------------------------
(* Suppressions *)

\* The first NOLINT comment of a line, or "".
Nolint(raw_line) ==
    LET i == SelectInSeq(raw_line, LAMBDA t : t \in DOMAIN NolintComments)
    IN IF i = 0 THEN "" ELSE raw_line[i]

\* What ParseNolintSuppressions adds for a line, and the error for an unknown category.
NolintSuppressions(raw_line, linenum) ==
    LET comment == Nolint(raw_line)
        nolint  == NolintComments[comment]
    IN IF comment # "" /\ nolint.category \in ErrorCategories \cup {"all"}
       THEN {<<nolint.category, IF nolint.next THEN linenum + 1 ELSE linenum>>} ELSE {}

NolintErrors(raw_line, linenum) ==
    LET comment == Nolint(raw_line)
    IN ErrIf(/\ comment # ""
             /\ NolintComments[comment].category
                    \notin ErrorCategories \cup LegacyCategories \cup {"all"},
             linenum, "readability/nolint", 5)

\* ProcessGlobalSuppresions
GlobalSuppressions(lines) ==
    LET tokens == UNION {ToSet(lines[n]) : n \in DOMAIN lines}
    IN (IF "LINT_C_FILE" \in tokens THEN CSuppressed ELSE {})
       \cup (IF "LINT_KERNEL_FILE" \in tokens THEN KernelSuppressed ELSE {})

\* Variant: the directives of the previous file stay in force.
Mutant_ResetNolintSuppressions == error_suppressions' = {} /\ UNCHANGED global_error_suppressions

ResetNolintSuppressions == error_suppressions' = {} /\ global_error_suppressions' = {}

IsErrorSuppressedByNolint(supp, category, linenum) ==
    \/ category \in global_error_suppressions
    \/ <<category, linenum>> \in supp
    \/ <<"all", linenum>> \in supp

-----------------------------------------------------------------------------
(* Filters: the last one that applies decides. *)

StartsWith(category, prefix) ==
    Len(prefix) <= Len(category) /\ SubSeq(category, 1, Len(prefix)) = prefix

IsFiltered(category) ==
    LET i == SelectLastInSeq(filters, LAMBDA f : StartsWith(category, f.prefix))
    IN i > 0 /\ filters[i].sign = "-"

\* Variant: a filter without a sign is let through.
Mutant_ValidFilters(more) == TRUE

\* Every filter must have a sign, else the linter dies.
ValidFilters(more) == \A i \in DOMAIN more : more[i].sign \in {"+", "-"}

AddFilters(more) == filters' = filters \o more

SetFilters(given) == filters' = DefaultFilters \o given

BackupFilters == filters_backup' = filters

RestoreFilters == filters' = filters_backup

-----------------------------------------------------------------------------
(* Reporting *)

ShouldPrintError(supp, e) ==
    /\ ~IsErrorSuppressedByNolint(supp, e.category, e.line)
    /\ e.confidence >= verbose_level
    /\ ~IsFiltered(e.category)

\* The key under which an error is counted.
TopLevel(category) ==
    LET slash == CHOOSE i \in 1..Len(category) : SubSeq(category, i, i) = "/"
    IN SubSeq(category, 1, slash - 1)

\* Variant: categories are counted in every counting style.
Mutant_CountIn(bag, category) == bag (+) SetToBag({category})

CountIn(bag, category) ==
    CASE counting = "detailed" -> bag (+) SetToBag({category})
      [] counting = "toplevel" -> bag (+) SetToBag({TopLevel(category)})
      [] OTHER                 -> bag

\* The errors of a list that are printed while the suppressions supp are in force.
Shown(errs, supp) ==
    FlattenSeq([i \in DOMAIN errs |-> IF ShouldPrintError(supp, errs[i]) THEN <<errs[i]>> ELSE <<>>])

\* IncrementErrorCount for each of errs in turn.
CountAll(bag, errs) ==
    LET counted[i \in 0..Len(errs)] ==
            IF i = 0 THEN bag ELSE CountIn(counted[i - 1], errs[i].category)
    IN counted[Len(errs)]

\* Error, called for each of errs in turn while the suppressions supp are in force.  The file
\* is given by its place on the command line.
Report(file, errs, supp) ==
    \E all \in {errs} : \E shown \in {Shown(all, supp)} :
       /\ raised' = raised \o all
       /\ printed' = printed \o [i \in DOMAIN shown |-> [file |-> file, error |-> shown[i]]]
       /\ error_count' = error_count + Len(shown)
       /\ errors_by_category' = CountAll(errors_by_category, shown)
=============================================================================
