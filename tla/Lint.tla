-------------------------------- MODULE Lint --------------------------------
(***************************************************************************)
(* A run of the linter (cpplint.py) over the files of its command line.    *)
(* It composes the components that keep state while a file is linted:      *)
(* NestingState, IncludeState and FunctionState, new for each file, and    *)
(* LintErrors, whose filters and counts outlive it.                        *)
(*                                                                         *)
(* The run is sequential; pc is the stage it is at.  What it reads is one  *)
(* record, world: the arguments, the files, and the CPPLINT.cfg files of   *)
(* their directories.  A line is a sequence of tokens and the width of a   *)
(* line is their number.  The checks that only match one line against      *)
(* regular expressions are represented by two of them (tabs and C types).  *)
(***************************************************************************)
EXTENDS LintErrors, IncludeState, NestingState, FunctionState

CONSTANTS
    Worlds,             \* the inputs, a sequence of sets of records [args, files, configs, disk]
    DefaultLineLength,  \* 80
    NeededFor,          \* token |-> the header its use requires
    Guards              \* header guard |-> [name, extra]: its path, and a second underscore

Filters == [sign : {"+", "-", "none"}, prefix : STRING]

\* Options are read into a list, a filter into a list of filters; verbosity is 0-5 and the
\* length of a line a number.
IsOptions(options) ==
    /\ options \in Seq(ToSet(options))
    /\ \A i \in DOMAIN options :
          /\ options[i].name = "filter" => options[i].value \in Seq(Filters)
          /\ options[i].name = "verbose" => options[i].value \in 0..5
          /\ options[i].name = "linelength" => options[i].value \in Int

ASSUME NeededForAssumption == IsFiniteSet(DOMAIN NeededFor)

ASSUME WorldsAssumption ==
    /\ DefaultFilters \in Seq(Filters) /\ ValidFilters(DefaultFilters) /\ DefaultLineLength \in Nat
    /\ \A i \in DOMAIN Worlds : \A w \in Worlds[i] :
          /\ IsOptions(w.args.options) /\ w.args.files \in Seq(DOMAIN w.files)
          /\ \A f \in DOMAIN w.files :
                w.files[f].path.dir \in Seq(STRING) /\ w.files[f].lines \in Seq(Seq(STRING))
          /\ \A d \in DOMAIN w.configs : IsOptions(w.configs[d])

VARIABLES
    world, pc,
    todo,               \* files still to be linted; the first one is linted now
    level,              \* directory whose CPPLINT.cfg is read next, as a prefix length
    cfg_filters,        \* the filters found so far, per option
    line_length, root, valid_extensions,
    lines, clean,       \* the file's lines and their cleansed copies
    linenum,            \* the line that is processed next
    exit_code           \* of the process; 0 until it ends

globals == <<line_length, root, valid_extensions>>
fileVars == <<lines, clean, linenum>>
componentVars == <<target, includeVars, nestingVars, functionVars>>
inputVars == <<world, todo, level, cfg_filters, globals, exit_code, settings>>
vars == <<world, pc, todo, level, cfg_filters, globals, fileVars, exit_code,
          settings, suppressions, counts, componentVars>>

TheFile == world.files[todo[1]]

\* Its place on the command line.
ThisFile == Len(world.args.files) - Len(todo) + 1

NoText == CleansedLines(<<>>)

Init ==
    /\ \E i \in DOMAIN Worlds : world \in Worlds[i]
    /\ pc = "start" /\ todo = <<>> /\ level = 0 /\ cfg_filters = <<>>
    /\ line_length = DefaultLineLength /\ root = <<>> /\ valid_extensions = {"cc", "h", "cpp", "cu", "cuh"}
    /\ lines = <<>> /\ clean = NoText /\ linenum = 1 /\ exit_code = 0
    /\ target = [dir |-> <<>>, base |-> <<>>, ext |-> ""]
    /\ InitErrors /\ InitInclude /\ InitNesting /\ InitFunction

-----------------------------------------------------------------------------
(* The command line *)

\* The value of the last option of that name, or the default.
Option(name, default) ==
    LET i == SelectLastInSeq(world.args.options, LAMBDA o : o.name = name)
    IN IF i = 0 THEN default ELSE world.args.options[i].value

OptionNames ==
    {"help", "output", "verbose", "counting", "filter", "root", "linelength", "extensions"}

\* getopt refuses an unknown option before any option is looked at.
InvalidArguments ==
    \E i \in DOMAIN world.args.options : world.args.options[i].name \notin OptionNames

\* Options that end the run: PrintUsage for one that is unknown or has a bad value (ok is
\* FALSE), PrintCategories for an empty filter.
ListsCategories(o) == o.name = "filter" /\ o.value = <<>>

Stops(o) == o.name \notin OptionNames \/ ~o.ok \/ o.name = "help" \/ ListsCategories(o)

FirstStop == SelectInSeq(world.args.options, Stops)

UsageStop == FirstStop > 0 \/ world.args.files = <<>>

Exit(code) == pc' = "done" /\ exit_code' = code

ParseArguments ==
    /\ pc = "start" /\ ~UsageStop
    /\ ValidFilters(Option("filter", <<>>))
    /\ verbose_level' = Option("verbose", verbose_level)
    /\ SetFilters(Option("filter", <<>>))
    /\ counting' = Option("counting", "")
    /\ line_length' = Option("linelength", line_length)
    /\ root' = Option("root", root)
    /\ valid_extensions' = Option("extensions", valid_extensions)
    /\ todo' = world.args.files
    /\ pc' = "file"
    /\ UNCHANGED <<world, level, cfg_filters, fileVars, exit_code, filters_backup, suppressions,
                   counts, componentVars>>

\* Also the exception for a filter without a sign.
RefuseArguments ==
    /\ pc = "start" /\ (UsageStop \/ ~ValidFilters(Option("filter", <<>>)))
    /\ Exit(IF /\ ~InvalidArguments /\ FirstStop > 0
               /\ ListsCategories(world.args.options[FirstStop]) THEN 0 ELSE 1)
    /\ UNCHANGED <<world, todo, level, cfg_filters, globals, fileVars, settings, suppressions,
                   counts, componentVars>>

-----------------------------------------------------------------------------
(* ProcessFile: configuration files *)

StartFile ==
    /\ pc = "file" /\ todo # <<>>
    /\ BackupFilters
    /\ level' = Len(TheFile.path.dir) /\ cfg_filters' = <<>>
    /\ pc' = "config"
    /\ UNCHANGED <<world, todo, globals, fileVars, exit_code, filters, verbose_level, counting,
                   suppressions, counts, componentVars>>

HasConfig == SubSeq(TheFile.path.dir, 1, level) \in DOMAIN world.configs

\* The component of the file's path below the directory.
Component ==
    IF level = Len(TheFile.path.dir) THEN todo[1] ELSE TheFile.path.dir[level + 1]

IsExclusion(o) == o.name = "exclude_files" /\ o.value = Component

\* The options of the directory's CPPLINT.cfg, up to one that excludes the file.
Config ==
    LET all == world.configs[SubSeq(TheFile.path.dir, 1, level)]
        i   == SelectInSeq(all, IsExclusion)
    IN IF i = 0 THEN all ELSE SubSeq(all, 1, i)

Excludes == \E i \in DOMAIN Config : IsExclusion(Config[i])

\* The last value the configuration file gives to an option, or the current one.
Configured(name, current) ==
    LET i == SelectLastInSeq(Config, LAMBDA o : o.name = name)
    IN IF i = 0 THEN current ELSE Config[i].value

\* "unreadable" stands for a file that cannot be opened.
NoParent == \E i \in DOMAIN Config : Config[i].name \in {"set noparent", "unreadable"}

ConfigFilters ==
    FlattenSeq([i \in DOMAIN Config |->
                    IF Config[i].name = "filter" THEN <<Config[i].value>> ELSE <<>>])

\* Going on in the directory above, if there is one.
GoUp(stop) ==
    IF level = 0 \/ stop THEN pc' = "filters" /\ UNCHANGED level
    ELSE level' = level - 1 /\ UNCHANGED pc

ReadConfig ==
    /\ pc = "config" /\ HasConfig /\ ~Excludes
    /\ line_length' = Configured("linelength", line_length)
    /\ root' = Configured("root", root)
    /\ cfg_filters' = cfg_filters \o ConfigFilters
    /\ GoUp(NoParent)
    /\ UNCHANGED <<world, todo, valid_extensions, fileVars, exit_code, settings, suppressions,
                   counts, componentVars>>

\* Variant: the search goes on in the same directory.
Mutant_SkipDirectory == pc = "config" /\ ~HasConfig /\ UNCHANGED vars

SkipDirectory ==
    /\ pc = "config" /\ ~HasConfig
    /\ GoUp(FALSE)
    /\ UNCHANGED <<world, todo, cfg_filters, globals, fileVars, exit_code, settings, suppressions,
                   counts, componentVars>>

EndFile == todo' = Tail(todo) /\ pc' = "file"

\* The file is excluded by a CPPLINT.cfg on its path.
IgnoreExcluded ==
    /\ pc = "config" /\ HasConfig /\ Excludes
    /\ line_length' = Configured("linelength", line_length)
    /\ root' = Configured("root", root)
    /\ RestoreFilters /\ EndFile
    /\ UNCHANGED <<world, level, cfg_filters, valid_extensions, fileVars, exit_code,
                   filters_backup, verbose_level, counting, suppressions, counts, componentVars>>

\* Variant: the filters are added in the order in which they were found.
Mutant_ConfigOverride(found) == FlattenSeq(found)

\* The filters of directories further up come first, so that they have the least priority.
ConfigOverride(found) == FlattenSeq(Reverse(found))

ApplyFilters ==
    /\ pc = "filters" /\ ValidFilters(ConfigOverride(cfg_filters))
    /\ AddFilters(ConfigOverride(cfg_filters))
    /\ pc' = "read"
    /\ UNCHANGED <<world, todo, level, cfg_filters, globals, fileVars, exit_code,
                   filters_backup, verbose_level, counting, suppressions, counts, componentVars>>

\* A filter without a sign ends the run with an exception.
RefuseFilters ==
    /\ pc = "filters" /\ ~ValidFilters(ConfigOverride(cfg_filters))
    /\ Exit(1)
    /\ UNCHANGED <<world, todo, level, cfg_filters, globals, fileVars, settings, suppressions,
                   counts, componentVars>>

-----------------------------------------------------------------------------
(* ProcessFile and ProcessFileData: the text *)

\* Variant: an early return forgets to restore the filters.
Mutant_SkipFile ==
    /\ pc = "read" /\ (~TheFile.readable \/ TheFile.path.ext \notin valid_extensions)
    /\ EndFile
    /\ UNCHANGED <<world, level, cfg_filters, globals, fileVars, exit_code,
                   settings, suppressions, counts, componentVars>>

\* Unreadable files, and files whose extension is not asked for.
SkipFile ==
    /\ pc = "read" /\ (~TheFile.readable \/ TheFile.path.ext \notin valid_extensions)
    /\ RestoreFilters /\ EndFile
    /\ UNCHANGED <<world, level, cfg_filters, globals, fileVars, exit_code,
                   filters_backup, verbose_level, counting, suppressions, counts, componentVars>>

\* New components for the file; the suppressions of the last one are forgotten.
BeginFileData ==
    /\ pc = "read" /\ TheFile.readable /\ TheFile.path.ext \in valid_extensions
    /\ lines' = TheFile.lines /\ clean' = NoText /\ linenum' = 1
    /\ target' = TheFile.path
    /\ include_list' = << <<>> >> /\ section' = INITIAL_SECTION /\ last_header' = 0
    /\ stack' = <<>> /\ pp_stack' = <<>> /\ previous_stack_top' = Innermost(<<>>)
    /\ in_a_function' = FALSE /\ lines_in_function' = 0 /\ current_function' = ""
    /\ ResetNolintSuppressions
    /\ raised' = <<>>
    /\ pc' = "copyright"
    /\ UNCHANGED <<world, todo, level, cfg_filters, globals, exit_code, settings,
                   error_count, errors_by_category, printed>>

CheckForCopyright ==
    /\ pc = "copyright"
    /\ Report(ThisFile,
              ErrIf(\A n \in DOMAIN lines : n <= 10 => "Copyright" \notin ToSet(lines[n]),
                    0, "legal/copyright", 5),
              error_suppressions)
    /\ pc' = "global"
    /\ UNCHANGED <<inputVars, fileVars, suppressions, componentVars>>

ProcessGlobalSuppressions ==
    /\ pc = "global"
    /\ global_error_suppressions' = global_error_suppressions \cup GlobalSuppressions(lines)
    /\ pc' = "comments"
    /\ UNCHANGED <<inputVars, fileVars, error_suppressions, counts, componentVars>>

\* Comments are removed from the lines themselves.
CleanseText ==
    /\ pc = "comments"
    /\ LET removed == RemoveMultiLineComments(lines)
       IN /\ lines' = removed.lines
          /\ clean' = CleansedLines(removed.lines)
          /\ Report(ThisFile,
                    ErrIf(removed.unterminated > 0, removed.unterminated,
                          "readability/multiline_comment", 5),
                    error_suppressions)
    /\ pc' = IF target.ext = "h" THEN "guard" ELSE "lines"
    /\ UNCHANGED <<inputVars, linenum, suppressions, componentVars>>

-----------------------------------------------------------------------------
(* CheckForHeaderGuard *)

\* GetHeaderGuardCPPVariable: the path without the root directory.
GuardVariable ==
    Spelled(IF root # <<>> /\ IsPrefix(root, target.dir)
            THEN SubSeq(target.dir, Len(root) + 1, Len(target.dir)) ELSE target.dir, target.base)

IsGuard(g, extra) ==
    g \in DOMAIN Guards /\ Guards[g].name = GuardVariable /\ Guards[g].extra = extra

GuardLines == clean.lines_without_raw_strings

\* The first line with the directive and an argument, and the argument.
DirectiveLine(d) ==
    SelectInSeq(GuardLines, LAMBDA l : LET w == Words(l) IN Len(w) > 1 /\ w[1] = d)

Argument(d) == Words(GuardLines[DirectiveLine(d)])[2]

\* #endif must begin the line.
EndifLine == SelectLastInSeq(GuardLines, LAMBDA l : l # <<>> /\ l[1] = "#endif")

GuardSuppressed ==
    \E n \in DOMAIN GuardLines : \E i \in 2..Len(GuardLines[n]) :
        GuardLines[n][i] = "NOLINT(build/header_guard)" /\ GuardLines[n][i - 1] = "//"

HasGuard ==
    /\ DirectiveLine("#ifndef") > 0 /\ DirectiveLine("#define") > 0
    /\ Argument("#ifndef") = Argument("#define")

\* NOLINT comments of the lines it reports on are parsed before those lines are reached.
CheckHeaderGuardIfndef ==
    /\ pc = "guard"
    /\ LET n     == DirectiveLine("#ifndef")
           style == ~GuardSuppressed /\ HasGuard /\ ~IsGuard(Argument("#ifndef"), FALSE)
           supp  == IF style THEN error_suppressions \cup NolintSuppressions(GuardLines[n], n)
                    ELSE error_suppressions
       IN /\ error_suppressions' = supp
          /\ Report(ThisFile,
                    ErrIf(~GuardSuppressed /\ ~HasGuard, 0, "build/header_guard", 5)
                    \o (IF style THEN NolintErrors(GuardLines[n], n) ELSE <<>>)
                    \o ErrIf(style, n, "build/header_guard",
                             IF IsGuard(Argument("#ifndef"), TRUE) THEN 0 ELSE 5),
                    supp)
    /\ pc' = IF ~GuardSuppressed /\ HasGuard THEN "endif" ELSE "lines"
    /\ UNCHANGED <<inputVars, fileVars, global_error_suppressions, componentVars>>

\* The confidence of the error about the comment of #endif; 6 when there is none.
EndifConfidence ==
    LET w == IF EndifLine = 0 THEN <<>> ELSE Words(GuardLines[EndifLine])
        slashes == \E n \in DOMAIN GuardLines : InLineComment(GuardLines[n])
        Comment(mark, extra) == Len(w) > 2 /\ w[2] = mark /\ IsGuard(w[3], extra)
    IN CASE Comment("//", FALSE) \/ (~slashes /\ Comment("/*", FALSE)) -> 6
         [] Comment("//", TRUE) \/ (~slashes /\ Comment("/*", TRUE))   -> 0
         [] OTHER                                                      -> 5

CheckHeaderGuardEndif ==
    /\ pc = "endif"
    /\ LET line == IF EndifLine = 0 THEN <<>> ELSE GuardLines[EndifLine]
           supp == error_suppressions \cup NolintSuppressions(line, EndifLine)
       IN /\ error_suppressions' = supp
          /\ Report(ThisFile,
                    NolintErrors(line, EndifLine)
                    \o ErrIf(EndifConfidence < 6, EndifLine, "build/header_guard", EndifConfidence),
                    supp)
    /\ pc' = "lines"
    /\ UNCHANGED <<inputVars, fileVars, global_error_suppressions, componentVars>>

-----------------------------------------------------------------------------
(* ProcessLine *)

IsInclude(line) == FirstWord(line) = "#include"

HeaderOf(line) == line[GetIndentLevel(line) + 2]

\* GetPreviousNonBlankLine
PreviousCode(n) ==
    LET i == SelectLastInSubSeq(clean.elided, 1, n - 1, LAMBDA l : ~IsBlank(l))
    IN IF i = 0 THEN <<>> ELSE clean.elided[i]

\* Part of CheckStyle; continuation lines may be indented in any way.
StyleErrors(n, blocks) ==
    LET line   == clean.lines_without_raw_strings[n]
        code   == clean.elided[n]
        prev   == IF n = 1 THEN <<"//">> ELSE clean.lines_without_raw_strings[n - 1]
        indent == GetIndentLevel(line)
        words  == Words(line)
        name   == IF words # <<>> /\ words[1] = "#endif" THEN 3 ELSE 2
        guard  == /\ target.ext = "h" /\ Len(words) >= name
                  /\ words[1] \in {"#ifndef", "#define"} \/ SubSeq(words, 1, 2) = <<"#endif", "//">>
                  /\ IsGuard(words[name], FALSE) \/ IsGuard(words[name], TRUE)
        single == Len(words) <= 2 /\ words # <<>> /\ words[1] = "//"
    IN ErrIf("TAB" \in ToSet(line), n, "whitespace/tab", 1)
       \o ErrIf(/\ indent \in {1, 3}
                /\ prev = <<>> \/ Last(prev) \notin {Quote, ",", "=", ">", "<"}
                /\ ~(Len(Words(code)) = 2 /\ Last(code) = ":")
                /\ ~(clean.raw_lines[n] # line /\ SubSeq(words, 1, 2) = <<Quote, Quote>>),
                n, "whitespace/indent", 3)
       \o ErrIf(line # <<>> /\ Last(line) = " ", n, "whitespace/end_of_line", 4)
       \o ErrIf(/\ line # <<>> /\ line[1] # "#include" /\ ~guard /\ ~single
                /\ Len(line) > line_length,
                n, "whitespace/line_length", 2)
       \o ErrIf(/\ Count(code, ";") > 1 /\ "for" \notin ToSet(code)
                /\ "for" \notin ToSet(PreviousCode(n)) \/ ";" \in ToSet(PreviousCode(n))
                /\ ~(ToSet(code) \cap {"case", "default"} # {} /\ "break" \in ToSet(code)),
                n, "whitespace/newline", 0)
       \o CheckAccess(blocks, code, n)

FollowsInclude(n) == n > 1 /\ IsInclude(clean.elided[n - 1])

LanguageErrors(n) ==
    LET line  == clean.elided[n]
        found == IncludeLineErrors(HeaderOf(line), FollowsInclude(n))
    IN IF IsInclude(line) THEN [i \in DOMAIN found |-> Err(n, found[i], 4)]
       ELSE ErrIf("long" \in ToSet(line), n, "runtime/int", 4)

\* The errors of a line after which the nesting is as given, in order; inline assembly is not
\* looked at any further.
LineErrors(n, after) ==
    LET multi == CheckForMultilineCommentsAndStrings(clean.elided[n])
    IN NolintErrors(clean.raw_lines[n], n)
       \o after.errors
       \o CheckForNamespaceIndentation(after.stack, Innermost(stack), clean.elided[n], n)
       \o (IF InAsmBlock(after.stack) THEN <<>>
           ELSE FunctionErrors(clean.lines, n, verbose_level)
                \o ErrIf("readability/multiline_comment" \in multi, n, "readability/multiline_comment", 5)
                \o ErrIf("readability/multiline_string" \in multi, n, "readability/multiline_string", 5)
                \o StyleErrors(n, after.stack)
                \o LanguageErrors(n))
       \o ErrIf(IsInclude(clean.elided[n]) /\ Headers[HeaderOf(clean.elided[n])].cxx11,
                n, "build/c++11", 5)

\* CheckLanguage's effect on the includes.
UpdateIncludes(line, n) ==
    CASE IsInclude(line)                  -> CheckIncludeLine(HeaderOf(line), n)
      [] FirstWord(line) \in Directives   -> ResetSection(FirstWord(line))
      [] OTHER                            -> UNCHANGED includeVars

\* The line, given the nesting after it and the suppressions with those of its comments.
CheckLine(n, after, supp) ==
    /\ error_suppressions' = supp
    /\ UpdateNesting(after)
    /\ IF InAsmBlock(after.stack)
       THEN UNCHANGED <<functionVars, includeVars>>
       ELSE CheckForFunctionLengths(clean.lines, n) /\ UpdateIncludes(clean.elided[n], n)
    /\ Report(ThisFile, LineErrors(n, after), supp)

ProcessLine ==
    /\ pc = "lines" /\ linenum <= Len(lines)
    /\ CheckLine(linenum, Updated(clean.elided, clean.raw_lines, linenum),
                 error_suppressions \cup NolintSuppressions(clean.raw_lines[linenum], linenum))
    /\ linenum' = linenum + 1
    /\ UNCHANGED <<inputVars, pc, lines, clean, global_error_suppressions, target>>

-----------------------------------------------------------------------------
(* The end of a file and of the run *)

\* The headers that code needs, each with the last line that needs it.
Required ==
    LET Uses(n) == IF clean.elided[n] # <<>> /\ clean.elided[n][1] \in Directives \cup {"#include", "#define"}
                   THEN {} ELSE {NeededFor[t] : t \in ToSet(clean.elided[n]) \cap DOMAIN NeededFor}
    IN [h \in UNION {Uses(n) : n \in DOMAIN lines} |->
           CHOOSE n \in DOMAIN lines : h \in Uses(n) /\ \A m \in DOMAIN lines : h \in Uses(m) => m <= n]

IncludeWhatYouUseErrors ==
    LET missing == SetToSeq(MissingIncludes(world.disk, Required))
    IN [i \in DOMAIN missing |-> Err(Required[missing[i]], "build/include_what_you_use", 4)]

OwnHeaderExists == \E h \in DOMAIN world.disk : Headers[h].path = [target EXCEPT !.ext = "h"]

OwnHeaderErrors ==
    ErrIf(MissesOwnHeader(OwnHeaderExists), FirstInclude, "build/include", 5)

\* CheckForBadCharacters works on the lines that RemoveMultiLineComments has changed.
BadCharacterErrors ==
    FlattenSeq([n \in DOMAIN lines |->
        ErrIf("UFFFD" \in ToSet(lines[n]), n, "readability/utf8", 5)
        \o ErrIf("NUL" \in ToSet(lines[n]), n, "readability/nul", 5)])

\* CheckForNewlineAtEOF: the text is split at newlines, so the last line is empty.
NewlineErrors == ErrIf(Last(lines) # <<>>, Len(lines), "whitespace/ending_newline", 5)

EndFileData ==
    /\ pc = "lines" /\ linenum > Len(lines)
    /\ Report(ThisFile,
              IncompleteErrors \o IncludeWhatYouUseErrors \o OwnHeaderErrors
              \o BadCharacterErrors \o NewlineErrors,
              error_suppressions)
    /\ pc' = "finish"
    /\ UNCHANGED <<inputVars, fileVars, suppressions, componentVars>>

\* Carriage returns are reported when only some lines have them.
CarriageReturnErrors ==
    LET split == 1..(Len(lines) - 1)
        crlf  == SetToSeq(TheFile.crlf \cap split)
    IN IF split \subseteq TheFile.crlf THEN <<>>
       ELSE [i \in DOMAIN crlf |-> Err(crlf[i], "whitespace/newline", 1)]

FinishFile ==
    /\ pc = "finish"
    /\ Report(ThisFile, CarriageReturnErrors, error_suppressions)
    /\ RestoreFilters /\ EndFile
    /\ UNCHANGED <<world, level, cfg_filters, globals, fileVars, exit_code, filters_backup,
                   verbose_level, counting, suppressions, componentVars>>

\* main ends with whether an error was counted.
Finish ==
    /\ pc = "file" /\ todo = <<>>
    /\ Exit(IF error_count > 0 THEN 1 ELSE 0)
    /\ UNCHANGED <<world, todo, level, cfg_filters, globals, fileVars, settings, suppressions,
                   counts, componentVars>>

Done == pc = "done" /\ UNCHANGED vars

\* The command line, the configuration files and the choice of files.
Step ==
    \/ ParseArguments \/ RefuseArguments
    \/ StartFile \/ ReadConfig \/ SkipDirectory \/ IgnoreExcluded \/ ApplyFilters \/ RefuseFilters
    \/ SkipFile \/ BeginFileData \/ Finish

\* The text of a file.
TextStep ==
    \/ CheckForCopyright \/ ProcessGlobalSuppressions \/ CleanseText
    \/ CheckHeaderGuardIfndef \/ CheckHeaderGuardEndif
    \/ ProcessLine \/ EndFileData \/ FinishFile

Next == Step \/ TextStep \/ Done

\* What every TextStep does to the control: fairness is stated of this, which is cheap to
\* evaluate.  In these stages one TextStep is always enabled.
TextStages == {"copyright", "global", "comments", "guard", "endif", "lines", "finish"}

Advance ==
    pc \in TextStages /\ pc' \in TextStages \cup {"file"} /\ linenum' \in {linenum, linenum + 1}

\* The linter is one thread that nothing blocks: it goes on as long as it can.
Spec == Init /\ [][Next]_vars /\ WF_vars(Step) /\ WF_<<pc, linenum>>(Advance)
=============================================================================
