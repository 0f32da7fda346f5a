------------------------------- MODULE MCLint -------------------------------
(***************************************************************************)
(* Inputs for the linter: families of small texts, of pairs of files, of   *)
(* configuration files and of command lines, one for each part of it.      *)
(* Limits are scaled down: lines of more than 5 tokens are too long, and   *)
(* functions of more than 2 lines (3 in a test), namespaces of 3 lines     *)
(* need a comment.                                                         *)
(***************************************************************************)
EXTENDS LintProperties

-----------------------------------------------------------------------------
(* Constants *)

Path(dir, base, ext) == [dir |-> dir, base |-> base, ext |-> ext]

Header(path, system, cpp, thirdparty, rank) ==
    [path |-> path, system |-> system, cpp |-> cpp, thirdparty |-> thirdparty, rank |-> rank,
     cxx11 |-> path.base = <<"thread">>]

TheHeaders ==
    "x/a.h"  :> Header(Path(<<"x">>, <<"a">>, "h"), FALSE, FALSE, FALSE, 6) @@
    "x/a-inl.h" :> Header(Path(<<"x">>, <<"a", "inl">>, "h"), FALSE, FALSE, FALSE, 6) @@
    "b.h"    :> Header(Path(<<>>, <<"b">>, "h"), FALSE, FALSE, FALSE, 1) @@
    "y/c.cc" :> Header(Path(<<"y">>, <<"c">>, "cc"), FALSE, FALSE, FALSE, 7) @@
    "lua.h"  :> Header(Path(<<>>, <<"lua">>, "h"), FALSE, FALSE, TRUE, 2) @@
    "stdio.h" :> Header(Path(<<>>, <<"stdio">>, "h"), TRUE, FALSE, FALSE, 3) @@
    "vector" :> Header(Path(<<>>, <<"vector">>, ""), TRUE, TRUE, FALSE, 5) @@
    "thread" :> Header(Path(<<>>, <<"thread">>, ""), TRUE, TRUE, FALSE, 4)

SourcePath == Path(<<"x">>, <<"a">>, "cc")
HeaderPath == Path(<<"x">>, <<"a">>, "h")
TestPath == Path(<<"x">>, <<"a", "test">>, "cc")

TheTargets == {SourcePath, HeaderPath, TestPath}

TheCategories ==
    {"build/c++11", "build/class", "build/header_guard", "build/include", "build/include_alpha",
     "build/include_order", "build/include_what_you_use", "build/namespaces", "legal/copyright",
     "readability/casting", "readability/constructors", "readability/fn_size",
     "readability/multiline_comment", "readability/multiline_string", "readability/namespace",
     "readability/nolint", "readability/nul", "readability/utf8", "runtime/indentation_namespace",
     "runtime/int", "whitespace/end_of_line", "whitespace/ending_newline", "whitespace/indent",
     "whitespace/line_length", "whitespace/newline", "whitespace/tab"}

TheDefaultFilters == <<[sign |-> "-", prefix |-> "build/include_alpha"]>>

TheNolintComments ==
    "NOLINT" :> [next |-> FALSE, category |-> "all"] @@
    "NOLINT(build/header_guard)" :> [next |-> FALSE, category |-> "build/header_guard"] @@
    "NOLINT(runtime/int)" :> [next |-> FALSE, category |-> "runtime/int"] @@
    "NOLINTNEXTLINE(readability/nolint)" :> [next |-> TRUE, category |-> "readability/nolint"] @@
    "NOLINTNEXTLINE(runtime/int)" :> [next |-> TRUE, category |-> "runtime/int"] @@
    "NOLINT(readability/streams)" :> [next |-> FALSE, category |-> "readability/streams"] @@
    "NOLINT(misspelt)" :> [next |-> FALSE, category |-> "misspelt"]

TheGuards ==
    "X_A_H_"  :> [name |-> <<"x", "/", "a">>, extra |-> FALSE] @@
    "X_A_H__" :> [name |-> <<"x", "/", "a">>, extra |-> TRUE] @@
    "A_H_"    :> [name |-> <<"a">>, extra |-> FALSE]

TheNeededFor == "vector<" :> "vector"

-----------------------------------------------------------------------------
(* Building blocks *)

\* Files with one of the paths and one of the texts, which end with a newline.
Files(paths, texts) ==
    [path : paths, lines : {Append(t, <<>>) : t \in texts},
     crlf : {{}}, readable : {TRUE}]

Opt(name, value) == [name |-> name, value |-> value, ok |-> TRUE]

BadOpt(name) == [name |-> name, value |-> "", ok |-> FALSE]

Filter(sign, prefix) == [sign |-> sign, prefix |-> prefix]

\* Without the copyright, which no line of most families has.
Usual == <<Opt("filter", <<Filter("-", "legal"), Filter("+", "build/include_alpha")>>)>>

Verbose(levels) == {Append(Usual, Opt("verbose", v)) : v \in levels}

NoConfigs == {<<>> :> <<>>}

NoDisk == "x/a-inl.h" :> {}

\* The linter called for one file.
One(options, files) ==
    [args : [options : options, files : {<<"one">>}], files : [{"one"} -> files],
     configs : NoConfigs, disk : {NoDisk}]

Texts(n, tokenLines) == [1..n -> tokenLines]

-----------------------------------------------------------------------------
(* Families *)

\* Includes and conditionals.
IncludeLines ==
    {<<"#include", h>> : h \in {"x/a.h", "b.h", "stdio.h", "vector"}}
    \cup {<<"#if">>, <<"#else">>, <<"#endif">>}

IncludeWorlds == One({Usual}, Files({SourcePath}, Texts(4, IncludeLines)))

\* Headers of the file's own module, and the headers that code needs.
ModuleLines ==
    {<<"#include", h>> : h \in {"x/a.h", "x/a-inl.h", "y/c.cc", "lua.h", "thread"}}
    \cup {<<"vector<", "x", ">">>, <<>>}

ModuleWorlds ==
    [args : [options : {Usual}, files : {<<"one">>}],
     files : [{"one"} -> Files(TheTargets, Texts(3, ModuleLines))], configs : NoConfigs,
     disk : {NoDisk, "x/a.h" :> {"vector"}, "x/a.h" :> {} @@ "x/a-inl.h" :> {"vector"}}]

\* Blocks, without and with conditionals, and inline assembly.
NestingLines ==
    {<<"namespace", "N", "{">>, <<"template", "<", "class", "T", ">", "class", "C", "{">>,
     <<" ", "class", "D", ";">>, <<" ", "public", ":">>, <<"}", "//", "namespace", "N">>, <<"}", ";">>,
     <<"DISALLOW", ";">>, <<"f", "(", "struct", "D">>, <<")", ";">>}

ConditionalLines == {<<"{">>, <<"#if">>, <<"#else">>, <<"#endif">>}

ConditionalTexts == Texts(6, ConditionalLines) \cup Texts(5, ConditionalLines \cup {<<"}">>})

AsmLines == {<<"f", "(", ")", "{">>, <<"asm", "(">>, <<"asm", "{">>, <<"long", ")">>, <<"}">>}

NestingWorlds == One({Usual}, Files({SourcePath}, Texts(4, NestingLines)))
ConditionalWorlds == One({Usual}, Files({SourcePath}, ConditionalTexts))
AsmWorlds == One({Usual}, Files({SourcePath}, Texts(4, AsmLines)))

\* Functions of many lines, and heads of functions.
BodyLines == {<<"f", "(", ")", "{">>, <<" ", "x", ";">>, <<"}">>}

BodyTexts == {t \in Texts(7, BodyLines \cup {<<"TEST", "(", ")", "{">>}) :
                  t[1] # <<"}">> /\ \A i \in 2..7 : t[i] \in BodyLines}

HeadLines == {<<"f", "(">>, <<"TEST", "(", ")", "{">>, <<"M", "(", ")", "{">>, <<"g", "(", ")", ";">>,
              <<" ", "x", ";">>, <<"//", "x">>, <<"}">>}

BodyWorlds == One(Verbose({0, 1}), Files({SourcePath}, BodyTexts))
HeadWorlds == One(Verbose({0}), Files({SourcePath}, Texts(4, HeadLines)))

\* Two files with suppressions.
SuppressionLines ==
    {<<"long", "//", "NOLINT">>, <<"long", "//", "NOLINT(runtime/int)">>, <<"long">>,
     <<"TAB", "//", "NOLINTNEXTLINE(runtime/int)">>, <<"long", "//", "NOLINT(misspelt)">>,
     <<"TAB", "//", "NOLINT(readability/streams)">>, <<"//", "LINT_KERNEL_FILE">>}

SuppressionWorlds ==
    [args : [options : {<<Opt("counting", c)>> : c \in {"total", "toplevel", "detailed"}},
             files : {<<"one", "two">>}],
     files : {"one" :> f @@ "two" :> g :
                 f \in Files({SourcePath}, Texts(1, SuppressionLines) \cup {<< <<"/*">>, <<"NOLINT", "*/">> >>}),
                 g \in Files({SourcePath}, Texts(2, SuppressionLines))},
     configs : NoConfigs, disk : {NoDisk}]

\* Header guards.
GuardTexts ==
    {<<a, b, c>> : a \in {<<"#ifndef", "X_A_H_">>, <<"#ifndef", "X_A_H__", "//", "NOLINT">>,
                          <<"#ifndef", "A_H_", "//", "NOLINTNEXTLINE(runtime/int)">>, <<"#if">>},
                   b \in {<<"#define", "X_A_H_">>, <<"#define", "X_A_H__">>, <<"#define", "A_H_">>,
                          <<"#define", "A_H_", "//", "NOLINTNEXTLINE(readability/nolint)">>,
                          <<"long", "//", "NOLINT(build/header_guard)">>},
                   c \in {<<"#endif", "//", "X_A_H_">>, <<"#endif", "/*", "X_A_H_", "*/">>,
                          <<"#endif", "//", "X_A_H__", "NOLINT(misspelt)">>, <<"#endif", "//", "NOLINT">>,
                          <<"#endif">>, <<"#endif", "/*", "X_A_H__", "*/">>, <<>>}}

GuardWorlds ==
    One({Usual, Append(Usual, Opt("root", <<"x">>)), <<Opt("verbose", 0)>>}, Files({HeaderPath}, GuardTexts))

\* Characters, comments, strings and the ends of lines.
CharacterLines ==
    {<<"/*", "NUL">>, <<"UFFFD", "*/">>, <<"NUL", "\"">>, <<"//", "Copyright">>, <<"R\"(", ")\"", "long">>,
     <<"a", "a", ";", "a", "a", ";", " ">>, <<" ", "a", "=">>}

CharacterWorlds ==
    One({<<>>}, [path : {SourcePath}, crlf : {{}, {2}, {1, 2, 3}},
                 lines : Texts(3, CharacterLines) \cup {Append(t, <<>>) : t \in Texts(3, CharacterLines)}, readable : {TRUE}])

\* Configuration files in a directory and the one above, for files in both.
Configs ==
    {<<>>,
     <<Opt("linelength", 2), Opt("root", <<"x">>)>>,
     <<Opt("linelength", 4), Opt("filter", <<Filter("-", "whitespace"), Filter("+", "whitespace/tab")>>)>>,
     <<Opt("set noparent", ""), Opt("filter", <<Filter("+", "whitespace")>>)>>,
     <<Opt("filter", <<Filter("-", "whitespace/tab")>>), Opt("filter", <<Filter("+", "whitespace/tab")>>)>>,
     <<Opt("exclude_files", "two"), Opt("filter", <<Filter("-", "legal")>>)>>,
     <<Opt("linelength", 3), Opt("exclude_files", "x")>>,
     <<Opt("filter", <<Filter("none", "legal")>>)>>,
     <<Opt("unreadable", "")>>}

ConfigFiles ==
    {"one" :> f @@ "two" :> [g EXCEPT !.readable = r] :
        f \in Files({SourcePath}, {<< <<"TAB", "a", "a">> >>}),
        g \in Files({Path(<<>>, <<"b">>, "c")}, {<< <<"TAB">> >>}), r \in BOOLEAN}

ConfigWorlds ==
    [args : [options : {<<>>, <<Opt("filter", <<Filter("-", "whitespace")>>), Opt("linelength", 5)>>,
                        <<Opt("extensions", {"c"})>>},
             files : {<<"one", "two">>, <<"two", "one">>, <<"one", "one">>}],
     files : ConfigFiles,
     configs : {<<"x">> :> below @@ <<>> :> above : below \in Configs, above \in Configs},
     disk : {NoDisk}]

\* Command lines; the file is two directories below the only configuration file.
OptionChoices ==
    {Opt("help", ""), Opt("filter", <<>>), Opt("filter", <<Filter("none", "x")>>), Opt("verbose", 5),
     BadOpt("counting"), BadOpt("unknown")}

ArgumentWorlds ==
    [args : [options : {<<o, p>> : o \in OptionChoices, p \in OptionChoices}, files : {<<>>, <<"one">>}],
     files : [{"one"} -> Files({Path(<<"z", "x">>, <<"a">>, "cc")}, {<< <<"long">> >>})],
     configs : NoConfigs, disk : {NoDisk}]

TheWorlds ==
    <<IncludeWorlds, ModuleWorlds, NestingWorlds, ConditionalWorlds, AsmWorlds, BodyWorlds, HeadWorlds,
      SuppressionWorlds, GuardWorlds, CharacterWorlds, ConfigWorlds, ArgumentWorlds>>

OnlyConfigWorlds == <<ConfigWorlds>>
=============================================================================
