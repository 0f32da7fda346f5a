---------------------------- MODULE IncludeState ----------------------------
(***************************************************************************)
(* The linter's record of the #include lines of one file (_IncludeState,   *)
(* CheckIncludeLine and the checks at the end of a file in cpplint.py).    *)
(*                                                                         *)
(* A path is a record [dir, base, ext]: dir a sequence of directories,     *)
(* base the sequence of the words that - and _ separate.  A header is a    *)
(* record with its path, whether it is included with <>, whether it is a   *)
(* C++ header, whether it has the name of a third party header, and its    *)
(* rank in alphabetical order (1 or more; 0 is the empty string).          *)
(***************************************************************************)
EXTENDS Integers, Sequences, SequencesExt, FiniteSets

CONSTANTS
    Headers             \* name |-> [path, system, cpp, thirdparty, rank]

ASSUME HeadersAssumption ==
    \A h \in DOMAIN Headers : Headers[h].rank \in Nat \ {0} /\ Headers[h].thirdparty \in BOOLEAN

VARIABLES
    target,             \* the path of the file that is linted
    include_list,       \* per preprocessor branch, the sequence of [header, line]
    section,            \* the section the last header belonged to
    last_header         \* its rank, 0 for none

includeVars == <<include_list, section, last_header>>

INITIAL_SECTION == 0
MY_H_SECTION == 1
C_SECTION == 2
CPP_SECTION == 3
OTHER_H_SECTION == 4

InitInclude ==
    /\ include_list = << <<>> >>
    /\ section = INITIAL_SECTION
    /\ last_header = 0

-----------------------------------------------------------------------------
(* What kind of header a file includes *)

CommonSuffixes == {<<"test", "cc">>, <<"regtest", "cc">>, <<"unittest", "cc">>,
                   <<"inl", "h">>, <<"impl", "h">>, <<"internal", "h">>}

DropCommonSuffixes(path) ==
    IF Len(path.base) > 1 /\ <<Last(path.base), path.ext>> \in CommonSuffixes
    THEN Front(path.base) ELSE path.base

\* The include lives in the directory of the target, or in public next to it.
NearTarget(include) ==
    \/ include.dir = target.dir
    \/ target.dir # <<>> /\ include.dir = Append(Front(target.dir), "public")

ClassifyInclude(h) ==
    LET include == Headers[h].path
        t_base  == DropCommonSuffixes(target)
        i_base  == DropCommonSuffixes(include)
    IN IF Headers[h].system THEN IF Headers[h].cpp THEN "CppSys" ELSE "CSys"
       ELSE CASE t_base = i_base /\ NearTarget(include)   -> "LikelyMy"
              [] t_base # i_base /\ t_base[1] = i_base[1] -> "PossibleMy"
              [] t_base = i_base /\ ~NearTarget(include)  -> "PossibleMy"
              [] OTHER                                    -> "Other"

-----------------------------------------------------------------------------
(* The operations of _IncludeState *)

\* Variant: only the current branch is searched.
Mutant_HasHeader(h) == \E e \in ToSet(Last(include_list)) : e.header = h

\* FindHeader finds h.
HasHeader(h) ==
    \E i \in DOMAIN include_list : \E j \in DOMAIN include_list[i] : include_list[i][j].header = h

\* Variant: a system header after other headers goes back to its own section.
Mutant_NextSection(kind, s) ==
    CASE kind = "CSys"   -> C_SECTION
      [] kind = "CppSys" -> CPP_SECTION
      [] kind \in {"LikelyMy", "PossibleMy"} -> MY_H_SECTION
      [] OTHER           -> OTHER_H_SECTION

\* The section of a header of the given kind after section s; the kinds that may only come
\* earlier are out of order.
NextSection(kind, s) ==
    CASE kind = "CSys"   -> IF s <= C_SECTION THEN C_SECTION ELSE s
      [] kind = "CppSys" -> IF s <= CPP_SECTION THEN CPP_SECTION ELSE s
      [] kind \in {"LikelyMy", "PossibleMy"}
                         -> IF s <= MY_H_SECTION THEN MY_H_SECTION ELSE OTHER_H_SECTION
      [] OTHER           -> OTHER_H_SECTION

OutOfOrder(kind, s) ==
    \/ kind = "CSys" /\ s > C_SECTION
    \/ kind = "CppSys" /\ s > CPP_SECTION

\* The rank IsInAlphabeticalOrder compares with, once CheckNextIncludeOrder is through.
ComparedHeader(kind) ==
    IF OutOfOrder(kind, section) \/ NextSection(kind, section) # section
    THEN 0 ELSE last_header

\* Variant: #else opens a new list and keeps the one of the other branch.
Mutant_BranchLists(directive) ==
    IF directive \in {"#if", "#ifdef", "#ifndef", "#else", "#elif"}
    THEN Append(include_list, <<>>) ELSE include_list

\* A list per #if, emptied for its other branches; lists are never popped.
BranchLists(directive) ==
    CASE directive \in {"#if", "#ifdef", "#ifndef"} -> Append(include_list, <<>>)
      [] directive \in {"#else", "#elif"} -> [include_list EXCEPT ![Len(include_list)] = <<>>]
      [] OTHER                            -> include_list

Directives == {"#if", "#ifdef", "#ifndef", "#else", "#elif", "#endif"}

ResetSection(directive) ==
    /\ include_list' = BranchLists(directive)
    /\ section' = INITIAL_SECTION
    /\ last_header' = 0

-----------------------------------------------------------------------------
(* CheckIncludeLine *)

\* A .cc file of another directory.
ForeignSource(h) ==
    Headers[h].path.ext = "cc" /\ Headers[h].path.dir # target.dir

IsRecorded(h) ==
    ~HasHeader(h) /\ ~ForeignSource(h) /\ ~Headers[h].thirdparty

NotAlphabetical(h, follows_include) ==
    follows_include /\ ComparedHeader(ClassifyInclude(h)) > Headers[h].rank

\* The categories of the errors raised for the line, in order.
IncludeLineErrors(h, follows_include) ==
    (IF ~Headers[h].system /\ Headers[h].path.dir = <<>> /\ Headers[h].path.ext = "h"
        /\ ~Headers[h].thirdparty
     THEN <<"build/include">> ELSE <<>>)
    \o (IF HasHeader(h) \/ ForeignSource(h) THEN <<"build/include">> ELSE <<>>)
    \o (IF IsRecorded(h) /\ OutOfOrder(ClassifyInclude(h), section)
        THEN <<"build/include_order">> ELSE <<>>)
    \o (IF IsRecorded(h) /\ NotAlphabetical(h, follows_include)
        THEN <<"build/include_alpha">> ELSE <<>>)

RecordInclude(h, linenum) ==
    /\ IsRecorded(h)
    /\ include_list' = [include_list EXCEPT ![Len(include_list)] =
                            Append(@, [header |-> h, line |-> linenum])]
    /\ section' = NextSection(ClassifyInclude(h), section)
    /\ last_header' = Headers[h].rank

IgnoreInclude(h) == ~IsRecorded(h) /\ UNCHANGED includeVars

CheckIncludeLine(h, linenum) == RecordInclude(h, linenum) \/ IgnoreInclude(h)

-----------------------------------------------------------------------------
(* The checks at the end of the file *)

SourceExtensions == {"c", "cc", "cpp", "cxx"}

TestSuffixes == {"test", "regtest", "unittest"}

IsTest(path) == Len(path.base) > 1 /\ Last(path.base) \in TestSuffixes

\* A path as one sequence.
Spelled(dir, base) == FlattenSeq([i \in DOMAIN dir |-> <<dir[i], "/">>]) \o base

\* Directories that do not tell modules apart.
NotLayer(d) == d \notin {"public", "internal"}

\* The .cc file's path is absolute, the header's is as spelled in the #include.
FilesBelongToSameModule(cc, h) ==
    LET cc_base == IF IsTest(cc) THEN Front(cc.base) ELSE cc.base
        h_base  == IF Last(h.base) = "inl" THEN Front(h.base) ELSE h.base
        h_dir   == IF h.dir = <<>> THEN <<>> ELSE <<h.dir[1]>> \o SelectSeq(Tail(h.dir), NotLayer)
    IN /\ cc.ext \in SourceExtensions /\ h.ext = "h"
       /\ IsSuffix(Spelled(h_dir, h_base), Spelled(SelectSeq(cc.dir, NotLayer), cc_base))

Listed == {e.header : e \in UNION {ToSet(include_list[i]) : i \in DOMAIN include_list}}

\* The headers of the file's module that it includes and that can be read; disk gives the
\* headers each of them includes (UpdateIncludeState).
ModuleHeaders(disk) ==
    {h \in Listed : h \in DOMAIN disk /\ FilesBelongToSameModule(target, Headers[h].path)}

\* CheckForIncludeWhatYouUse: the headers that code needs (required: header |-> line) and
\* neither the file nor a header of its module includes.  A .cc file whose header is not
\* found is not judged.
MissingIncludes(disk, required) ==
    LET mine == ModuleHeaders(disk)
    IN IF target.ext = "cc" /\ mine = {} THEN {}
       ELSE DOMAIN required \ (Listed \cup UNION {disk[h] : h \in mine})

\* CheckHeaderFileIncluded: one of the two names is part of the other.
Name(path) == Spelled(path.dir, path.base) \o (IF path.ext = "" THEN <<>> ELSE <<".", path.ext>>)

Within(p, q) == \E i \in 1..Len(q) : i + Len(p) - 1 <= Len(q) /\ SubSeq(q, i, i + Len(p) - 1) = p

MissesOwnHeader(exists) ==
    LET own == Name([target EXCEPT !.ext = "h"])
    IN /\ target.ext \in SourceExtensions /\ ~IsTest(target) /\ exists
       /\ \A h \in Listed : ~Within(own, Name(Headers[h].path)) /\ ~Within(Name(Headers[h].path), own)

\* The line of the first header of the list, where a missing own header is reported.
FirstInclude ==
    LET all == FlattenSeq(include_list) IN IF all = <<>> THEN 0 ELSE all[1].line

(***************************************************************************)
(* Properties                                                              *)
(***************************************************************************)
\* No header is recorded twice, in whatever branches it is included: FindHeader searches all
\* lists before CheckIncludeLine appends to the last one, and lists are emptied but never
\* popped or merged.  The "already included at" message names the only line there is.
HeaderRecordedOnce ==
    \A i, k \in DOMAIN include_list :
        \A j \in DOMAIN include_list[i], l \in DOMAIN include_list[k] :
            include_list[i][j].header = include_list[k][l].header => i = k /\ j = l

\* "self._section will move monotonically": between two preprocessor directives the section
\* never goes back, also after an include that is out of order.
SectionMonotone ==
    [][section' >= section \/ (section' = INITIAL_SECTION /\ last_header' = 0)]_includeVars
=============================================================================
