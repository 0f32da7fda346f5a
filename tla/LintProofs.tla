----------------------------- MODULE LintProofs -----------------------------
(***************************************************************************)
(* Proofs about the linter's run: for every command line, every set of     *)
(* files and configuration files and every text.                           *)
(***************************************************************************)
EXTENDS LintOperatorProofs

-----------------------------------------------------------------------------
(* Filters *)

\* The stages between StartFile and the end of a file.
FileStages == {"config", "filters", "read"} \cup TextStages

\* FiltersRestored is inductive with the backup.
FiltersInv ==
    /\ pc \in {"start", "file", "done"} \cup FileStages
    /\ pc = "file" => filters = GivenFilters
    /\ pc \in FileStages => filters_backup = GivenFilters
    /\ pc \in {"config", "filters"} => filters = filters_backup

\* The command line never changes.
LEMMA GivenFiltersKept ==
    ASSUME UNCHANGED world
    PROVE  GivenFilters' = GivenFilters
BY DEF GivenFilters, Option, SelectLastInSeq

\* A step that leaves the command line and the filters as they are, within the file.
LEMMA FiltersKept ==
    ASSUME FiltersInv, pc \in FileStages, UNCHANGED <<world, filters, filters_backup>>,
           pc' \in FileStages \cup {"done"}, pc' \in {"config", "filters"} => pc \in {"config", "filters"}
    PROVE  FiltersInv'
BY GivenFiltersKept DEF FiltersInv, FileStages, TextStages

\* The steps on the text of a file.
LEMMA TextKeepsFilters ==
    ASSUME FiltersInv, TextStep
    PROVE  FiltersInv'
<1> USE DEF FileStages, TextStages
<1>1. CASE CheckForCopyright
  BY <1>1, FiltersKept DEF CheckForCopyright, inputVars, settings
<1>2. CASE ProcessGlobalSuppressions
  BY <1>2, FiltersKept DEF ProcessGlobalSuppressions, inputVars, settings
<1>3. CASE CleanseText
  BY <1>3, FiltersKept DEF CleanseText, inputVars, settings
<1>4. CASE CheckHeaderGuardIfndef
  BY <1>4, FiltersKept DEF CheckHeaderGuardIfndef, inputVars, settings
<1>5. CASE CheckHeaderGuardEndif
  BY <1>5, FiltersKept DEF CheckHeaderGuardEndif, inputVars, settings
<1>6. CASE ProcessLine
  BY <1>6, FiltersKept DEF ProcessLine, inputVars, settings
<1>7. CASE EndFileData
  BY <1>7, FiltersKept DEF EndFileData, inputVars, settings
<1>8. CASE FinishFile
  BY <1>8, GivenFiltersKept DEF FinishFile, RestoreFilters, EndFile, FiltersInv
<1> QED BY <1>1, <1>2, <1>3, <1>4, <1>5, <1>6, <1>7, <1>8 DEF TextStep

\* The steps on the command line, the configuration files and the choice of files.
LEMMA StepKeepsFilters ==
    ASSUME FiltersInv, Step
    PROVE  FiltersInv'
<1> USE DEF FileStages, TextStages
<1>1. CASE ParseArguments
  <2>1. filters' = GivenFilters
    BY <1>1 DEF ParseArguments, SetFilters, GivenFilters
  <2> QED BY <1>1, <2>1, GivenFiltersKept DEF ParseArguments, FiltersInv
<1>2. CASE RefuseArguments
  BY <1>2 DEF RefuseArguments, Exit, FiltersInv
<1>3. CASE StartFile
  BY <1>3, GivenFiltersKept DEF StartFile, BackupFilters, FiltersInv
<1>4. CASE ReadConfig
  BY <1>4, FiltersKept DEF ReadConfig, GoUp, settings
<1>5. CASE SkipDirectory
  BY <1>5, FiltersKept DEF SkipDirectory, GoUp, settings
<1>6. CASE IgnoreExcluded
  BY <1>6, GivenFiltersKept DEF IgnoreExcluded, RestoreFilters, EndFile, FiltersInv
<1>7. CASE ApplyFilters
  BY <1>7, GivenFiltersKept DEF ApplyFilters, FiltersInv
<1>8. CASE RefuseFilters
  BY <1>8, FiltersKept DEF RefuseFilters, Exit, settings
<1>9. CASE SkipFile
  BY <1>9, GivenFiltersKept DEF SkipFile, RestoreFilters, EndFile, FiltersInv
<1>10. CASE BeginFileData
  BY <1>10, FiltersKept DEF BeginFileData, settings
<1>11. CASE Finish
  BY <1>11 DEF Finish, Exit, FiltersInv
<1> QED BY <1>1, <1>2, <1>3, <1>4, <1>5, <1>6, <1>7, <1>8, <1>9, <1>10, <1>11 DEF Step

\* The invariant holds in every run.
LEMMA FiltersInvariant == Spec => []FiltersInv
<1>1. Init => FiltersInv
  BY DEF Init, FiltersInv, FileStages, TextStages
<1>2. FiltersInv /\ [Next]_vars => FiltersInv'
  <2> SUFFICES ASSUME FiltersInv, [Next]_vars
               PROVE  FiltersInv'
    OBVIOUS
  <2>1. CASE UNCHANGED vars
    BY <2>1, GivenFiltersKept DEF vars, settings, FiltersInv
  <2> QED BY <2>1, StepKeepsFilters, TextKeepsFilters DEF Next, Done
<1> QED BY <1>1, <1>2, PTL DEF Spec

\* ProcessFile restores the filters on each of its ways out, whatever the configuration files
\* of the files before have added to them.
THEOREM LintFiltersRestored == Spec => []FiltersRestored
<1>1. FiltersInv => FiltersRestored
  BY DEF FiltersInv, FiltersRestored
<1> QED BY <1>1, FiltersInvariant, PTL

-----------------------------------------------------------------------------
(* Includes *)
Sections == INITIAL_SECTION..OTHER_H_SECTION

\* The entries on the lists of all branches.
Entries(lists) == UNION {ToSet(lists[i]) : i \in DOMAIN lists}

\* The lists of the branches, and the section.
IncludeTypeOK ==
    /\ include_list \in Seq(Seq(Entries(include_list))) /\ include_list # <<>>
    /\ section \in Sections

\* HeaderRecordedOnce is inductive with the types.
IncludeInv == IncludeTypeOK /\ HeaderRecordedOnce

\* Lists of any entries are lists of their own entries.
LEMMA OwnEntries ==
    ASSUME NEW X, NEW lists \in Seq(Seq(X))
    PROVE  lists \in Seq(Seq(Entries(lists)))
<1>1. ASSUME NEW i \in 1..Len(lists)
      PROVE  lists[i] \in Seq(Entries(lists))
  <2>1. PICK s \in Seq(X) : s = lists[i]
    OBVIOUS
  <2>2. \A j \in 1..Len(s) : s[j] \in Entries(lists)
    BY <2>1 DEF Entries, ToSet
  <2>3. s \in Seq(Entries(lists))
    BY <2>2, SeqOver
  <2> QED BY <2>1, <2>3
<1> QED BY <1>1

\* NextSection never goes back, whatever the kind of the header.
LEMMA NextSectionIsLater ==
    ASSUME NEW kind, NEW s \in Sections
    PROVE  NextSection(kind, s) \in Sections /\ NextSection(kind, s) >= s
  BY DEF NextSection, Sections, INITIAL_SECTION, MY_H_SECTION, C_SECTION, CPP_SECTION, OTHER_H_SECTION

\* RecordInclude writes to the end of the last list, and nowhere else.
LEMMA RecordedList ==
    ASSUME NEW X, NEW lists \in Seq(Seq(X)), lists # <<>>, NEW e \in X, NEW next,
           next = [lists EXCEPT ![Len(lists)] = Append(@, e)]
    PROVE  /\ next \in Seq(Seq(X)) /\ next # <<>>
           /\ DOMAIN next = DOMAIN lists
           /\ \A i \in DOMAIN lists :
                 \A j \in DOMAIN next[i] :
                    \/ j \in DOMAIN lists[i] /\ next[i][j] = lists[i][j]
                    \/ /\ i = Len(lists) /\ j = Len(lists[i]) + 1
                       /\ next[i][j] = e
<1> DEFINE n == Len(lists)
<1>1. n \in DOMAIN lists /\ lists[n] \in Seq(X)
  OBVIOUS
<1>2. Append(lists[n], e) \in Seq(X)
  BY <1>1
<1>3. DOMAIN next = DOMAIN lists /\ Len(next) = n
      /\ next \in Seq(Seq(X)) /\ next # <<>>
  BY <1>1, <1>2
<1>4. ASSUME NEW i \in DOMAIN lists, NEW j \in DOMAIN next[i]
      PROVE  \/ j \in DOMAIN lists[i] /\ next[i][j] = lists[i][j]
             \/ /\ i = n /\ j = Len(lists[i]) + 1
                /\ next[i][j] = e
  <2>1. CASE i # n
    BY <2>1
  <2>2. CASE i = n
    <3>1. next[i] = Append(lists[n], e)
      BY <2>2, <1>1
    <3> QED BY <3>1, <2>2, <1>1
  <2> QED BY <2>1, <2>2
<1> QED BY <1>3, <1>4

\* A header is recorded only when no list of a branch has it.
LEMMA RecordKeepsInv ==
    ASSUME IncludeInv, NEW h, NEW n, RecordInclude(h, n)
    PROVE  IncludeInv'
<1> DEFINE e == [header |-> h, line |-> n]
           X == Entries(include_list) \cup {e}
<1>1. e \in X /\ e.header = h
  OBVIOUS
<1>2. include_list' = [include_list EXCEPT ![Len(include_list)] = Append(@, e)]
  BY DEF RecordInclude
<1>3. ~HasHeader(h)
  BY DEF RecordInclude, IsRecorded
<1>4. include_list \in Seq(Seq(X)) /\ include_list # <<>>
  <2>1. include_list \in Seq(Seq(Entries(include_list))) /\ include_list # <<>>
    BY DEF IncludeInv, IncludeTypeOK
  <2> QED BY <2>1
<1> HIDE DEF e, X
<1>5. /\ include_list' \in Seq(Seq(X)) /\ include_list' # <<>>
      /\ DOMAIN include_list' = DOMAIN include_list
      /\ \A i \in DOMAIN include_list :
            \A j \in DOMAIN include_list'[i] :
               \/ j \in DOMAIN include_list[i] /\ include_list'[i][j] = include_list[i][j]
               \/ /\ i = Len(include_list) /\ j = Len(include_list[i]) + 1
                  /\ include_list'[i][j] = e
  BY <1>1, <1>2, <1>4, RecordedList
<1>6. IncludeTypeOK'
  <2>1. section' \in Sections
    BY NextSectionIsLater DEF RecordInclude, IncludeInv, IncludeTypeOK
  <2>2. include_list' \in Seq(Seq(Entries(include_list')))
    BY <1>5, OwnEntries
  <2> QED BY <1>5, <2>1, <2>2 DEF IncludeTypeOK
<1>7. HeaderRecordedOnce'
  <2> SUFFICES ASSUME NEW i \in DOMAIN include_list, NEW k \in DOMAIN include_list,
                      NEW j \in DOMAIN include_list'[i], NEW l \in DOMAIN include_list'[k],
                      include_list'[i][j].header = include_list'[k][l].header
               PROVE  i = k /\ j = l
    BY <1>5 DEF HeaderRecordedOnce
  <2> DEFINE New(a, b) == a = Len(include_list) /\ b = Len(include_list[a]) + 1
                          /\ include_list'[a][b] = e
             Old(a, b) == b \in DOMAIN include_list[a]
                          /\ include_list'[a][b] = include_list[a][b]
  <2>1. (Old(i, j) \/ New(i, j)) /\ (Old(k, l) \/ New(k, l))
    BY <1>5
  <2>2. CASE Old(i, j) /\ Old(k, l)
    BY <2>2 DEF IncludeInv, HeaderRecordedOnce
  <2>3. CASE Old(i, j) /\ New(k, l)
    BY <2>3, <1>1, <1>3 DEF HasHeader
  <2>4. CASE New(i, j) /\ Old(k, l)
    BY <2>4, <1>1, <1>3 DEF HasHeader
  <2>5. CASE New(i, j) /\ New(k, l)
    BY <2>5
  <2> QED BY <2>1, <2>2, <2>3, <2>4, <2>5
<1> QED BY <1>6, <1>7 DEF IncludeInv

\* A directive adds or empties the list of a branch.
LEMMA ResetKeepsInv ==
    ASSUME IncludeInv, NEW d, ResetSection(d)
    PROVE  IncludeInv'
<1> DEFINE X == Entries(include_list)
<1> HIDE DEF X
<1>0. include_list \in Seq(Seq(X)) /\ include_list # <<>>
  BY DEF IncludeInv, IncludeTypeOK, X
<1>1. ASSUME include_list' \in Seq(Seq(X)), include_list' # <<>>, HeaderRecordedOnce'
      PROVE  IncludeInv'
  BY <1>1, OwnEntries DEF ResetSection, Sections, INITIAL_SECTION, OTHER_H_SECTION,
                          IncludeInv, IncludeTypeOK
<1>2. CASE d \in {"#if", "#ifdef", "#ifndef"}
  <2>1. include_list' = Append(include_list, <<>>)
    BY <1>2 DEF ResetSection, BranchLists
  <2>2. include_list' \in Seq(Seq(X)) /\ include_list' # <<>>
        /\ Len(include_list') = Len(include_list) + 1
        /\ \A i \in 1..Len(include_list) : include_list'[i] = include_list[i]
        /\ include_list'[Len(include_list) + 1] = <<>>
    BY <1>0, <2>1
  <2>3. \A i \in DOMAIN include_list' : \A j \in DOMAIN include_list'[i] :
           i \in DOMAIN include_list /\ include_list'[i] = include_list[i]
    <3> SUFFICES ASSUME NEW i \in DOMAIN include_list', NEW j \in DOMAIN include_list'[i]
                 PROVE  i \in DOMAIN include_list /\ include_list'[i] = include_list[i]
      OBVIOUS
    <3>1. i \in 1..(Len(include_list) + 1)
      BY <2>2
    <3>2. i # Len(include_list) + 1
      BY <1>0, <2>2
    <3>3. i \in 1..Len(include_list)
      BY <1>0, <3>1, <3>2
    <3>4. include_list'[i] = include_list[i]
      BY <2>2, <3>3
    <3>5. DOMAIN include_list = 1..Len(include_list)
      BY <1>0
    <3> QED BY <3>3, <3>4, <3>5
  <2>4. HeaderRecordedOnce'
    BY <2>3 DEF HeaderRecordedOnce, IncludeInv
  <2> QED BY <1>1, <2>2, <2>4
<1>3. CASE d \in {"#else", "#elif"}
  <2>1. include_list' = [include_list EXCEPT ![Len(include_list)] = <<>>]
    BY <1>3 DEF ResetSection, BranchLists
  <2>2. include_list' \in Seq(Seq(X)) /\ include_list' # <<>>
        /\ DOMAIN include_list' = DOMAIN include_list
        /\ \A i \in DOMAIN include_list : include_list'[i] = include_list[i] \/ include_list'[i] = <<>>
    BY <1>0, <2>1
  <2>3. HeaderRecordedOnce'
    BY <2>2 DEF HeaderRecordedOnce, IncludeInv
  <2> QED BY <1>1, <2>2, <2>3
<1>4. CASE d \notin {"#if", "#ifdef", "#ifndef", "#else", "#elif"}
  <2>1. include_list' = include_list
    BY <1>4 DEF ResetSection, BranchLists
  <2> QED BY <1>0, <1>1, <2>1 DEF HeaderRecordedOnce, IncludeInv
<1> QED BY <1>2, <1>3, <1>4

\* What a step of the linter does to the includes.
IncludeStep ==
    \/ \E h, n : CheckIncludeLine(h, n)
    \/ \E d : ResetSection(d)
    \/ InitInclude'
    \/ UNCHANGED includeVars

\* Every step is one of these: ProcessLine calls the operations, BeginFileData makes a new
\* _IncludeState, and nothing else touches it.
LEMMA StepOnIncludes ==
    ASSUME [Next]_vars
    PROVE  IncludeStep
<1>1. CASE ProcessLine
  <2>1. \/ UNCHANGED includeVars
        \/ UpdateIncludes(clean.elided[linenum], linenum)
    BY <1>1 DEF ProcessLine, CheckLine
  <2> QED BY <2>1 DEF UpdateIncludes, IncludeStep
<1>2. CASE BeginFileData
  BY <1>2 DEF BeginFileData, InitInclude, IncludeStep
<1>3. CASE UNCHANGED includeVars
  BY <1>3 DEF IncludeStep
<1>4. CASE TextStep /\ ~ProcessLine
  BY <1>3, <1>4 DEF TextStep, CheckForCopyright, ProcessGlobalSuppressions, CleanseText,
       CheckHeaderGuardIfndef, CheckHeaderGuardEndif, EndFileData, FinishFile, componentVars
<1>5. CASE Step /\ ~BeginFileData
  BY <1>3, <1>5 DEF Step, ParseArguments, RefuseArguments, StartFile, ReadConfig, SkipDirectory,
       IgnoreExcluded, ApplyFilters, RefuseFilters, SkipFile, Finish, componentVars
<1>6. CASE UNCHANGED vars
  BY <1>3, <1>6 DEF vars, componentVars
<1> QED BY <1>1, <1>2, <1>4, <1>5, <1>6 DEF Next, Done

\* The invariant holds in every run.
LEMMA IncludeInvariant == Spec => []IncludeInv
<1>1. InitInclude => IncludeInv
  BY DEF InitInclude, IncludeInv, IncludeTypeOK, HeaderRecordedOnce, Sections,
         INITIAL_SECTION, OTHER_H_SECTION
<1>2. Init => IncludeInv
  BY <1>1 DEF Init
<1>3. IncludeInv /\ [Next]_vars => IncludeInv'
  <2> SUFFICES ASSUME IncludeInv, [Next]_vars
               PROVE  IncludeInv'
    OBVIOUS
  <2>1. ASSUME NEW h, NEW n, CheckIncludeLine(h, n)
        PROVE  IncludeInv'
    <3>1. CASE RecordInclude(h, n)
      BY <3>1, RecordKeepsInv
    <3>2. CASE IgnoreInclude(h)
      BY <3>2 DEF IgnoreInclude, includeVars, IncludeInv, IncludeTypeOK, HeaderRecordedOnce
    <3> QED BY <2>1, <3>1, <3>2 DEF CheckIncludeLine
  <2>2. ASSUME NEW d, ResetSection(d)
        PROVE  IncludeInv'
    BY <2>2, ResetKeepsInv
  <2>3. CASE InitInclude'
    BY <2>3, <1>1, PTL
  <2>4. CASE UNCHANGED includeVars
    BY <2>4 DEF includeVars, IncludeInv, IncludeTypeOK, HeaderRecordedOnce
  <2> QED BY <2>1, <2>2, <2>3, <2>4, StepOnIncludes DEF IncludeStep
<1> QED BY <1>2, <1>3, PTL DEF Spec

\* FindHeader searches every list and lists are only emptied, so no header is recorded twice,
\* whatever the text of the file and the directives in it.
THEOREM LintHeaderRecordedOnce == Spec => []HeaderRecordedOnce
<1>1. IncludeInv => HeaderRecordedOnce
  BY DEF IncludeInv
<1> QED BY <1>1, IncludeInvariant, PTL

\* "self._section will move monotonically through this set": CheckNextIncludeOrder never goes
\* back to an earlier section, also for headers that are out of order; only ResetSection and a
\* new file do.
THEOREM LintSectionMonotone == Spec => SectionMonotone
<1> DEFINE Forward == section' >= section \/ (section' = INITIAL_SECTION /\ last_header' = 0)
<1>1. IncludeInv /\ [Next]_vars => [Forward]_includeVars
  <2> SUFFICES ASSUME IncludeInv, IncludeStep
               PROVE  Forward \/ UNCHANGED includeVars
    BY StepOnIncludes DEF includeVars
  <2>1. ASSUME NEW h, NEW n, RecordInclude(h, n)
        PROVE  Forward
    BY <2>1, NextSectionIsLater DEF RecordInclude, IncludeInv, IncludeTypeOK
  <2>2. ASSUME NEW h, IgnoreInclude(h)
        PROVE  UNCHANGED includeVars
    BY <2>2 DEF IgnoreInclude
  <2>3. ASSUME NEW d, ResetSection(d)
        PROVE  Forward
    BY <2>3 DEF ResetSection
  <2>4. CASE InitInclude'
    BY <2>4 DEF InitInclude
  <2> QED BY <2>1, <2>2, <2>3, <2>4 DEF IncludeStep, CheckIncludeLine
<1> QED BY <1>1, IncludeInvariant, PTL DEF Spec, SectionMonotone

-----------------------------------------------------------------------------
(* Which filter decides *)
Applies(f, c) == StartsWith(c, f.prefix)

\* The i-th filter is the last one that applies.
IsLast(fs, c, i) ==
    i \in 1..Len(fs) /\ Applies(fs[i], c) /\ \A j \in 1..Len(fs) : Applies(fs[j], c) => j <= i

\* Verdict takes the sign of the last filter that applies.
LEMMA VerdictIsLast ==
    ASSUME NEW fs \in Seq(Filters), NEW c
    PROVE  \/ /\ \A i \in 1..Len(fs) : ~Applies(fs[i], c)
              /\ Verdict(fs, c) = "none"
           \/ \E i : IsLast(fs, c, i) /\ Verdict(fs, c) = fs[i].sign
<1> DEFINE I == {i \in 1..Len(fs) : Applies(fs[i], c)}
           at == IF I # {} THEN Max(I) ELSE 0
<1>1. Verdict(fs, c) = IF at = 0 THEN "none" ELSE fs[at].sign
  BY DEF Verdict, SelectLastInSeq, Applies
<1>2. CASE I = {}
  BY <1>1, <1>2
<1>3. CASE I # {}
  <2>1. Len(fs) \in Nat /\ I \in SUBSET (0..Len(fs))
    OBVIOUS
  <2>2. \E i \in I : \A j \in I : i >= j
    <3>1. PICK i \in I : \A j \in I : j <= i
      BY <1>3, <2>1, LastPosition
    <3> QED BY <3>1
  <2>3. Max(I) \in I /\ \A j \in I : Max(I) >= j
    BY <2>2 DEF Max
  <2>4. at \in I /\ \A j \in I : at >= j
    BY <1>3, <2>3
  <2> HIDE DEF at
  <2>5. IsLast(fs, c, at) /\ at # 0
    BY <2>4 DEF IsLast
  <2> QED BY <1>1, <2>5
<1> QED BY <1>2, <1>3

\* The converse: the last filter that applies gives its sign.
LEMMA LastGivesVerdict ==
    ASSUME NEW fs \in Seq(Filters), NEW c, NEW i, IsLast(fs, c, i)
    PROVE  Verdict(fs, c) = fs[i].sign
<1>1. i \in 1..Len(fs) /\ Applies(fs[i], c)
  BY DEF IsLast
<1>2. PICK k : IsLast(fs, c, k) /\ Verdict(fs, c) = fs[k].sign
  BY <1>1, VerdictIsLast
<1>3. i = k
  BY <1>2 DEF IsLast
<1> QED BY <1>2, <1>3

\* Filters with signs that are added later decide where one of them applies.
LEMMA VerdictOfConcat ==
    ASSUME NEW fs \in Seq(Filters), NEW gs \in Seq(Filters), ValidFilters(gs), NEW c
    PROVE  Verdict(fs \o gs, c) = IF Verdict(gs, c) = "none" THEN Verdict(fs, c) ELSE Verdict(gs, c)
<1> DEFINE n == Len(fs)
           m == Len(gs)
           all == fs \o gs
<1>1. /\ n \in Nat /\ m \in Nat /\ all \in Seq(Filters) /\ Len(all) = n + m
      /\ \A i \in 1..(n + m) : all[i] = IF i <= n THEN fs[i] ELSE gs[i - n]
  BY ConcatProperties
<1> HIDE DEF n, m, all
<1>2. ASSUME NEW i, IsLast(gs, c, i)
      PROVE  Verdict(all, c) = Verdict(gs, c) /\ Verdict(gs, c) # "none"
  <2>1. i \in 1..m /\ Applies(gs[i], c) /\ \A j \in 1..m : Applies(gs[j], c) => j <= i
    BY <1>2 DEF IsLast, m
  <2>2. n + i \in 1..(n + m) /\ ~(n + i <= n) /\ (n + i) - n = i
    BY <1>1, <2>1
  <2>3. all[n + i] = gs[i]
    BY <1>1, <2>2
  <2>4. ASSUME NEW j \in 1..(n + m), Applies(all[j], c) PROVE j <= n + i
    <3>1. CASE j <= n
      BY <1>1, <2>1, <3>1
    <3>2. CASE ~(j <= n)
      <4>1. j - n \in 1..m
        BY <1>1, <3>2
      <4>2. all[j] = gs[j - n]
        BY <1>1, <3>2
      <4>3. j - n <= i
        BY <2>1, <2>4, <4>1, <4>2
      <4> QED BY <1>1, <2>1, <4>3
    <3> QED BY <3>1, <3>2
  <2>5. IsLast(all, c, n + i)
    BY <1>1, <2>1, <2>2, <2>3, <2>4 DEF IsLast
  <2>6. Verdict(all, c) = gs[i].sign
    BY <1>1, <2>3, <2>5, LastGivesVerdict
  <2>7. Verdict(gs, c) = gs[i].sign
    BY <1>2, LastGivesVerdict
  <2>8. gs[i].sign \in {"+", "-"}
    BY <2>1 DEF ValidFilters, m
  <2> QED BY <2>6, <2>7, <2>8
<1>3. CASE \A i \in 1..m : ~Applies(gs[i], c)
  <2>1. Verdict(gs, c) = "none"
    <3>1. ~\E i : IsLast(gs, c, i)
      BY <1>3 DEF IsLast, m
    <3> QED BY <3>1, VerdictIsLast
  <2>2. \A j \in 1..(n + m) : Applies(all[j], c) => j \in 1..n /\ all[j] = fs[j]
    <3> SUFFICES ASSUME NEW j \in 1..(n + m), Applies(all[j], c)
                 PROVE  j \in 1..n /\ all[j] = fs[j]
      OBVIOUS
    <3>1. CASE j <= n
      BY <1>1, <3>1
    <3>2. CASE ~(j <= n)
      <4>1. j - n \in 1..m /\ all[j] = gs[j - n]
        BY <1>1, <3>2
      <4> QED BY <1>3, <4>1
    <3> QED BY <3>1, <3>2
  <2>3. CASE \A i \in 1..n : ~Applies(fs[i], c)
    <3>1. ~(\E i : IsLast(fs, c, i)) /\ ~(\E i : IsLast(all, c, i))
      BY <1>1, <2>2, <2>3 DEF IsLast, n
    <3>2. Verdict(fs, c) = "none" /\ Verdict(all, c) = "none"
      BY <1>1, <3>1, VerdictIsLast
    <3> QED BY <2>1, <3>2 DEF all
  <2>4. ASSUME NEW i, IsLast(fs, c, i)
        PROVE  Verdict(all, c) = Verdict(fs, c)
    <3>1. i \in 1..n /\ Applies(fs[i], c) /\ \A j \in 1..n : Applies(fs[j], c) => j <= i
      BY <2>4 DEF IsLast, n
    <3>2. i \in 1..(n + m) /\ all[i] = fs[i]
      BY <1>1, <3>1
    <3>3. IsLast(all, c, i)
      BY <1>1, <2>2, <3>1, <3>2 DEF IsLast
    <3> QED BY <1>1, <2>4, <3>2, <3>3, LastGivesVerdict
  <2>5. (\A i \in 1..n : ~Applies(fs[i], c)) \/ \E i : IsLast(fs, c, i)
    BY VerdictIsLast DEF n
  <2> QED BY <2>1, <2>3, <2>4, <2>5 DEF all
<1>4. (\A i \in 1..m : ~Applies(gs[i], c)) \/ \E i : IsLast(gs, c, i)
  BY VerdictIsLast DEF m
<1> QED BY <1>2, <1>3, <1>4 DEF all

\* In a concatenation one of the sequences decides, unless none of them does.
LEMMA VerdictOfFlatten ==
    ASSUME NEW seqs \in Seq(Seq(Filters)), \A i \in 1..Len(seqs) : ValidFilters(seqs[i]), NEW c
    PROVE  \/ /\ \A i \in 1..Len(seqs) : Verdict(seqs[i], c) = "none"
              /\ Verdict(FlattenSeq(seqs), c) = "none"
           \/ \E i \in 1..Len(seqs) : /\ Verdict(seqs[i], c) # "none"
                                      /\ Verdict(FlattenSeq(seqs), c) = Verdict(seqs[i], c)
<1> DEFINE n == Len(seqs)
<1>1. PICK sum \in [0..n -> Seq(Filters)] : IsSum(sum, seqs, n) /\ FlattenSeq(seqs) = sum[n]
  BY FlattenSums
<1>2. n \in Nat /\ \A i \in 1..n : seqs[i] \in Seq(Filters) /\ ValidFilters(seqs[i])
  OBVIOUS
<1> HIDE DEF n
<1> DEFINE Holds(m) ==
               \/ (\A i \in 1..m : Verdict(seqs[i], c) = "none") /\ Verdict(sum[m], c) = "none"
               \/ \E i \in 1..m : /\ Verdict(seqs[i], c) # "none"
                                  /\ Verdict(sum[m], c) = Verdict(seqs[i], c)
           M == {m \in Nat : m <= n => Holds(m)}
<1> HIDE DEF Holds
<1>3. 0 \in M
  <2>1. sum[0] = <<>>
    BY <1>1 DEF IsSum
  <2>2. <<>> \in Seq(Filters) /\ ~\E i : IsLast(<<>>, c, i)
    BY DEF IsLast
  <2>3. Verdict(sum[0], c) = "none"
    BY <2>1, <2>2, VerdictIsLast
  <2> QED BY <2>3 DEF Holds
<1>4. ASSUME NEW m \in Nat, m \in M PROVE m + 1 \in M
  <2> SUFFICES ASSUME m + 1 <= n PROVE Holds(m + 1)
    OBVIOUS
  <2>1. m \in 0..n /\ m + 1 \in 1..n /\ m <= n /\ (m + 1) - 1 = m
    BY <1>2
  <2>2. Holds(m)
    BY <1>4, <2>1
  <2>3. \A i \in 1..n : sum[i] = sum[i - 1] \o seqs[i]
    BY <1>1 DEF IsSum
  <2>4. sum[m + 1] = sum[m] \o seqs[m + 1]
    BY ONLY <2>1, <2>3, Zenon
  <2>5. sum[m] \in Seq(Filters) /\ seqs[m + 1] \in Seq(Filters) /\ ValidFilters(seqs[m + 1])
    BY <1>1, <1>2, <2>1
  <2>6. Verdict(sum[m + 1], c) =
            IF Verdict(seqs[m + 1], c) = "none" THEN Verdict(sum[m], c) ELSE Verdict(seqs[m + 1], c)
    BY <2>4, <2>5, VerdictOfConcat
  <2>7. 1..(m + 1) = 1..m \cup {m + 1}
    OBVIOUS
  <2> QED BY <2>2, <2>6, <2>7 DEF Holds
<1>5. n \in M
  <2> HIDE DEF M
  <2>1. Nat \subseteq M
    BY <1>3, <1>4, Induction
  <2> QED BY <1>2, <2>1
<1>6. Holds(n)
  BY <1>2, <1>5
<1> QED BY <1>1, <1>6 DEF Holds, n

\* The nearest directories come last and decide: what is found further up only counts where
\* nothing was decided before.
LEMMA OverrideGrows ==
    ASSUME NEW found \in Seq(Seq(Filters)), NEW more \in Seq(Seq(Filters)),
           \A i \in 1..Len(found) : ValidFilters(found[i]), NEW c
    PROVE  Verdict(ConfigOverride(found \o more), c) =
               IF Verdict(ConfigOverride(found), c) = "none" THEN Verdict(ConfigOverride(more), c)
               ELSE Verdict(ConfigOverride(found), c)
<1> DEFINE rf == Reverse(found)
           rm == Reverse(more)
<1>1. /\ rf \in Seq(Seq(Filters)) /\ rm \in Seq(Seq(Filters)) /\ Len(rf) = Len(found)
      /\ \A i \in 1..Len(found) : rf[i] = found[(Len(found) - i) + 1]
  BY ReverseElements
<1>2. Reverse(found \o more) = rm \o rf
  BY ReverseConcat
<1>3. \A i \in 1..Len(rf) : ValidFilters(rf[i])
  <2>1. \A i \in 1..Len(found) : (Len(found) - i) + 1 \in 1..Len(found)
    OBVIOUS
  <2> QED BY <1>1, <2>1
<1> HIDE DEF rf, rm
<1>4. FlattenSeq(rm \o rf) = FlattenSeq(rm) \o FlattenSeq(rf)
  BY <1>1, FlattenConcat
<1>5. FlattenSeq(rm) \in Seq(Filters) /\ FlattenSeq(rf) \in Seq(Filters)
  BY <1>1, FlattenType
<1>6. ValidFilters(FlattenSeq(rf))
  <2>1. \A k \in 1..Len(FlattenSeq(rf)) :
            \E i \in 1..Len(rf) : \E j \in 1..Len(rf[i]) : FlattenSeq(rf)[k] = rf[i][j]
    BY <1>1, FlattenElements
  <2>2. \A i \in 1..Len(rf) : \A j \in 1..Len(rf[i]) : rf[i][j].sign \in {"+", "-"}
    BY <1>1, <1>3 DEF ValidFilters
  <2>3. DOMAIN FlattenSeq(rf) = 1..Len(FlattenSeq(rf))
    BY <1>5
  <2> QED BY <2>1, <2>2, <2>3 DEF ValidFilters
<1>7. Verdict(FlattenSeq(rm) \o FlattenSeq(rf), c) =
          IF Verdict(FlattenSeq(rf), c) = "none" THEN Verdict(FlattenSeq(rm), c)
          ELSE Verdict(FlattenSeq(rf), c)
  BY <1>5, <1>6, VerdictOfConcat
<1> QED BY <1>2, <1>4, <1>7 DEF ConfigOverride, rf, rm

\* Of the filters of one configuration file, one decides, unless none does.
LEMMA OverrideVerdict ==
    ASSUME NEW found \in Seq(Seq(Filters)), \A i \in 1..Len(found) : ValidFilters(found[i]), NEW c
    PROVE  \/ /\ \A i \in 1..Len(found) : Verdict(found[i], c) = "none"
              /\ Verdict(ConfigOverride(found), c) = "none"
           \/ \E i \in 1..Len(found) : /\ Verdict(found[i], c) # "none"
                                       /\ Verdict(ConfigOverride(found), c) = Verdict(found[i], c)
<1> DEFINE rf == Reverse(found)
           n == Len(found)
<1>1. /\ rf \in Seq(Seq(Filters)) /\ Len(rf) = n
      /\ \A i \in 1..n : rf[i] = found[(n - i) + 1]
  BY ReverseElements
<1>2. \A i \in 1..n : (n - i) + 1 \in 1..n /\ (n - ((n - i) + 1)) + 1 = i
  OBVIOUS
<1> HIDE DEF rf, n
<1>3. \A i \in 1..n : found[i] = rf[(n - i) + 1]
  BY <1>1, <1>2
<1>4. \A i \in 1..Len(rf) : ValidFilters(rf[i])
  BY <1>1, <1>2 DEF n
<1>5. \/ /\ \A i \in 1..n : Verdict(rf[i], c) = "none"
         /\ Verdict(FlattenSeq(rf), c) = "none"
      \/ \E i \in 1..n : /\ Verdict(rf[i], c) # "none"
                         /\ Verdict(FlattenSeq(rf), c) = Verdict(rf[i], c)
  BY <1>1, <1>4, VerdictOfFlatten
<1>6. ConfigOverride(found) = FlattenSeq(rf)
  BY DEF ConfigOverride, rf
<1>7. CASE \A i \in 1..n : Verdict(rf[i], c) = "none"
  <2>1. Verdict(FlattenSeq(rf), c) = "none"
    BY <1>5, <1>7
  <2>2. \A i \in 1..n : Verdict(found[i], c) = "none"
    BY <1>2, <1>3, <1>7
  <2> QED BY <1>6, <2>1, <2>2 DEF n
<1>8. ASSUME NEW i \in 1..n, Verdict(rf[i], c) # "none", Verdict(FlattenSeq(rf), c) = Verdict(rf[i], c)
      PROVE  \E k \in 1..n : /\ Verdict(found[k], c) # "none"
                             /\ Verdict(ConfigOverride(found), c) = Verdict(found[k], c)
  BY <1>1, <1>2, <1>6, <1>8
<1> QED BY <1>5, <1>7, <1>8 DEF n

-----------------------------------------------------------------------------
(* The search for configuration files *)
PathDepth == Len(TheFile.path.dir)

\* The signs that the configuration files of the directories give a category.
Signs(c) == [n \in 0..PathDepth |-> {Verdict(fs, c) : fs \in OptionsOf(n, "filter")} \ {"none"}]

\* The nearest of the directories that decide gives the verdict.
DecidedBy(signs, ns, verdict) ==
    LET deciding == {n \in ns : signs[n] # {}}
    IN IF deciding = {} THEN verdict = "none" ELSE verdict \in signs[Nearest(deciding)]

\* The directories at which the search stops.
Stopping == {n \in 0..PathDepth : HasOption(n, "set noparent") \/ HasOption(n, "unreadable")}

\* The directories whose configuration files have been read.
DirectoriesRead == (IF pc = "config" THEN level + 1 ELSE level)..PathDepth

\* The filters found so far decide as the configuration files read so far say.
SearchOK ==
    /\ level \in 0..PathDepth
    /\ cfg_filters \in Seq(Seq(Filters))
    /\ \A n \in (level + 1)..PathDepth : n \notin Stopping
    /\ pc = "filters" => level = 0 \/ level \in Stopping
    /\ (\A i \in 1..Len(cfg_filters) : ValidFilters(cfg_filters[i])) =>
           \A c \in ErrorCategories :
               DecidedBy(Signs(c), DirectoriesRead, Verdict(ConfigOverride(cfg_filters), c))

\* The run is one of the given inputs, with files of it left while one is linted.
InputsOK ==
    /\ \E i \in DOMAIN Worlds : world \in Worlds[i]
    /\ todo \in Seq(DOMAIN world.files)
    /\ pc \in FileStages => todo # <<>>

\* NearestFilterWins in terms of Signs and Verdict.
NearestBySigns ==
    pc = "read" =>
        /\ filters \in Seq(Filters)
        /\ \A c \in ErrorCategories :
              LET deciding == {n \in InForce : Signs(c)[n] # {}}
                  sign     == IF Verdict(filters, c) = "-" THEN "-" ELSE "+"
              IN IF deciding # {} THEN sign \in Signs(c)[Nearest(deciding)]
                 ELSE Verdict(filters, c) = "-" <=> Verdict(GivenFilters, c) = "-"

\* NearestFilterWins is inductive with what is true during the search.
SearchInv ==
    /\ InputsOK
    /\ pc \in {"config", "filters"} => SearchOK
    /\ NearestBySigns

\* What the search depends on stays the same during a file.
LEMMA SearchKept ==
    ASSUME UNCHANGED <<world, todo>>
    PROVE  /\ PathDepth' = PathDepth /\ Stopping' = Stopping /\ InForce' = InForce
           /\ \A c : Signs(c)' = Signs(c)
<1>1. TheFile' = TheFile
  BY DEF TheFile
<1>2. PathDepth' = PathDepth
  BY <1>1 DEF PathDepth
<1>3. \A n, name : (HasOption(n, name))' = HasOption(n, name)
  BY <1>1 DEF HasOption
<1>4. \A n, name : (OptionsOf(n, name))' = OptionsOf(n, name)
  BY <1>1 DEF OptionsOf
<1> QED BY <1>1, <1>2, <1>3, <1>4 DEF Stopping, InForce, Signs

\* The current file is one of the world's, and so are its options.
LEMMA FileTypes ==
    ASSUME InputsOK, todo # <<>>
    PROVE  /\ TheFile.path.dir \in Seq(STRING) /\ PathDepth \in Nat
           /\ \A d \in DOMAIN world.configs : IsOptions(world.configs[d])
<1>1. PICK i \in DOMAIN Worlds : world \in Worlds[i]
  BY DEF InputsOK
<1>2. /\ \A f \in DOMAIN world.files : world.files[f].path.dir \in Seq(STRING)
      /\ \A d \in DOMAIN world.configs : IsOptions(world.configs[d])
  BY <1>1, WorldsAssumption
<1>3. todo[1] \in DOMAIN world.files
  BY DEF InputsOK
<1>4. TheFile.path.dir \in Seq(STRING)
  BY <1>2, <1>3 DEF TheFile
<1> QED BY <1>2, <1>4 DEF PathDepth

\* The options of the directory that is looked at.
Here == world.configs[SubSeq(TheFile.path.dir, 1, level)]

\* A configuration file that does not exclude the file is read to its end.
LEMMA ConfigIsWhole ==
    ASSUME InputsOK, todo # <<>>, HasConfig, ~Excludes
    PROVE  Config = Here /\ IsOptions(Here)
<1>1. IsOptions(Here)
  BY FileTypes DEF HasConfig, Here
<1>2. Here \in Seq(ToSet(Here)) /\ Len(Here) \in Nat
  BY <1>1 DEF IsOptions
<1> DEFINE I == {i \in 1..Len(Here) : IsExclusion(Here[i])}
           at == IF I # {} THEN Min(I) ELSE 0
<1>3. Config = IF at = 0 THEN Here ELSE SubSeq(Here, 1, at)
  BY DEF Config, SelectInSeq, Here
<1>4. CASE I = {}
  BY <1>1, <1>3, <1>4
<1>5. CASE I # {}
  <2>1. I \in SUBSET Nat
    BY <1>2
  <2>2. PICK v \in I : \A w \in I : ~(w < v)
    BY <1>5, <2>1, LeastNatural
  <2>3. \E x \in I : \A y \in I : x =< y
    BY <2>1, <2>2
  <2>4. Min(I) \in I
    BY <2>3 DEF Min
  <2>5. at \in 1..Len(Here) /\ IsExclusion(Here[at])
    BY <1>5, <2>4
  <2> HIDE DEF at
  <2>6. Config = SubSeq(Here, 1, at)
    BY <1>3, <2>5
  <2>7. at \in DOMAIN Config /\ Config[at] = Here[at]
    BY <1>2, <2>5, <2>6
  <2>8. IsExclusion(Config[at])
    BY <2>5, <2>7
  <2> QED BY <2>7, <2>8 DEF Excludes
<1> QED BY <1>4, <1>5

\* The filters that are read are those of the directory's configuration file.
LEMMA FiltersOfConfig ==
    ASSUME InputsOK, todo # <<>>, HasConfig, ~Excludes, SearchOK
    PROVE  /\ ConfigFilters \in Seq(Seq(Filters))
           /\ OptionsOf(level, "filter") = {ConfigFilters[i] : i \in 1..Len(ConfigFilters)}
           /\ NoParent <=> level \in Stopping
<1> DEFINE parts == [i \in 1..Len(Here) |-> IF Here[i].name = "filter" THEN <<Here[i].value>> ELSE <<>>]
<1>1. Config = Here /\ IsOptions(Here)
  BY ConfigIsWhole
<1>2. Here \in Seq(ToSet(Here)) /\ Len(Here) \in Nat /\ DOMAIN Here = 1..Len(Here)
  BY <1>1 DEF IsOptions
<1>3. \A i \in 1..Len(Here) : Here[i].name = "filter" => Here[i].value \in Seq(Filters)
  BY <1>1, <1>2 DEF IsOptions
<1>4. parts \in Seq(Seq(Seq(Filters))) /\ Len(parts) = Len(Here)
  BY <1>2, <1>3
<1>5. \A i \in 1..Len(Here) : parts[i] = IF Here[i].name = "filter" THEN <<Here[i].value>> ELSE <<>>
  OBVIOUS
<1>6. ConfigFilters = FlattenSeq(parts)
  BY <1>1, <1>2 DEF ConfigFilters
<1> HIDE DEF parts
<1>7. FlattenSeq(parts) \in Seq(Seq(Filters))
  BY <1>4, FlattenType
<1>8. OptionsOf(level, "filter") = {Here[i].value : i \in {j \in 1..Len(Here) : Here[j].name = "filter"}}
  BY <1>2 DEF OptionsOf, HasConfig, Here
<1>9. /\ \A i \in 1..Len(parts) : \A j \in 1..Len(parts[i]) :
            \E k \in 1..Len(FlattenSeq(parts)) : FlattenSeq(parts)[k] = parts[i][j]
      /\ \A k \in 1..Len(FlattenSeq(parts)) :
            \E i \in 1..Len(parts) : \E j \in 1..Len(parts[i]) : FlattenSeq(parts)[k] = parts[i][j]
  BY <1>4, FlattenElements
<1>10. ASSUME NEW i \in 1..Len(Here), Here[i].name = "filter"
       PROVE  \E k \in 1..Len(FlattenSeq(parts)) : FlattenSeq(parts)[k] = Here[i].value
  <2>1. i \in 1..Len(parts) /\ parts[i] = <<Here[i].value>>
    BY <1>4, <1>5, <1>10
  <2>2. 1 \in 1..Len(parts[i]) /\ parts[i][1] = Here[i].value
    BY <2>1
  <2>3. PICK k \in 1..Len(FlattenSeq(parts)) : FlattenSeq(parts)[k] = parts[i][1]
    BY ONLY <1>9, <2>1, <2>2, Zenon
  <2> QED BY ONLY <2>2, <2>3, Zenon
<1>11. ASSUME NEW k \in 1..Len(FlattenSeq(parts))
       PROVE  \E i \in 1..Len(Here) : Here[i].name = "filter" /\ FlattenSeq(parts)[k] = Here[i].value
  <2>1. PICK i \in 1..Len(parts) : \E j \in 1..Len(parts[i]) : FlattenSeq(parts)[k] = parts[i][j]
    BY <1>9, <1>11
  <2>2. PICK j \in 1..Len(parts[i]) : FlattenSeq(parts)[k] = parts[i][j]
    BY <2>1
  <2>3. i \in 1..Len(Here)
    BY <1>4
  <2>4. Here[i].name = "filter"
    <3>1. SUFFICES ASSUME Here[i].name # "filter" PROVE FALSE
      OBVIOUS
    <3>2. parts[i] = <<>>
      BY <1>5, <2>3, <3>1
    <3>3. Len(parts[i]) = 0
      BY <3>2
    <3> QED BY <2>2, <3>3
  <2>5. parts[i] = <<Here[i].value>>
    BY <1>5, <2>3, <2>4
  <2>6. j = 1
    BY <2>2, <2>5
  <2>7. parts[i][j] = Here[i].value
    BY <2>5, <2>6
  <2> QED BY <2>2, <2>3, <2>4, <2>7
<1>12. OptionsOf(level, "filter") = {ConfigFilters[i] : i \in 1..Len(ConfigFilters)}
  <2> DEFINE flat == FlattenSeq(parts)
  <2> HIDE DEF flat
  <2>1. \A x : x \in OptionsOf(level, "filter")
                <=> \E i \in 1..Len(Here) : Here[i].name = "filter" /\ x = Here[i].value
    BY ONLY <1>8
  <2>2. \A i \in 1..Len(Here) : Here[i].name = "filter" => \E k \in 1..Len(flat) : flat[k] = Here[i].value
    BY <1>10 DEF flat
  <2>3. \A k \in 1..Len(flat) : \E i \in 1..Len(Here) : Here[i].name = "filter" /\ flat[k] = Here[i].value
    BY <1>11 DEF flat
  <2>4. OptionsOf(level, "filter") = {flat[k] : k \in 1..Len(flat)}
    <3>1. ASSUME NEW x \in OptionsOf(level, "filter") PROVE x \in {flat[k] : k \in 1..Len(flat)}
      <4>1. PICK i \in 1..Len(Here) : Here[i].name = "filter" /\ x = Here[i].value
        BY <2>1, <3>1
      <4>2. PICK k \in 1..Len(flat) : flat[k] = Here[i].value
        BY <2>2, <4>1
      <4> QED BY ONLY <4>1, <4>2
    <3>2. ASSUME NEW k \in 1..Len(flat) PROVE flat[k] \in OptionsOf(level, "filter")
      BY <2>1, <2>3, <3>2
    <3> QED BY ONLY <3>1, <3>2
  <2> QED BY <1>6, <2>4 DEF flat
<1>13. NoParent <=> level \in Stopping
  <2>1. NoParent <=> \E i \in DOMAIN Here : Here[i].name \in {"set noparent", "unreadable"}
    BY <1>1 DEF NoParent
  <2>2. \A name : HasOption(level, name) <=> \E i \in DOMAIN Here : Here[i].name = name
    BY DEF HasOption, HasConfig, Here
  <2>3. level \in 0..PathDepth
    BY DEF SearchOK
  <2> QED BY <2>1, <2>2, <2>3 DEF Stopping
<1> QED BY <1>6, <1>7, <1>12, <1>13

\* Nearest takes the greatest element.
LEMMA NearestIs ==
    ASSUME NEW D \in SUBSET Nat, NEW m \in D, \A k \in D : k <= m
    PROVE  Nearest(D) = m
<1>1. Nearest(D) \in D /\ \A k \in D : k <= Nearest(D)
  BY DEF Nearest
<1>2. Nearest(D) <= m /\ m <= Nearest(D) /\ m \in Nat /\ Nearest(D) \in Nat
  BY <1>1
<1> QED BY <1>2

\* One more directory is looked at, further up than those before.
LEMMA DecidedFurtherUp ==
    ASSUME NEW signs, NEW N \in Nat, NEW L \in 0..N, NEW old, NEW new,
           DecidedBy(signs, (L + 1)..N, old),
           \A n \in 0..N : "none" \notin signs[n],
           old # "none" => new = old,
           old = "none" => (signs[L] = {} /\ new = "none") \/ new \in signs[L]
    PROVE  DecidedBy(signs, L..N, new)
<1> DEFINE D == {n \in (L + 1)..N : signs[n] # {}}
           E == {n \in L..N : signs[n] # {}}
<1>1. IF D = {} THEN old = "none" ELSE old \in signs[Nearest(D)]
  BY DEF DecidedBy
<1>2. D \in SUBSET (0..N) /\ D \in SUBSET Nat /\ E \in SUBSET Nat
  OBVIOUS
<1>3. CASE D # {}
  <2>1. PICK m \in D : \A k \in D : k <= m
    BY <1>2, <1>3, LastPosition
  <2>2. m \in E /\ m > L
    BY <2>1
  <2>3. \A k \in E : k \in D \/ k = L
    OBVIOUS
  <2>4. \A k \in E : k <= m
    BY <2>1, <2>2, <2>3
  <2> HIDE DEF D, E
  <2>5. Nearest(D) = m
    BY <1>2, <2>1, NearestIs
  <2>6. Nearest(E) = m
    BY <1>2, <2>2, <2>4, NearestIs
  <2>7. old \in signs[m] /\ m \in 0..N
    BY <1>1, <1>2, <1>3, <2>1, <2>5
  <2>8. new \in signs[Nearest(E)]
    BY <2>6, <2>7
  <2> QED BY <2>2, <2>8 DEF DecidedBy, E
<1>4. CASE D = {} /\ signs[L] = {}
  <2>1. E = {}
    BY <1>4
  <2>2. new = "none"
    BY <1>1, <1>4
  <2> HIDE DEF D
  <2> QED BY <2>1, <2>2 DEF DecidedBy
<1>5. CASE D = {} /\ signs[L] # {}
  <2>1. new \in signs[L]
    BY <1>1, <1>5
  <2>2. E = {L}
    BY <1>5
  <2> HIDE DEF D, E
  <2>3. Nearest(E) = L
    BY <1>2, <2>2, NearestIs
  <2> QED BY <2>1, <2>2, <2>3 DEF DecidedBy, E
<1> QED BY <1>3, <1>4, <1>5

\* Going up keeps the invariant if the filters now include those of the directory.
LEMMA GoUpKeepsSearch ==
    ASSUME InputsOK, todo # <<>>, SearchOK, pc = "config", UNCHANGED <<world, todo>>,
           NEW stop \in BOOLEAN, GoUp(stop), stop <=> level \in Stopping,
           cfg_filters' \in Seq(Seq(Filters)),
           (\A i \in 1..Len(cfg_filters') : ValidFilters(cfg_filters'[i])) =>
               \A c \in ErrorCategories :
                   DecidedBy(Signs(c), level..PathDepth, Verdict(ConfigOverride(cfg_filters'), c))
    PROVE  pc' \in {"config", "filters"} /\ SearchOK'
<1>1. /\ PathDepth' = PathDepth /\ Stopping' = Stopping
      /\ \A c : Signs(c)' = Signs(c)
  BY SearchKept
<1>2. PathDepth \in Nat /\ level \in 0..PathDepth /\ \A n \in (level + 1)..PathDepth : n \notin Stopping
  BY FileTypes DEF SearchOK
<1>3. \/ pc' = "filters" /\ level' = level /\ (level = 0 \/ stop)
      \/ pc' = "config" /\ level' = level - 1 /\ level # 0 /\ ~stop
  BY DEF GoUp
<1>4. DirectoriesRead' = level..PathDepth
  BY <1>1, <1>2, <1>3 DEF DirectoriesRead
<1>5. level' \in 0..PathDepth' /\ \A n \in (level' + 1)..PathDepth' : n \notin Stopping'
  BY <1>1, <1>2, <1>3
<1>6. pc' = "filters" => level' = 0 \/ level' \in Stopping'
  BY <1>1, <1>3
<1>7. (\A i \in 1..Len(cfg_filters') : ValidFilters(cfg_filters'[i])) =>
          \A c \in ErrorCategories :
              DecidedBy(Signs(c)', DirectoriesRead', Verdict(ConfigOverride(cfg_filters'), c))
  BY <1>1, <1>4
<1>8. SearchOK'
  BY <1>5, <1>6, <1>7 DEF SearchOK
<1> QED BY <1>3, <1>8

\* No verdict counts as none.
LEMMA SignsAreVerdicts ==
    ASSUME NEW c, NEW n \in 0..PathDepth
    PROVE  /\ Signs(c)[n] = {Verdict(fs, c) : fs \in OptionsOf(n, "filter")} \ {"none"}
           /\ "none" \notin Signs(c)[n]
BY DEF Signs

\* A directory without a configuration file decides nothing.
LEMMA SkipKeepsSearch ==
    ASSUME InputsOK, todo # <<>>, SearchOK, SkipDirectory
    PROVE  pc' \in {"config", "filters"} /\ SearchOK'
<1>1. level \in 0..PathDepth /\ PathDepth \in Nat
  BY FileTypes DEF SearchOK
<1>2. OptionsOf(level, "filter") = {} /\ level \notin Stopping
  BY DEF SkipDirectory, HasConfig, OptionsOf, HasOption, Stopping
<1>3. ASSUME \A i \in 1..Len(cfg_filters) : ValidFilters(cfg_filters[i]), NEW c \in ErrorCategories
      PROVE  DecidedBy(Signs(c), level..PathDepth, Verdict(ConfigOverride(cfg_filters), c))
  <2>1. DecidedBy(Signs(c), (level + 1)..PathDepth, Verdict(ConfigOverride(cfg_filters), c))
    BY <1>3 DEF SearchOK, DirectoriesRead, SkipDirectory
  <2>2. Signs(c)[level] = {}
    BY <1>1, <1>2, SignsAreVerdicts
  <2>3. \A n \in 0..PathDepth : "none" \notin Signs(c)[n]
    BY SignsAreVerdicts
  <2> QED BY <1>1, <2>1, <2>2, <2>3, DecidedFurtherUp
<1>4. pc = "config" /\ GoUp(FALSE) /\ UNCHANGED <<world, todo>> /\ cfg_filters' = cfg_filters
  BY DEF SkipDirectory
<1>5. cfg_filters \in Seq(Seq(Filters))
  BY DEF SearchOK
<1> QED BY <1>2, <1>3, <1>4, <1>5, GoUpKeepsSearch

\* The filters of the directory are added to those found.
LEMMA ReadKeepsSearch ==
    ASSUME InputsOK, todo # <<>>, SearchOK, ReadConfig
    PROVE  pc' \in {"config", "filters"} /\ SearchOK'
<1>1. level \in 0..PathDepth /\ PathDepth \in Nat /\ cfg_filters \in Seq(Seq(Filters))
  BY FileTypes DEF SearchOK
<1>2. /\ ConfigFilters \in Seq(Seq(Filters))
      /\ OptionsOf(level, "filter") = {ConfigFilters[i] : i \in 1..Len(ConfigFilters)}
      /\ NoParent <=> level \in Stopping
  BY FiltersOfConfig DEF ReadConfig
<1>3. /\ pc = "config" /\ GoUp(NoParent) /\ UNCHANGED <<world, todo>>
      /\ cfg_filters' = cfg_filters \o ConfigFilters
  BY DEF ReadConfig, inputVars
<1>4. PICK more \in Seq(Seq(Filters)) : more = ConfigFilters
  BY <1>2
<1>5. /\ cfg_filters' \in Seq(Seq(Filters)) /\ Len(cfg_filters') = Len(cfg_filters) + Len(more)
      /\ \A i \in 1..Len(cfg_filters) : cfg_filters'[i] = cfg_filters[i]
      /\ \A i \in 1..Len(more) : cfg_filters'[Len(cfg_filters) + i] = more[i]
  BY <1>1, <1>3, <1>4
<1>6. ASSUME \A i \in 1..Len(cfg_filters') : ValidFilters(cfg_filters'[i]), NEW c \in ErrorCategories
      PROVE  DecidedBy(Signs(c), level..PathDepth, Verdict(ConfigOverride(cfg_filters'), c))
  <2> DEFINE old == Verdict(ConfigOverride(cfg_filters), c)
             new == Verdict(ConfigOverride(cfg_filters'), c)
             here == Verdict(ConfigOverride(more), c)
  <2>0. Len(cfg_filters) \in Nat /\ Len(more) \in Nat
    BY <1>1
  <2>1. \A i \in 1..Len(cfg_filters) : ValidFilters(cfg_filters[i])
    <3>1. \A i \in 1..Len(cfg_filters) : i \in 1..Len(cfg_filters')
      BY <1>5, <2>0
    <3> QED BY <1>5, <1>6, <3>1
  <2>2. \A i \in 1..Len(more) : ValidFilters(more[i])
    <3>1. \A i \in 1..Len(more) : Len(cfg_filters) + i \in 1..Len(cfg_filters')
      BY <1>5, <2>0
    <3> QED BY <1>5, <1>6, <3>1
  <2>3. DecidedBy(Signs(c), (level + 1)..PathDepth, old)
    BY <1>3, <2>1 DEF SearchOK, DirectoriesRead
  <2>4. new = IF old = "none" THEN here ELSE old
    BY <1>1, <1>3, <1>4, <2>1, OverrideGrows
  <2>5. Signs(c)[level] = {Verdict(fs, c) : fs \in OptionsOf(level, "filter")} \ {"none"}
    BY <1>1, SignsAreVerdicts
  <2>6. \/ (\A i \in 1..Len(more) : Verdict(more[i], c) = "none") /\ here = "none"
        \/ \E i \in 1..Len(more) : Verdict(more[i], c) # "none" /\ here = Verdict(more[i], c)
    BY <2>2, OverrideVerdict
  <2> HIDE DEF old, new, here
  <2>7. OptionsOf(level, "filter") = {more[i] : i \in 1..Len(more)}
    BY <1>2, <1>4
  <2>8. (Signs(c)[level] = {} /\ here = "none") \/ here \in Signs(c)[level]
    <3>1. CASE (\A i \in 1..Len(more) : Verdict(more[i], c) = "none") /\ here = "none"
      BY <2>5, <2>7, <3>1
    <3>2. CASE \E i \in 1..Len(more) : Verdict(more[i], c) # "none" /\ here = Verdict(more[i], c)
      BY <2>5, <2>7, <3>2
    <3> QED BY <2>6, <3>1, <3>2
  <2>9. \A n \in 0..PathDepth : "none" \notin Signs(c)[n]
    BY SignsAreVerdicts
  <2>10. DecidedBy(Signs(c), level..PathDepth, new)
    BY <1>1, <2>3, <2>4, <2>8, <2>9, DecidedFurtherUp
  <2> QED BY <2>10 DEF new
<1>7. NoParent \in BOOLEAN
  BY DEF NoParent
<1> QED BY <1>2, <1>3, <1>5, <1>6, <1>7, GoUpKeepsSearch

\* The search starts with nothing found.
LEMMA StartBeginsSearch ==
    ASSUME InputsOK, StartFile
    PROVE  SearchOK'
<1>1. /\ todo # <<>> /\ UNCHANGED <<world, todo>> /\ pc' = "config"
      /\ level' = PathDepth /\ cfg_filters' = <<>>
  BY DEF StartFile, PathDepth
<1>2. PathDepth' = PathDepth /\ PathDepth \in Nat
  BY <1>1, FileTypes, SearchKept
<1>3. DirectoriesRead' = (PathDepth + 1)..PathDepth
  BY <1>1, <1>2 DEF DirectoriesRead
<1>4. DirectoriesRead' = {} /\ (level' + 1)..PathDepth' = {} /\ level' \in 0..PathDepth'
  BY <1>1, <1>2, <1>3
<1>5. ASSUME NEW c PROVE Verdict(ConfigOverride(cfg_filters'), c) = "none"
  <2>1. cfg_filters' \in Seq(Seq(Filters)) /\ Len(cfg_filters') = 0
    BY <1>1, EmptySeq
  <2>2. 1..Len(cfg_filters') = {}
    BY <2>1
  <2> QED BY <2>1, <2>2, OverrideVerdict
<1>6. \A c : DecidedBy(Signs(c)', DirectoriesRead', Verdict(ConfigOverride(cfg_filters'), c))
  BY <1>4, <1>5 DEF DecidedBy
<1> QED BY <1>1, <1>4, <1>6 DEF SearchOK

\* At its end the search has read the directories that are in force.
LEMMA SearchIsComplete ==
    ASSUME InputsOK, todo # <<>>, SearchOK, pc = "filters"
    PROVE  InForce = DirectoriesRead
<1>1. PathDepth \in Nat /\ level \in 0..PathDepth /\ (level = 0 \/ level \in Stopping)
      /\ \A n \in (level + 1)..PathDepth : n \notin Stopping
  BY FileTypes DEF SearchOK
<1>2. DirectoriesRead = level..PathDepth
  BY DEF DirectoriesRead
<1>3. InForce = {n \in 0..PathDepth : \A m \in (n + 1)..PathDepth : m \notin Stopping}
  <2>1. \A n \in 0..PathDepth : \A m \in (n + 1)..PathDepth :
            m \notin Stopping <=> ~HasOption(m, "set noparent") /\ ~HasOption(m, "unreadable")
    <3>1. \A n \in 0..PathDepth : \A m \in (n + 1)..PathDepth : m \in 0..PathDepth
      BY <1>1
    <3> QED BY <3>1 DEF Stopping
  <2> QED BY <2>1 DEF InForce, PathDepth
<1>4. ASSUME NEW n \in level..PathDepth PROVE n \in InForce
  BY <1>1, <1>3
<1>5. ASSUME NEW n \in InForce PROVE n \in level..PathDepth
  <2>1. n \in 0..PathDepth /\ \A m \in (n + 1)..PathDepth : m \notin Stopping
    BY <1>3
  <2>2. ~(n < level)
    BY <1>1, <2>1
  <2> QED BY <1>1, <2>1, <2>2
<1> QED BY <1>2, <1>4, <1>5

\* IsFiltered asks for the verdict of the filters in force.
LEMMA FilteredByVerdict ==
    ASSUME NEW c, filters \in Seq(Filters)
    PROVE  IsFiltered(c) <=> Verdict(filters, c) = "-"
<1> DEFINE I == {i \in 1..Len(filters) : StartsWith(c, filters[i].prefix)}
           at == IF I # {} THEN Max(I) ELSE 0
<1>1. IsFiltered(c) <=> at > 0 /\ filters[at].sign = "-"
  BY DEF IsFiltered, SelectLastInSeq
<1>2. Verdict(filters, c) = IF at = 0 THEN "none" ELSE filters[at].sign
  BY DEF Verdict, SelectLastInSeq
<1>3. at \in Nat
  <2>1. CASE I # {}
    <3>1. Len(filters) \in Nat /\ I \in SUBSET (0..Len(filters))
      OBVIOUS
    <3>2. PICK i \in I : \A j \in I : j <= i
      BY <2>1, <3>1, LastPosition
    <3>3. \E x \in I : \A y \in I : x >= y
      BY <3>2
    <3>4. Max(I) \in I
      BY <3>3 DEF Max
    <3> QED BY <2>1, <3>4
  <2> QED BY <2>1
<1> HIDE DEF at
<1> QED BY <1>1, <1>2, <1>3

\* The filters of the command line are filters.
LEMMA GivenFiltersType ==
    ASSUME InputsOK
    PROVE  GivenFilters \in Seq(Filters)
<1>1. PICK i \in DOMAIN Worlds : world \in Worlds[i]
  BY DEF InputsOK
<1>2. IsOptions(world.args.options) /\ DefaultFilters \in Seq(Filters)
  BY <1>1, WorldsAssumption
<1> DEFINE options == world.args.options
           I == {k \in 1..Len(options) : options[k].name = "filter"}
           at == IF I # {} THEN Max(I) ELSE 0
<1>3. Option("filter", <<>>) = IF at = 0 THEN <<>> ELSE options[at].value
  BY DEF Option, SelectLastInSeq
<1>4. /\ Len(options) \in Nat /\ DOMAIN options = 1..Len(options)
      /\ \A k \in 1..Len(options) : options[k].name = "filter" => options[k].value \in Seq(Filters)
  BY <1>2 DEF IsOptions
<1>5. at = 0 \/ at \in I
  <2>1. CASE I # {}
    <3>1. I \in SUBSET (0..Len(options))
      OBVIOUS
    <3>2. PICK k \in I : \A j \in I : j <= k
      BY <1>4, <2>1, <3>1, LastPosition
    <3>3. \E x \in I : \A y \in I : x >= y
      BY <3>2
    <3> QED BY <2>1, <3>3 DEF Max
  <2> QED BY <2>1
<1>6. Option("filter", <<>>) \in Seq(Filters)
  <2>1. CASE at = 0
    <3>1. Option("filter", <<>>) = <<>>
      BY <1>3, <2>1
    <3> QED BY <3>1, EmptySeq
  <2>2. CASE at # 0
    <3>1. at \in 1..Len(options) /\ options[at].name = "filter"
      BY <1>5, <2>2
    <3> HIDE DEF at
    <3> QED BY <1>3, <1>4, <2>2, <3>1
  <2> QED BY <2>1, <2>2
<1> QED BY <1>2, <1>6 DEF GivenFilters

\* NearestFilterWins follows.
LEMMA NearestBySignsWins ==
    ASSUME InputsOK, NearestBySigns
    PROVE  NearestFilterWins
<1> SUFFICES ASSUME pc = "read", NEW c \in ErrorCategories
             PROVE  LET Verdicts(n) == {Verdict(fs, c) : fs \in OptionsOf(n, "filter")} \ {"none"}
                        deciding    == {n \in InForce : Verdicts(n) # {}}
                        sign        == IF IsFiltered(c) THEN "-" ELSE "+"
                    IN IF deciding # {} THEN sign \in Verdicts(Nearest(deciding))
                       ELSE IsFiltered(c) <=> Verdict(GivenFilters, c) = "-"
  BY DEF NearestFilterWins
<1> DEFINE Verdicts(n) == {Verdict(fs, c) : fs \in OptionsOf(n, "filter")} \ {"none"}
           deciding    == {n \in InForce : Verdicts(n) # {}}
           decided     == {n \in InForce : Signs(c)[n] # {}}
           sign        == IF IsFiltered(c) THEN "-" ELSE "+"
<1>1. \A n \in 0..PathDepth : Signs(c)[n] = Verdicts(n)
  BY SignsAreVerdicts
<1>2. todo # <<>>
  BY DEF InputsOK, FileStages
<1>3. InForce \in SUBSET (0..PathDepth) /\ PathDepth \in Nat
  BY <1>2, FileTypes DEF InForce, PathDepth
<1> HIDE DEF Verdicts
<1>4. deciding = decided
  BY <1>1, <1>3
<1>5. IsFiltered(c) <=> Verdict(filters, c) = "-"
  BY FilteredByVerdict DEF NearestBySigns
<1>6. IF decided # {} THEN sign \in Signs(c)[Nearest(decided)]
      ELSE IsFiltered(c) <=> Verdict(GivenFilters, c) = "-"
  BY <1>5 DEF NearestBySigns
<1>7. decided # {} => Nearest(decided) \in 0..PathDepth
  <2> SUFFICES ASSUME decided # {} PROVE Nearest(decided) \in 0..PathDepth
    OBVIOUS
  <2>1. decided \in SUBSET (0..PathDepth) /\ decided \in SUBSET Nat
    <3>1. \A k \in decided : k \in InForce
      OBVIOUS
    <3>2. \A k \in 0..PathDepth : k \in Nat
      OBVIOUS
    <3> HIDE DEF decided
    <3> QED BY <1>3, <3>1, <3>2
  <2> HIDE DEF decided
  <2>2. PICK m \in decided : \A k \in decided : k <= m
    BY <1>3, <2>1, LastPosition
  <2> QED BY <2>1, <2>2, NearestIs
<1> HIDE DEF deciding, decided, sign
<1>8. IF deciding # {} THEN sign \in Verdicts(Nearest(deciding))
      ELSE IsFiltered(c) <=> Verdict(GivenFilters, c) = "-"
  BY <1>1, <1>4, <1>6, <1>7
<1> QED BY <1>8 DEF deciding, sign, Verdicts

\* The filters that are added decide as the nearest configuration file says.
LEMMA ApplyMakesNearestWin ==
    ASSUME InputsOK, todo # <<>>, SearchOK, filters = GivenFilters, ApplyFilters
    PROVE  NearestBySigns'
<1> DEFINE override == ConfigOverride(cfg_filters)
<1>1. /\ pc = "filters" /\ ValidFilters(override) /\ filters' = filters \o override
      /\ UNCHANGED <<world, todo>>
  BY DEF ApplyFilters, AddFilters
<1>2. /\ InForce' = InForce /\ GivenFilters' = GivenFilters
      /\ PathDepth' = PathDepth /\ \A c : Signs(c)' = Signs(c)
  BY <1>1, SearchKept, GivenFiltersKept
<1>3. cfg_filters \in Seq(Seq(Filters))
  BY DEF SearchOK
<1>4. /\ Reverse(cfg_filters) \in Seq(Seq(Filters)) /\ Len(Reverse(cfg_filters)) = Len(cfg_filters)
      /\ \A i \in 1..Len(cfg_filters) : Reverse(cfg_filters)[i] = cfg_filters[(Len(cfg_filters) - i) + 1]
  BY <1>3, ReverseElements
<1>5. override \in Seq(Filters)
  BY <1>4, FlattenType DEF ConfigOverride
<1>6. \A i \in 1..Len(cfg_filters) : ValidFilters(cfg_filters[i])
  <2> DEFINE n == Len(cfg_filters)
             rev == Reverse(cfg_filters)
  <2>1. \A i \in 1..n : (n - i) + 1 \in 1..n /\ (n - ((n - i) + 1)) + 1 = i
    BY <1>3
  <2> HIDE DEF n, rev
  <2>2. \A i \in 1..n : cfg_filters[i] = rev[(n - i) + 1]
    BY <1>4, <2>1 DEF n, rev
  <2>3. \A i \in 1..n : \A j \in 1..Len(rev[i]) : \E k \in 1..Len(override) : override[k] = rev[i][j]
    BY <1>4, FlattenElements DEF ConfigOverride, n, rev
  <2>4. \A k \in 1..Len(override) : override[k].sign \in {"+", "-"}
    BY <1>1, <1>5 DEF ValidFilters
  <2> HIDE DEF override
  <2>5. \A i \in 1..n : \A j \in 1..Len(rev[i]) : rev[i][j].sign \in {"+", "-"}
    BY <2>3, <2>4
  <2>6. ASSUME NEW i \in 1..n PROVE ValidFilters(cfg_filters[i])
    <3>1. (n - i) + 1 \in 1..n /\ cfg_filters[i] = rev[(n - i) + 1]
      BY <2>1, <2>2
    <3>2. cfg_filters[i] \in Seq(Filters)
      BY <1>3 DEF n
    <3>3. DOMAIN cfg_filters[i] = 1..Len(cfg_filters[i])
      BY <3>2
    <3> QED BY <2>5, <3>1, <3>3 DEF ValidFilters
  <2> QED BY <2>6 DEF n
<1>7. filters' \in Seq(Filters) /\ GivenFilters \in Seq(Filters)
  BY <1>1, <1>5, GivenFiltersType
<1> HIDE DEF override
<1>8. ASSUME NEW c \in ErrorCategories
      PROVE  LET deciding == {n \in InForce : Signs(c)[n] # {}}
                 sign     == IF Verdict(filters', c) = "-" THEN "-" ELSE "+"
             IN IF deciding # {} THEN sign \in Signs(c)[Nearest(deciding)]
                ELSE Verdict(filters', c) = "-" <=> Verdict(GivenFilters, c) = "-"
  <2> DEFINE deciding == {n \in InForce : Signs(c)[n] # {}}
             v == Verdict(override, c)
  <2>1. DecidedBy(Signs(c), InForce, v)
    BY <1>1, <1>6, SearchIsComplete DEF SearchOK, override
  <2>2. IF deciding = {} THEN v = "none" ELSE v \in Signs(c)[Nearest(deciding)]
    BY <2>1 DEF DecidedBy
  <2>3. Verdict(filters', c) = IF v = "none" THEN Verdict(GivenFilters, c) ELSE v
    BY <1>1, <1>5, <1>7, VerdictOfConcat
  <2>4. v \in {"none", "+", "-"}
    <3>1. \A i \in 1..Len(override) : override[i].sign \in {"+", "-"}
      BY <1>1, <1>5 DEF ValidFilters
    <3> QED BY <1>5, <3>1, VerdictIsLast DEF IsLast
  <2>5. CASE deciding = {}
    BY <2>2, <2>3, <2>5
  <2>6. CASE deciding # {}
    <3>1. InForce \in SUBSET (0..PathDepth) /\ PathDepth \in Nat
      BY FileTypes DEF InForce, PathDepth
    <3>2. deciding \in SUBSET (0..PathDepth)
      BY <3>1
    <3>3. PICK m \in deciding : \A k \in deciding : k <= m
      BY <2>6, <3>1, <3>2, LastPosition
    <3>4. deciding \in SUBSET Nat
      BY <3>1, <3>2
    <3> HIDE DEF deciding
    <3>5. Nearest(deciding) = m /\ m \in 0..PathDepth
      BY <3>2, <3>3, <3>4, NearestIs
    <3>6. v \in Signs(c)[Nearest(deciding)] /\ v # "none"
      BY <2>2, <2>6, <3>5, SignsAreVerdicts
    <3>7. Verdict(filters', c) = v /\ v \in {"+", "-"}
      BY <2>3, <2>4, <3>6
    <3>8. (IF Verdict(filters', c) = "-" THEN "-" ELSE "+") \in Signs(c)[Nearest(deciding)]
      BY <3>6, <3>7
    <3> QED BY <2>6, <3>8 DEF deciding
  <2> QED BY <2>5, <2>6
<1>9. \A c \in ErrorCategories :
          LET deciding == {n \in InForce' : Signs(c)'[n] # {}}
              sign     == IF Verdict(filters', c) = "-" THEN "-" ELSE "+"
          IN IF deciding # {} THEN sign \in Signs(c)'[Nearest(deciding)]
             ELSE Verdict(filters', c) = "-" <=> Verdict(GivenFilters', c) = "-"
  BY <1>2, <1>8
<1> QED BY <1>7, <1>9 DEF NearestBySigns

\* The inputs never change, and files are only taken from the list.
LEMMA InputsKept ==
    ASSUME InputsOK, FiltersInv, [Next]_vars
    PROVE  InputsOK'
<1> USE DEF FileStages, TextStages
<1>1. world' = world
  BY DEF Next, Step, TextStep, Done, vars, ParseArguments, RefuseArguments, StartFile, ReadConfig,
         SkipDirectory, IgnoreExcluded, ApplyFilters, RefuseFilters, SkipFile, BeginFileData, Finish,
         CheckForCopyright, ProcessGlobalSuppressions, CleanseText, CheckHeaderGuardIfndef,
         CheckHeaderGuardEndif, ProcessLine, EndFileData, FinishFile, inputVars
<1>2. CASE ParseArguments
  <2>1. todo' = world.args.files /\ pc' = "file"
    BY <1>2 DEF ParseArguments
  <2>2. world.args.files \in Seq(DOMAIN world.files)
    BY WorldsAssumption DEF InputsOK
  <2> QED BY <1>1, <2>1, <2>2 DEF InputsOK
<1>3. CASE UNCHANGED todo /\ (pc' \in FileStages => todo # <<>>)
  BY <1>1, <1>3 DEF InputsOK
<1>4. CASE EndFile /\ todo # <<>>
  BY <1>1, <1>4 DEF InputsOK, EndFile
<1>5. CASE UNCHANGED todo /\ pc \in FileStages
  BY <1>3, <1>5 DEF InputsOK
<1>6. CASE UNCHANGED todo /\ pc' \notin FileStages
  BY <1>3, <1>6
<1>7. CASE Step /\ ~ParseArguments
  <2>1. CASE RefuseArguments \/ RefuseFilters \/ Finish
    BY <1>6, <2>1 DEF RefuseArguments, RefuseFilters, Finish, Exit
  <2>2. CASE StartFile
    BY <1>3, <2>2 DEF StartFile
  <2>3. CASE ReadConfig \/ SkipDirectory \/ ApplyFilters \/ BeginFileData
    BY <1>5, <2>3 DEF ReadConfig, SkipDirectory, ApplyFilters, BeginFileData
  <2>4. CASE IgnoreExcluded \/ SkipFile
    BY <1>4, <2>4 DEF IgnoreExcluded, SkipFile, InputsOK
  <2> QED BY <1>7, <2>1, <2>2, <2>3, <2>4 DEF Step
<1>8. CASE TextStep
  <2>1. CASE FinishFile
    BY <1>4, <2>1 DEF FinishFile, InputsOK
  <2>2. CASE ~FinishFile
    BY <1>5, <1>8, <2>2 DEF TextStep, CheckForCopyright, ProcessGlobalSuppressions, CleanseText,
         CheckHeaderGuardIfndef, CheckHeaderGuardEndif, ProcessLine, EndFileData, inputVars
  <2> QED BY <2>1, <2>2
<1>9. CASE UNCHANGED vars
  BY <1>3, <1>9 DEF vars, InputsOK
<1> QED BY <1>2, <1>7, <1>8, <1>9 DEF Next, Done

\* The search is only under way between StartFile and ApplyFilters.
LEMMA SearchSteps ==
    ASSUME SearchInv, FiltersInv, [Next]_vars
    PROVE  /\ pc' \in {"config", "filters"} => SearchOK'
           /\ NearestBySigns'
<1> USE DEF FileStages, TextStages
<1>1. InputsOK
  BY DEF SearchInv
<1>2. ASSUME pc' \notin {"config", "filters", "read"}
      PROVE  /\ pc' \in {"config", "filters"} => SearchOK'
             /\ NearestBySigns'
  BY <1>2 DEF NearestBySigns
<1>3. CASE StartFile
  BY <1>1, <1>3, StartBeginsSearch DEF StartFile, NearestBySigns
<1>4. CASE SkipDirectory \/ ReadConfig
  <2>1. todo # <<>> /\ SearchOK
    BY <1>1, <1>4 DEF SkipDirectory, ReadConfig, SearchInv, InputsOK
  <2> QED BY <1>1, <1>4, <2>1, SkipKeepsSearch, ReadKeepsSearch DEF NearestBySigns
<1>5. CASE ApplyFilters
  <2>1. todo # <<>> /\ SearchOK /\ filters = GivenFilters /\ pc' = "read"
    BY <1>1, <1>5 DEF ApplyFilters, SearchInv, InputsOK, FiltersInv
  <2> QED BY <1>1, <1>5, <2>1, ApplyMakesNearestWin
<1>6. CASE Step /\ ~(StartFile \/ SkipDirectory \/ ReadConfig \/ ApplyFilters)
  BY <1>2, <1>6 DEF Step, ParseArguments, RefuseArguments, IgnoreExcluded, RefuseFilters, SkipFile,
       BeginFileData, Finish, EndFile, Exit
<1>7. CASE TextStep
  BY <1>2, <1>7 DEF TextStep, CheckForCopyright, ProcessGlobalSuppressions, CleanseText,
       CheckHeaderGuardIfndef, CheckHeaderGuardEndif, ProcessLine, EndFileData, FinishFile, EndFile
<1>8. CASE UNCHANGED vars
  <2>1. UNCHANGED <<world, todo, pc, level, cfg_filters>>
    BY <1>8 DEF vars
  <2>2. /\ PathDepth' = PathDepth /\ Stopping' = Stopping /\ \A c : Signs(c)' = Signs(c)
        /\ InForce' = InForce /\ GivenFilters' = GivenFilters /\ filters' = filters
    BY <1>8, <2>1, SearchKept, GivenFiltersKept DEF vars, settings
  <2>3. DirectoriesRead' = DirectoriesRead
    BY <2>1, <2>2 DEF DirectoriesRead
  <2>4. SearchOK => SearchOK'
    BY <2>1, <2>2, <2>3 DEF SearchOK
  <2>5. NearestBySigns => NearestBySigns'
    BY <2>1, <2>2 DEF NearestBySigns
  <2> QED BY <2>1, <2>4, <2>5 DEF SearchInv
<1> QED BY <1>3, <1>4, <1>5, <1>6, <1>7, <1>8 DEF Next, Done

\* The invariant holds in every run.
LEMMA SearchInvariant == Spec => []SearchInv
<1>1. Init => SearchInv
  <2> SUFFICES ASSUME Init PROVE SearchInv
    OBVIOUS
  <2>1. pc = "start" /\ \E i \in DOMAIN Worlds : world \in Worlds[i]
    BY DEF Init
  <2>2. todo \in Seq(DOMAIN world.files)
    BY EmptySeq DEF Init
  <2> QED BY <2>1, <2>2 DEF SearchInv, InputsOK, NearestBySigns, FileStages, TextStages
<1>2. SearchInv /\ FiltersInv /\ [Next]_vars => SearchInv'
  BY InputsKept, SearchSteps DEF SearchInv
<1> QED BY <1>1, <1>2, FiltersInvariant, PTL DEF Spec

\* For any depth of the file and any configuration files above it: a category is filtered as
\* the nearest configuration file with a filter for it says, or as the command line says.
THEOREM LintNearestFilterWins == Spec => []NearestFilterWins
<1>1. SearchInv => NearestFilterWins
  BY NearestBySignsWins DEF SearchInv
<1> QED BY <1>1, SearchInvariant, PTL

-----------------------------------------------------------------------------
(* The text of a file *)

\* The tokens of a text, and those that cleansing adds.
TokensOf(text) == Marks \cup UNION {ToSet(text[n]) : n \in DOMAIN text}

\* Those of the text that is linted.
Tokens == TokensOf(lines)

\* A text is one of its own tokens.
LEMMA OwnTokens ==
    ASSUME NEW T, NEW text \in Seq(Seq(T))
    PROVE  text \in Seq(Seq(TokensOf(text))) /\ Marks \subseteq TokensOf(text)
<1> DEFINE W == TokensOf(text)
<1>1. ASSUME NEW n \in 1..Len(text) PROVE text[n] \in Seq(W)
  <2>1. PICK s \in Seq(T) : s = text[n]
    OBVIOUS
  <2>2. n \in DOMAIN text
    OBVIOUS
  <2>3. \A k \in 1..Len(s) : s[k] \in W
    <3> SUFFICES ASSUME NEW k \in 1..Len(s) PROVE s[k] \in W
      OBVIOUS
    <3>1. s[k] \in ToSet(text[n])
      BY <2>1 DEF ToSet
    <3> QED BY <2>2, <3>1 DEF TokensOf
  <2> HIDE DEF W
  <2> QED BY <2>1, <2>3, SeqOver
<1>2. Marks \subseteq W
  BY DEF TokensOf
<1> HIDE DEF W
<1> QED BY <1>1, <1>2, SeqOver DEF W

\* The stages before the text is cleansed.
EarlyStages == {"copyright", "global", "comments"}

\* The stages in which the cleansed copies are there.
LaterStages == {"guard", "endif", "lines", "finish"}

\* What the lines up to the current one have left in the components.
TextOK ==
    /\ lines \in Seq(Seq(Tokens)) /\ linenum \in 1..(Len(lines) + 1)
    /\ stack \in Seq(Blocks(Tokens, linenum - 1)) /\ pp_stack \in Seq(Saved(Tokens, linenum - 1))
    /\ ListedUpTo(linenum - 1)
    /\ pc \in EarlyStages =>
          linenum = 1 /\ stack = <<>> /\ pp_stack = <<>> /\ lines = TheFile.lines
    /\ pc \in LaterStages => IsCopies(Tokens, clean, Len(lines)) /\ clean.raw_lines = lines
    /\ pc \in {"guard", "endif"} => linenum = 1
    /\ pc = "finish" => linenum = Len(lines) + 1

\* What remains of the command line is its end.
TodoOK ==
    /\ Len(todo) <= Len(world.args.files)
    /\ \A i \in 1..Len(todo) : todo[i] = world.args.files[(Len(world.args.files) - Len(todo)) + i]

\* The errors so far, their number, and the counters that new ones depend on.
CountsOK ==
    /\ raised \in Seq(AnyErr) /\ printed \in Seq(PrintedErr) /\ error_count = Len(printed)
    /\ verbose_level \in 0..5 /\ lines_in_function \in Nat

\* What every proof about the text of a file needs.
TextInv == TextOK /\ TodoOK /\ CountsOK

\* Files have numbers from 1 on.
LEMMA ThisFileType ==
    ASSUME InputsOK, TodoOK
    PROVE  Len(todo) \in Nat /\ Len(world.args.files) \in Nat /\ ThisFile \in 1..(Len(world.args.files) + 1)
<1>1. todo \in Seq(DOMAIN world.files) /\ world.args.files \in Seq(DOMAIN world.files)
  BY WorldsAssumption DEF InputsOK
<1> QED BY <1>1 DEF TodoOK, ThisFile

-----------------------------------------------------------------------------
(* Positions in the text *)

\* The line of a directive, or 0.
LEMMA DirectiveLineType ==
    ASSUME NEW d, Len(GuardLines) \in Nat
    PROVE  DirectiveLine(d) \in 0..Len(GuardLines)
<1> DEFINE I == {i \in 1..Len(GuardLines) : LET w == Words(GuardLines[i]) IN Len(w) > 1 /\ w[1] = d}
<1>1. I \in SUBSET (1..Len(GuardLines)) /\ 1 \in Nat /\ Len(GuardLines) \in Int
  <2>1. I \in SUBSET (1..Len(GuardLines))
    BY Zenon
  <2> QED BY <2>1
<1>2. DirectiveLine(d) = IF I # {} THEN Min(I) ELSE 0
  BY Zenon DEF DirectiveLine, SelectInSeq
<1> HIDE DEF I
<1>3. (IF I # {} THEN Min(I) ELSE 0) \in {0} \cup (1..Len(GuardLines))
  BY <1>1, LeastOrZero
<1> QED BY <1>1, <1>2, <1>3

\* The line of the last #endif, or 0.
LEMMA EndifLineType ==
    ASSUME Len(GuardLines) \in Nat
    PROVE  EndifLine \in 0..Len(GuardLines)
<1> DEFINE I == {i \in 1..Len(GuardLines) : GuardLines[i] # <<>> /\ GuardLines[i][1] = "#endif"}
<1>1. I \in SUBSET (1..Len(GuardLines)) /\ 1 \in Nat /\ Len(GuardLines) \in Nat
  OBVIOUS
<1>2. EndifLine = IF I # {} THEN Max(I) ELSE 0
  BY DEF EndifLine, SelectLastInSeq
<1> HIDE DEF I
<1>3. (IF I # {} THEN Max(I) ELSE 0) \in {0} \cup (1..Len(GuardLines))
  BY <1>1, GreatestOrZero
<1> QED BY <1>1, <1>2, <1>3

\* The confidence of the error about the #endif, where 6 stands for no error.
LEMMA EndifConfidenceType == EndifConfidence \in {0, 5, 6}
BY Zenon DEF EndifConfidence

-----------------------------------------------------------------------------
(* What each step reports *)

\* The errors that CheckForCopyright reports.
CopyrightErrors ==
    ErrIf(\A n \in DOMAIN lines : n <= 10 => "Copyright" \notin ToSet(lines[n]), 0, "legal/copyright", 5)

\* They are about the whole file.
LEMMA CopyrightErrorsType == CopyrightErrors \in Seq(Errs(0)) /\ CopyrightErrors \in Seq(AnyErr)
<1>1. "legal/copyright" \in Raisable /\ 5 \in 0..5 /\ 0 \in 0..0 /\ 0 \in Nat
  BY DEF Raisable
<1>2. CopyrightErrors \in Seq(Errs(0))
  BY <1>1, ErrIfType DEF CopyrightErrors
<1> QED BY <1>1, <1>2, ErrsAreErrs

\* The errors that RemoveMultiLineComments reports.
CommentErrors ==
    LET removed == RemoveMultiLineComments(lines)
    IN ErrIf(removed.unterminated > 0, removed.unterminated, "readability/multiline_comment", 5)

\* A comment without an end is an error of the line on which it begins.
LEMMA CommentErrorsType ==
    ASSUME NEW T, lines \in Seq(Seq(T))
    PROVE  CommentErrors \in Seq(AnyErr)
<1>1. PICK u \in Nat : u = RemoveMultiLineComments(lines).unterminated
  BY UnterminatedType
<1>2. "readability/multiline_comment" \in Raisable /\ 5 \in 0..5 /\ u \in 0..u
  BY DEF Raisable
<1>3. ErrIf(u > 0, u, "readability/multiline_comment", 5) \in Seq(Errs(u))
  BY <1>2, ErrIfType
<1>4. CommentErrors = ErrIf(u > 0, u, "readability/multiline_comment", 5)
  BY <1>1 DEF CommentErrors
<1> QED BY <1>3, <1>4, ErrsAreErrs

\* The #ifndef of a header guard is held against the style.
JudgesGuard == ~GuardSuppressed /\ HasGuard /\ ~IsGuard(Argument("#ifndef"), FALSE)

\* The errors that CheckForHeaderGuard reports at the #ifndef.
IfndefErrors ==
    LET n == DirectiveLine("#ifndef")
    IN ErrIf(~GuardSuppressed /\ ~HasGuard, 0, "build/header_guard", 5)
       \o (IF JudgesGuard THEN NolintErrors(GuardLines[n], n) ELSE <<>>)
       \o ErrIf(JudgesGuard, n, "build/header_guard", IF IsGuard(Argument("#ifndef"), TRUE) THEN 0 ELSE 5)

\* They are errors on lines of the text, or about the whole file.
LEMMA IfndefErrorsType ==
    ASSUME Len(GuardLines) \in Nat
    PROVE  IfndefErrors \in Seq(AnyErr)
<1>1. PICK n \in Nat : n = DirectiveLine("#ifndef")
  BY DirectiveLineType
<1>2. "build/header_guard" \in Raisable /\ 5 \in 0..5 /\ 0 \in 0..5 /\ n \in 0..n /\ 0 \in 0..n
  BY DEF Raisable
<1>3. PICK conf \in 0..5 : conf = IF IsGuard(Argument("#ifndef"), TRUE) THEN 0 ELSE 5
  BY <1>2
<1>4. PICK a : a = ErrIf(~GuardSuppressed /\ ~HasGuard, 0, "build/header_guard", 5)
               /\ a \in Seq(Errs(n))
  BY <1>2, ErrIfType
<1>5. PICK b : b = NolintErrors(GuardLines[n], n) /\ b \in Seq(Errs(n))
  BY NolintErrorsType
<1>6. PICK c : c = ErrIf(JudgesGuard, n, "build/header_guard", conf) /\ c \in Seq(Errs(n))
  BY <1>2, ErrIfType
<1>7. IfndefErrors = a \o (IF JudgesGuard THEN b ELSE <<>>) \o c
  BY <1>1, <1>3, <1>4, <1>5, <1>6 DEF IfndefErrors
<1> HIDE DEF JudgesGuard
<1>8. PICK m : m = (IF JudgesGuard THEN b ELSE <<>>) /\ m \in Seq(Errs(n))
  <2>1. <<>> \in Seq(Errs(n))
    OBVIOUS
  <2> QED BY <1>5, <2>1, Zenon
<1>9. IfndefErrors \in Seq(Errs(n))
  BY <1>4, <1>6, <1>7, <1>8
<1> QED BY <1>9, ErrsAreErrs

\* The errors that CheckForHeaderGuard reports at the #endif.
EndifErrors ==
    LET line == IF EndifLine = 0 THEN <<>> ELSE GuardLines[EndifLine]
    IN NolintErrors(line, EndifLine)
       \o ErrIf(EndifConfidence < 6, EndifLine, "build/header_guard", EndifConfidence)

\* They are errors on lines of the text, or about the whole file.
LEMMA EndifErrorsType ==
    ASSUME Len(GuardLines) \in Nat
    PROVE  EndifErrors \in Seq(AnyErr)
<1>1. PICK n \in Nat : n = EndifLine
  BY EndifLineType
<1>2. "build/header_guard" \in Raisable /\ n \in 0..n /\ <<>> \in Seq(Errs(n))
  BY DEF Raisable
<1>3. PICK conf : conf = EndifConfidence /\ conf \in {0, 5, 6}
  BY EndifConfidenceType
<1>4. PICK b : b = NolintErrors(IF n = 0 THEN <<>> ELSE GuardLines[n], n) /\ b \in Seq(Errs(n))
  BY NolintErrorsType
<1>5. PICK c : c = ErrIf(conf < 6, n, "build/header_guard", conf) /\ c \in Seq(Errs(n))
  <2>1. CASE conf \in {0, 5}
    <3>1. conf \in 0..5
      BY <2>1
    <3> QED BY <1>2, <3>1, ErrIfType
  <2>2. CASE conf = 6
    <3>1. ErrIf(conf < 6, n, "build/header_guard", conf) = <<>>
      BY <2>2 DEF ErrIf
    <3> QED BY <1>2, <3>1
  <2> QED BY <1>3, <2>1, <2>2
<1>6. EndifErrors = b \o c
  BY <1>1, <1>3, <1>4, <1>5 DEF EndifErrors
<1>7. EndifErrors \in Seq(Errs(n))
  BY <1>4, <1>5, <1>6
<1> QED BY <1>7, ErrsAreErrs

\* The errors that the last step on a text reports.
EndErrorsOfFile ==
    IncompleteErrors \o IncludeWhatYouUseErrors \o OwnHeaderErrors
    \o BadCharacterErrors \o NewlineErrors

-----------------------------------------------------------------------------
(* What a line does to the lists of includes *)

\* An #include is added to the innermost list, or changes no list.
LEMMA RecordDoes ==
    ASSUME IncludeInv, NEW h, NEW n, CheckIncludeLine(h, n)
    PROVE  /\ Len(include_list') = Len(include_list)
           /\ \A i \in DOMAIN include_list' : \A j \in DOMAIN include_list'[i] :
                 /\ i \in DOMAIN include_list
                 /\ \/ j \in DOMAIN include_list[i] /\ include_list'[i][j] = include_list[i][j]
                    \/ i = Len(include_list) /\ include_list'[i][j].line = n
<1>1. CASE IgnoreInclude(h)
  BY <1>1 DEF IgnoreInclude, includeVars
<1>2. CASE RecordInclude(h, n)
  <2> DEFINE e == [header |-> h, line |-> n]
             X == Entries(include_list) \cup {e}
  <2>1. e \in X /\ e.line = n
    OBVIOUS
  <2>2. include_list' = [include_list EXCEPT ![Len(include_list)] = Append(@, e)]
    BY <1>2 DEF RecordInclude
  <2>3. include_list \in Seq(Seq(X)) /\ include_list # <<>>
    <3>1. include_list \in Seq(Seq(Entries(include_list))) /\ include_list # <<>>
      BY DEF IncludeInv, IncludeTypeOK
    <3> QED BY <3>1
  <2> HIDE DEF e, X
  <2>4. /\ include_list' \in Seq(Seq(X))
        /\ DOMAIN include_list' = DOMAIN include_list
        /\ \A i \in DOMAIN include_list :
              \A j \in DOMAIN include_list'[i] :
                 \/ j \in DOMAIN include_list[i] /\ include_list'[i][j] = include_list[i][j]
                 \/ /\ i = Len(include_list) /\ j = Len(include_list[i]) + 1
                    /\ include_list'[i][j] = e
    BY <2>1, <2>2, <2>3, RecordedList
  <2>5. Len(include_list') = Len(include_list)
    BY <2>3, <2>4
  <2> QED BY <2>1, <2>4, <2>5
<1> QED BY <1>1, <1>2 DEF CheckIncludeLine

\* A conditional begins a list and its other branches empty it; the lists outside of it are kept.
LEMMA ResetDoes ==
    ASSUME IncludeInv, NEW d, ResetSection(d)
    PROVE  /\ Len(include_list) \in Nat \ {0} /\ Len(include_list') \in Nat
           /\ Len(include_list') = IF d \in {"#if", "#ifdef", "#ifndef"} THEN Len(include_list) + 1
                                   ELSE Len(include_list)
           /\ \A i \in DOMAIN include_list' : \A j \in DOMAIN include_list'[i] :
                 /\ i \in DOMAIN include_list /\ include_list'[i] = include_list[i]
                 /\ d \in {"#else", "#elif"} => i # Len(include_list)
<1> DEFINE X == Entries(include_list)
<1> HIDE DEF X
<1>0. include_list \in Seq(Seq(X)) /\ include_list # <<>>
  BY DEF IncludeInv, IncludeTypeOK, X
<1>1. CASE d \in {"#if", "#ifdef", "#ifndef"}
  <2>1. include_list' = Append(include_list, <<>>)
    BY <1>1 DEF ResetSection, BranchLists
  <2>2. /\ DOMAIN include_list' = 1..(Len(include_list) + 1)
        /\ Len(include_list') = Len(include_list) + 1
        /\ \A i \in 1..Len(include_list) : include_list'[i] = include_list[i]
        /\ include_list'[Len(include_list) + 1] = <<>>
    BY <1>0, <2>1
  <2>3. \A i \in DOMAIN include_list' : \A j \in DOMAIN include_list'[i] :
           i \in DOMAIN include_list /\ include_list'[i] = include_list[i]
    <3> SUFFICES ASSUME NEW i \in DOMAIN include_list', NEW j \in DOMAIN include_list'[i]
                 PROVE  i \in DOMAIN include_list /\ include_list'[i] = include_list[i]
      OBVIOUS
    <3>1. i # Len(include_list) + 1
      BY <1>0, <2>2
    <3>2. i \in 1..Len(include_list)
      BY <1>0, <2>2, <3>1
    <3> QED BY <1>0, <2>2, <3>2
  <2> QED BY <1>0, <1>1, <2>2, <2>3
<1>2. CASE d \in {"#else", "#elif"}
  <2>1. include_list' = [include_list EXCEPT ![Len(include_list)] = <<>>]
    BY <1>2 DEF ResetSection, BranchLists
  <2>2. /\ DOMAIN include_list' = DOMAIN include_list /\ Len(include_list') = Len(include_list)
        /\ \A i \in DOMAIN include_list : i # Len(include_list) => include_list'[i] = include_list[i]
        /\ include_list'[Len(include_list)] = <<>>
    BY <1>0, <2>1
  <2>3. d \notin {"#if", "#ifdef", "#ifndef"}
    BY <1>2
  <2> QED BY <1>0, <1>2, <2>2, <2>3
<1>3. CASE d \notin {"#if", "#ifdef", "#ifndef", "#else", "#elif"}
  <2>1. include_list' = include_list
    BY <1>3 DEF ResetSection, BranchLists
  <2> QED BY <1>0, <1>3, <2>1
<1> QED BY <1>1, <1>2, <1>3

\* The entries stay on the lines up to the current one.
LEMMA IncludesListed ==
    ASSUME IncludeInv, NEW n \in Nat \ {0}, ListedUpTo(n - 1), NEW line,
           UpdateIncludes(line, n) \/ UNCHANGED includeVars
    PROVE  ListedUpTo(n)'
<1>1. \A i \in DOMAIN include_list : \A j \in DOMAIN include_list[i] : include_list[i][j].line \in 1..n
  <2>1. 1..(n - 1) \subseteq 1..n
    OBVIOUS
  <2> QED BY <2>1 DEF ListedUpTo
<1>2. CASE UNCHANGED includeVars
  BY <1>1, <1>2 DEF includeVars, ListedUpTo
<1>3. ASSUME NEW h, CheckIncludeLine(h, n) PROVE ListedUpTo(n)'
  <2>1. n \in 1..n
    OBVIOUS
  <2> QED BY <1>1, <1>3, <2>1, RecordDoes DEF ListedUpTo
<1>4. ASSUME NEW d, ResetSection(d) PROVE ListedUpTo(n)'
  BY <1>1, <1>4, ResetDoes DEF ListedUpTo
<1> QED BY <1>2, <1>3, <1>4 DEF UpdateIncludes

-----------------------------------------------------------------------------
(* What a line does to the nesting *)

\* The nesting after the line.
After == Updated(clean.elided, clean.raw_lines, linenum)

\* What a line leaves is about lines of the text.
LEMMA AfterType ==
    ASSUME TextOK, pc = "lines", linenum <= Len(lines)
    PROVE  /\ linenum \in Nat \ {0} /\ linenum \in 1..Len(lines)
           /\ After.stack \in Seq(Blocks(Tokens, linenum)) /\ After.pp \in Seq(Saved(Tokens, linenum))
           /\ After.errors \in Seq(Errs(linenum))
<1>1. linenum \in Nat \ {0} /\ linenum - 1 \in Nat /\ linenum - 1 <= linenum /\ linenum \in 1..Len(lines)
  BY DEF TextOK
<1>2. stack \in Seq(Blocks(Tokens, linenum)) /\ pp_stack \in Seq(Saved(Tokens, linenum))
  BY <1>1, BlocksGrow, SavedGrow DEF TextOK
<1>3. /\ clean.elided \in Seq(Seq(Tokens)) /\ linenum <= Len(clean.elided)
      /\ clean.raw_lines \in Seq(Seq(Tokens)) /\ linenum <= Len(clean.raw_lines)
  BY DEF TextOK, IsCopies, LaterStages
<1> QED BY <1>1, <1>2, <1>3, UpdatedType DEF After

\* The errors of a line: those about the length of functions are the function state's.
LEMMA LineReports ==
    ASSUME TextOK, CountsOK, pc = "lines", linenum <= Len(lines)
    PROVE  /\ LineErrors(linenum, After) \in Seq(LineErrs(linenum))
           /\ LineErrors(linenum, After) \in Seq(AnyErr)
           /\ \A x : x \in ToSet(LineErrors(linenum, After)) /\ x.category = "readability/fn_size" <=>
                 ~InAsmBlock(After.stack) /\ x \in ToSet(FunctionErrors(clean.lines, linenum, verbose_level))
<1>1. linenum \in Nat \ {0} /\ After.errors \in Seq(Errs(linenum))
  BY AfterType
<1>2. PICK a : a = After
  OBVIOUS
<1>3. lines_in_function \in Nat /\ verbose_level \in 0..5
  BY DEF CountsOK
<1>4. /\ LineErrors(linenum, a) \in Seq(LineErrs(linenum))
      /\ \A x : x \in ToSet(LineErrors(linenum, a)) /\ x.category = "readability/fn_size" <=>
            ~InAsmBlock(a.stack) /\ x \in ToSet(FunctionErrors(clean.lines, linenum, verbose_level))
  BY <1>1, <1>2, <1>3, LineErrorsType
<1>5. LineErrs(linenum) \subseteq AnyErr
  <2>1. FunctionErrs(linenum) \subseteq AnyErr
    BY <1>1 DEF FunctionErrs, AnyErr
  <2> QED BY <1>1, <2>1, ErrsAreErrs DEF LineErrs
<1>6. LineErrors(linenum, a) \in Seq(AnyErr)
  BY <1>4, <1>5
<1> QED BY <1>2, <1>4, <1>6

\* The errors at the end are about lines of the text.
LEMMA EndReports ==
    ASSUME TextOK, IncludeInv, pc = "lines", linenum > Len(lines)
    PROVE  EndErrorsOfFile \in Seq(Errs(Len(lines)))
<1>1. linenum = Len(lines) + 1 /\ linenum - 1 = Len(lines) /\ Len(lines) \in Nat
  BY DEF TextOK
<1>2. stack \in Seq(Blocks(Tokens, Len(lines))) /\ ListedUpTo(Len(lines)) /\ lines \in Seq(Seq(Tokens))
  BY <1>1 DEF TextOK
<1>3. include_list \in Seq(Seq(Entries(include_list)))
  BY DEF IncludeInv, IncludeTypeOK
<1> QED BY <1>2, <1>3, EndErrorsOfFileType DEF EndErrorsOfFile

\* The lines without raw strings are as many as the lines.
LEMMA GuardLinesType ==
    ASSUME TextOK, pc \in LaterStages
    PROVE  GuardLines \in Seq(Seq(Tokens)) /\ Len(GuardLines) = Len(lines) /\ Len(lines) \in Nat
BY DEF TextOK, GuardLines, IsCopies

-----------------------------------------------------------------------------
(* The reports *)

\* The function state counts on.
LEMMA FunctionKept ==
    ASSUME lines_in_function \in Nat, NEW text, NEW n,
           CheckForFunctionLengths(text, n) \/ UNCHANGED functionVars
    PROVE  lines_in_function' \in Nat
BY DEF CheckForFunctionLengths, Begin, functionVars

\* A step on the text reports errors, or leaves the counts alone.
LEMMA TextReports ==
    ASSUME InputsOK, TextInv, IncludeInv, TextStep
    PROVE  UNCHANGED counts \/ \E errs \in Seq(AnyErr) : \E supp : Report(ThisFile, errs, supp)
<1>1. CASE CheckForCopyright
  <2>1. Report(ThisFile, CopyrightErrors, error_suppressions)
    BY <1>1 DEF CheckForCopyright, CopyrightErrors
  <2> QED BY <2>1, CopyrightErrorsType
<1>2. CASE ProcessGlobalSuppressions
  BY <1>2 DEF ProcessGlobalSuppressions
<1>3. CASE CleanseText
  <2>1. Report(ThisFile, CommentErrors, error_suppressions)
    BY <1>3 DEF CleanseText, CommentErrors
  <2>2. lines \in Seq(Seq(Tokens))
    BY DEF TextInv, TextOK
  <2> QED BY <2>1, <2>2, CommentErrorsType
<1>4. CASE CheckHeaderGuardIfndef
  <2>1. \E supp : Report(ThisFile, IfndefErrors, supp)
    BY <1>4 DEF CheckHeaderGuardIfndef, IfndefErrors, JudgesGuard
  <2>2. Len(GuardLines) \in Nat
    BY <1>4, GuardLinesType DEF TextInv, CheckHeaderGuardIfndef, LaterStages
  <2> QED BY <2>1, <2>2, IfndefErrorsType
<1>5. CASE CheckHeaderGuardEndif
  <2>1. \E supp : Report(ThisFile, EndifErrors, supp)
    BY <1>5 DEF CheckHeaderGuardEndif, EndifErrors
  <2>2. Len(GuardLines) \in Nat
    BY <1>5, GuardLinesType DEF TextInv, CheckHeaderGuardEndif, LaterStages
  <2> QED BY <2>1, <2>2, EndifErrorsType
<1>6. CASE ProcessLine
  <2>1. \E supp : Report(ThisFile, LineErrors(linenum, After), supp)
    BY <1>6 DEF ProcessLine, CheckLine, After
  <2>2. LineErrors(linenum, After) \in Seq(AnyErr)
    BY <1>6, LineReports DEF ProcessLine, TextInv
  <2> QED BY <2>1, <2>2
<1>7. CASE EndFileData
  <2>1. Report(ThisFile, EndErrorsOfFile, error_suppressions)
    BY <1>7 DEF EndFileData, EndErrorsOfFile
  <2>2. EndErrorsOfFile \in Seq(Errs(Len(lines))) /\ Len(lines) \in Nat
    BY <1>7, EndReports DEF EndFileData, TextInv, TextOK
  <2> QED BY <2>1, <2>2, ErrsAreErrs
<1>8. CASE FinishFile
  <2>1. Report(ThisFile, CarriageReturnErrors, error_suppressions)
    BY <1>8 DEF FinishFile
  <2>2. lines \in Seq(Seq(Tokens)) /\ Len(lines) \in Nat
    BY DEF TextInv, TextOK
  <2>3. CarriageReturnErrors \in Seq(Errs(Len(lines)))
    BY <2>2, CarriageReturnType
  <2> QED BY <2>1, <2>2, <2>3, ErrsAreErrs
<1> QED BY <1>1, <1>2, <1>3, <1>4, <1>5, <1>6, <1>7, <1>8 DEF TextStep

\* A step that leaves the text and the components alone goes on to a stage that asks for
\* nothing new.
LEMMA RestKeepsText ==
    ASSUME TextOK, UNCHANGED <<world, lines, clean, linenum, stack, pp_stack, include_list>>,
           \/ pc' \notin TextStages
           \/ UNCHANGED todo /\ pc \in EarlyStages /\ pc' \in EarlyStages
           \/ pc = "guard" /\ pc' \in {"endif", "lines"}
           \/ pc = "endif" /\ pc' = "lines"
           \/ pc = "lines" /\ linenum > Len(lines) /\ pc' = "finish"
           \/ UNCHANGED <<todo, pc>>
    PROVE  TextOK'
<1>1. Tokens' = Tokens
  BY DEF Tokens
<1>2. UNCHANGED todo => TheFile' = TheFile
  BY DEF TheFile
<1>3. ListedUpTo(linenum - 1)'
  BY DEF ListedUpTo, TextOK
<1>4. /\ lines' \in Seq(Seq(Tokens)) /\ linenum' \in 1..(Len(lines) + 1)
      /\ stack' \in Seq(Blocks(Tokens, linenum - 1)) /\ pp_stack' \in Seq(Saved(Tokens, linenum - 1))
  BY DEF TextOK
<1>5. /\ pc' \in EarlyStages =>
            linenum' = 1 /\ stack' = <<>> /\ pp_stack' = <<>> /\ lines' = TheFile'.lines
      /\ pc' \in LaterStages => IsCopies(Tokens, clean, Len(lines)) /\ clean.raw_lines = lines
      /\ pc' \in {"guard", "endif"} => linenum' = 1
      /\ pc' = "finish" => linenum' = Len(lines) + 1
  BY <1>2 DEF TextOK, EarlyStages, LaterStages, TextStages
<1> QED BY <1>1, <1>3, <1>4, <1>5 DEF TextOK

\* The components start with the text of a file.
LEMMA BeginMakesText ==
    ASSUME InputsOK, todo # <<>>, BeginFileData
    PROVE  TextOK'
<1>1. /\ lines' = TheFile.lines /\ linenum' = 1 /\ stack' = <<>> /\ pp_stack' = <<>>
      /\ include_list' = << <<>> >> /\ pc' = "copyright" /\ UNCHANGED <<world, todo>>
  BY DEF BeginFileData
<1>2. TheFile.lines \in Seq(Seq(STRING))
  <2>1. todo[1] \in DOMAIN world.files
    BY DEF InputsOK
  <2> QED BY <2>1, WorldsAssumption DEF InputsOK, TheFile
<1>3. lines' \in Seq(Seq(TokensOf(lines')))
  BY <1>1, <1>2, OwnTokens
<1>4. ListedUpTo(linenum - 1)'
  BY <1>1 DEF ListedUpTo
<1>5. TheFile' = TheFile
  BY <1>1 DEF TheFile
<1>6. linenum' - 1 = 0 /\ linenum' \in 1..(Len(lines') + 1)
  BY <1>1, <1>3
<1>7. <<>> \in Seq(Blocks(Tokens', 0)) /\ <<>> \in Seq(Saved(Tokens', 0))
  OBVIOUS
<1>8. lines' \in Seq(Seq(Tokens'))
  BY <1>3 DEF Tokens
<1> QED BY <1>1, <1>4, <1>5, <1>6, <1>7, <1>8 DEF TextOK, EarlyStages, LaterStages

\* Cleansing makes the copies.
LEMMA CleanseMakesText ==
    ASSUME TextOK, CleanseText
    PROVE  TextOK'
<1>1. PICK new : new = RemoveMultiLineComments(lines).lines
  OBVIOUS
<1>2. /\ lines' = new /\ clean' = CleansedLines(new) /\ pc' \in {"guard", "lines"}
      /\ UNCHANGED <<linenum, stack, pp_stack, include_list>>
  BY <1>1 DEF CleanseText, componentVars, includeVars, nestingVars
<1>3. linenum = 1 /\ stack = <<>> /\ pp_stack = <<>> /\ lines \in Seq(Seq(Tokens))
  BY DEF TextOK, CleanseText, EarlyStages
<1>4. Marks \subseteq Tokens
  BY <1>3, OwnTokens DEF Tokens
<1>5. new \in Seq(Seq(Tokens)) /\ Len(new) = Len(lines)
  BY <1>1, <1>3, <1>4, RemovedType
<1> DEFINE W == TokensOf(new)
<1>6. new \in Seq(Seq(W)) /\ Marks \subseteq W
  BY <1>5, OwnTokens
<1>7. Tokens' = W
  BY <1>2 DEF Tokens
<1> HIDE DEF W
<1>8. IsCopies(W, CleansedLines(new), Len(new)) /\ CleansedLines(new).raw_lines = new
  BY <1>6, CopiesType
<1>9. ListedUpTo(linenum - 1)'
  BY <1>2, <1>3 DEF ListedUpTo, TextOK
<1>10. linenum' - 1 = 0 /\ linenum' \in 1..(Len(new) + 1)
  BY <1>2, <1>3, <1>5
<1>11. <<>> \in Seq(Blocks(W, 0)) /\ <<>> \in Seq(Saved(W, 0))
  OBVIOUS
<1> QED BY <1>2, <1>3, <1>6, <1>7, <1>8, <1>9, <1>10, <1>11 DEF TextOK, EarlyStages, LaterStages

\* A line extends what the lines before have left.
LEMMA LineKeepsText ==
    ASSUME TextOK, IncludeInv, ProcessLine
    PROVE  TextOK'
<1>1. /\ pc = "lines" /\ linenum <= Len(lines) /\ linenum' = linenum + 1
      /\ UNCHANGED <<pc, lines, clean>>
  BY DEF ProcessLine
<1>2. UpdateNesting(After)
  BY DEF ProcessLine, CheckLine, After
<1>3. stack' = After.stack /\ pp_stack' = After.pp
  BY <1>2 DEF UpdateNesting
<1>4. /\ linenum \in Nat \ {0} /\ linenum \in 1..Len(lines)
      /\ After.stack \in Seq(Blocks(Tokens, linenum)) /\ After.pp \in Seq(Saved(Tokens, linenum))
  BY <1>1, AfterType
<1>5. linenum' - 1 = linenum /\ linenum' \in 1..(Len(lines) + 1)
  BY <1>1, <1>4
<1>6. UpdateIncludes(clean.elided[linenum], linenum) \/ UNCHANGED includeVars
  BY DEF ProcessLine, CheckLine
<1>7. \A i \in DOMAIN include_list' : \A j \in DOMAIN include_list'[i] :
         include_list'[i][j].line \in 1..(linenum' - 1)
  <2>1. PICK n \in Nat \ {0} : n = linenum
    BY <1>4
  <2>2. ListedUpTo(n - 1) /\ (UpdateIncludes(clean.elided[n], n) \/ UNCHANGED includeVars)
    BY <1>6, <2>1 DEF TextOK
  <2>3. ListedUpTo(n)'
    BY <2>2, IncludesListed
  <2> QED BY <1>5, <2>1, <2>3 DEF ListedUpTo
<1>8. ListedUpTo(linenum - 1)'
  BY <1>7 DEF ListedUpTo
<1>9. Tokens' = Tokens
  BY <1>1 DEF Tokens
<1>10. /\ lines \in Seq(Seq(Tokens))
       /\ IsCopies(Tokens, clean, Len(lines)) /\ clean.raw_lines = lines
  BY <1>1 DEF TextOK, LaterStages
<1> QED BY <1>1, <1>3, <1>4, <1>5, <1>8, <1>9, <1>10 DEF TextOK, EarlyStages, LaterStages

\* Every step keeps the text in order.
LEMMA TextKept ==
    ASSUME InputsOK, TextOK, IncludeInv, FiltersInv, [Next]_vars
    PROVE  TextOK'
<1>1. ASSUME Step, ~BeginFileData PROVE TextOK'
  <2>1. UNCHANGED <<world, lines, clean, linenum, stack, pp_stack, include_list>> /\ pc' \notin TextStages
    <3> USE DEF TextStages, fileVars, componentVars, includeVars, nestingVars
    <3>1. CASE ParseArguments
      BY <3>1 DEF ParseArguments
    <3>2. CASE RefuseArguments
      BY <3>2 DEF RefuseArguments, Exit
    <3>3. CASE StartFile
      BY <3>3 DEF StartFile
    <3>4. CASE ReadConfig
      BY <3>4 DEF ReadConfig, GoUp
    <3>5. CASE SkipDirectory
      BY <3>5 DEF SkipDirectory, GoUp
    <3>6. CASE IgnoreExcluded
      BY <3>6 DEF IgnoreExcluded, EndFile
    <3>7. CASE ApplyFilters
      BY <3>7 DEF ApplyFilters
    <3>8. CASE RefuseFilters
      BY <3>8 DEF RefuseFilters, Exit
    <3>9. CASE SkipFile
      BY <3>9 DEF SkipFile, EndFile
    <3>10. CASE Finish
      BY <3>10 DEF Finish, Exit
    <3> QED BY <1>1, <3>1, <3>2, <3>3, <3>4, <3>5, <3>6, <3>7, <3>8, <3>9, <3>10 DEF Step
  <2> QED BY <2>1, RestKeepsText
<1>2. CASE BeginFileData
  <2>1. todo # <<>>
    BY <1>2 DEF BeginFileData, InputsOK, FileStages
  <2> QED BY <1>2, <2>1, BeginMakesText
<1>3. CASE CheckForCopyright \/ ProcessGlobalSuppressions
  BY <1>3, RestKeepsText DEF CheckForCopyright, ProcessGlobalSuppressions, inputVars, fileVars, componentVars,
     includeVars, nestingVars, EarlyStages
<1>4. CASE CleanseText
  BY <1>4, CleanseMakesText
<1>5. CASE CheckHeaderGuardIfndef \/ CheckHeaderGuardEndif \/ EndFileData
  BY <1>5, RestKeepsText DEF CheckHeaderGuardIfndef, CheckHeaderGuardEndif, EndFileData, inputVars, fileVars,
     componentVars, includeVars, nestingVars
<1>6. CASE ProcessLine
  BY <1>6, LineKeepsText
<1>7. CASE FinishFile
  BY <1>7, RestKeepsText DEF FinishFile, EndFile, fileVars, componentVars, includeVars, nestingVars, TextStages
<1>8. CASE UNCHANGED vars
  BY <1>8, RestKeepsText DEF vars, fileVars, componentVars, includeVars, nestingVars
<1> QED BY <1>1, <1>2, <1>3, <1>4, <1>5, <1>6, <1>7, <1>8 DEF Next, Done, TextStep

\* The files that are left.
LEMMA TodoKept ==
    ASSUME InputsOK, TodoOK, FiltersInv, [Next]_vars
    PROVE  TodoOK'
<1>1. todo \in Seq(DOMAIN world.files) /\ world.args.files \in Seq(DOMAIN world.files)
  BY WorldsAssumption DEF InputsOK
<1>2. world' = world
  BY DEF Next, Step, TextStep, Done, vars, ParseArguments, RefuseArguments, StartFile, ReadConfig,
         SkipDirectory, IgnoreExcluded, ApplyFilters, RefuseFilters, SkipFile, BeginFileData, Finish,
         CheckForCopyright, ProcessGlobalSuppressions, CleanseText, CheckHeaderGuardIfndef,
         CheckHeaderGuardEndif, ProcessLine, EndFileData, FinishFile, inputVars
<1>3. CASE UNCHANGED todo
  BY <1>2, <1>3 DEF TodoOK
<1>4. CASE todo' = world.args.files
  <2>1. \A i \in 1..Len(todo') : (Len(world.args.files) - Len(todo')) + i = i
    BY <1>1, <1>4
  <2> QED BY <1>1, <1>2, <1>4, <2>1 DEF TodoOK
<1>5. CASE todo # <<>> /\ todo' = Tail(todo)
  <2>1. Len(todo') = Len(todo) - 1 /\ Len(todo) \in Nat \ {0} /\ Len(world.args.files) \in Nat
    BY <1>1, <1>5
  <2>2. \A i \in 1..Len(todo') : todo'[i] = todo[i + 1] /\ i + 1 \in 1..Len(todo)
    BY <1>1, <1>5
  <2>3. \A i \in 1..Len(todo') : (Len(world.args.files) - Len(todo')) + i
                                    = (Len(world.args.files) - Len(todo)) + (i + 1)
    <3>1. PICK a \in Nat, b \in Nat : a = Len(world.args.files) /\ b = Len(todo)
      BY <2>1
    <3>2. Len(todo') = b - 1
      BY <2>1, <3>1
    <3>3. \A i \in 1..(b - 1) : (a - (b - 1)) + i = (a - b) + (i + 1)
      OBVIOUS
    <3> QED BY <3>1, <3>2, <3>3
  <2>4. \A i \in 1..Len(todo') : todo'[i] = world.args.files[(Len(world.args.files) - Len(todo')) + i]
    BY <2>2, <2>3 DEF TodoOK
  <2>5. Len(todo') <= Len(world.args.files)
    BY <2>1 DEF TodoOK
  <2> QED BY <1>2, <2>4, <2>5 DEF TodoOK
<1>6. CASE Step
  BY <1>3, <1>4, <1>5, <1>6 DEF Step, ParseArguments, RefuseArguments, StartFile, ReadConfig,
     SkipDirectory, IgnoreExcluded, ApplyFilters, RefuseFilters, SkipFile, BeginFileData, Finish,
     EndFile, InputsOK, FileStages, TextStages
<1>7. CASE TextStep
  BY <1>3, <1>5, <1>7 DEF TextStep, CheckForCopyright, ProcessGlobalSuppressions, CleanseText, CheckHeaderGuardIfndef,
     CheckHeaderGuardEndif, ProcessLine, EndFileData, FinishFile, inputVars,
     EndFile, InputsOK, FileStages, TextStages
<1>8. CASE UNCHANGED vars
  BY <1>3, <1>8 DEF vars
<1> QED BY <1>6, <1>7, <1>8 DEF Next, Done

\* An option has its default or a value that the command line gives it.
LEMMA OptionFrom ==
    ASSUME InputsOK, NEW name, NEW default
    PROVE  \/ Option(name, default) = default
           \/ \E i \in DOMAIN world.args.options :
                 world.args.options[i].name = name /\ Option(name, default) = world.args.options[i].value
<1> DEFINE options == world.args.options
           I == {k \in 1..Len(options) : options[k].name = name}
           at == IF I # {} THEN Max(I) ELSE 0
<1>1. Option(name, default) = IF at = 0 THEN default ELSE options[at].value
  BY DEF Option, SelectLastInSeq
<1>2. Len(options) \in Nat /\ DOMAIN options = 1..Len(options)
  <2>1. IsOptions(world.args.options)
    BY WorldsAssumption DEF InputsOK
  <2> QED BY <2>1 DEF IsOptions
<1>3. at = 0 \/ at \in I
  <2>1. CASE I # {}
    <3>1. I \in SUBSET (1..Len(options)) /\ 1 \in Nat
      OBVIOUS
    <3> HIDE DEF I, options
    <3> QED BY <1>2, <2>1, <3>1, GreatestOf
  <2> QED BY <2>1
<1>4. CASE at = 0
  BY <1>1, <1>4
<1>5. CASE at # 0
  <2>1. at \in 1..Len(options) /\ options[at].name = name
    BY <1>3, <1>5
  <2> HIDE DEF at
  <2> QED BY <1>1, <1>2, <1>5, <2>1
<1> QED BY <1>4, <1>5

\* The verbosity of the command line.
LEMMA VerboseType ==
    ASSUME InputsOK, verbose_level \in 0..5
    PROVE  Option("verbose", verbose_level) \in 0..5
<1>1. IsOptions(world.args.options)
  BY WorldsAssumption DEF InputsOK
<1> QED BY <1>1, OptionFrom DEF IsOptions

\* Every step keeps the counts of the right kind.
LEMMA CountsKept ==
    ASSUME InputsOK, TextInv, IncludeInv, FiltersInv, [Next]_vars
    PROVE  CountsOK'
<1>1. verbose_level' \in 0..5
  <2>1. CASE ParseArguments
    BY <2>1, VerboseType DEF ParseArguments, TextInv, CountsOK
  <2>2. CASE Step /\ ~ParseArguments
    BY <2>2 DEF Step, RefuseArguments, StartFile, ReadConfig, SkipDirectory, IgnoreExcluded, ApplyFilters,
       RefuseFilters, SkipFile, BeginFileData, Finish, settings, TextInv, CountsOK
  <2>3. CASE TextStep
    BY <2>3 DEF TextStep, CheckForCopyright, ProcessGlobalSuppressions, CleanseText, CheckHeaderGuardIfndef,
     CheckHeaderGuardEndif, ProcessLine, EndFileData, FinishFile, inputVars, settings, TextInv, CountsOK
  <2>4. CASE UNCHANGED vars
    BY <2>4 DEF vars, settings, TextInv, CountsOK
  <2> QED BY <2>1, <2>2, <2>3, <2>4 DEF Next, Done
<1>2. lines_in_function' \in Nat
  <2>1. CASE BeginFileData
    BY <2>1 DEF BeginFileData
  <2>2. CASE ProcessLine
    <3>1. CheckForFunctionLengths(clean.lines, linenum) \/ UNCHANGED functionVars
      BY <2>2 DEF ProcessLine, CheckLine
    <3> QED BY <3>1, FunctionKept DEF TextInv, CountsOK
  <2>3. CASE Step /\ ~BeginFileData
    BY <2>3 DEF Step, ParseArguments, RefuseArguments, StartFile, ReadConfig, SkipDirectory, IgnoreExcluded, ApplyFilters,
       RefuseFilters, SkipFile, Finish, componentVars, functionVars, TextInv, CountsOK
  <2>4. CASE TextStep /\ ~ProcessLine
    BY <2>4 DEF TextStep, CheckForCopyright, ProcessGlobalSuppressions, CleanseText, CheckHeaderGuardIfndef,
     CheckHeaderGuardEndif, EndFileData, FinishFile, componentVars, functionVars, TextInv, CountsOK
  <2>5. CASE UNCHANGED vars
    BY <2>5 DEF vars, componentVars, functionVars, TextInv, CountsOK
  <2> QED BY <2>1, <2>2, <2>3, <2>4, <2>5 DEF Next, Done
<1>3. raised' \in Seq(AnyErr) /\ printed' \in Seq(PrintedErr) /\ error_count' = Len(printed')
  <2>1. raised \in Seq(AnyErr) /\ printed \in Seq(PrintedErr) /\ error_count = Len(printed)
    BY DEF TextInv, CountsOK
  <2>2. CASE UNCHANGED counts
    BY <2>1, <2>2 DEF counts
  <2>3. ASSUME NEW errs \in Seq(AnyErr), NEW supp, Report(ThisFile, errs, supp)
        PROVE  raised' \in Seq(AnyErr) /\ printed' \in Seq(PrintedErr) /\ error_count' = Len(printed')
    <3>1. PICK file \in Nat : file = ThisFile
      BY ThisFileType DEF TextInv
    <3>2. /\ raised' \in Seq(AnyErr) /\ printed' \in Seq(PrintedErr)
          /\ \E shown \in Seq(AnyErr) :
                /\ printed' = printed \o [i \in DOMAIN shown |-> [file |-> file, error |-> shown[i]]]
                /\ error_count' = error_count + Len(shown)
      BY <2>1, <2>3, <3>1, ReportDoes
    <3>3. PICK shown \in Seq(AnyErr) :
                /\ printed' = printed \o [i \in DOMAIN shown |-> [file |-> file, error |-> shown[i]]]
                /\ error_count' = error_count + Len(shown)
      BY <3>2
    <3> DEFINE new == [i \in DOMAIN shown |-> [file |-> file, error |-> shown[i]]]
    <3>4. new \in Seq(PrintedErr) /\ Len(new) = Len(shown)
      <4>1. \A i \in 1..Len(shown) : new[i] \in PrintedErr
        BY DEF PrintedErr
      <4>2. new = [i \in 1..Len(shown) |-> new[i]] /\ Len(shown) \in Nat
        OBVIOUS
      <4> HIDE DEF new
      <4> QED BY <4>1, <4>2, IsSeq
    <3> HIDE DEF new
    <3>5. Len(printed \o new) = Len(printed) + Len(new)
      BY <2>1, <3>4
    <3> QED BY <2>1, <3>2, <3>3, <3>4, <3>5 DEF new
  <2>4. CASE TextStep
    BY <2>2, <2>3, <2>4, TextReports
  <2>5. CASE BeginFileData
    <3>1. raised' = <<>> /\ UNCHANGED <<printed, error_count>>
      BY <2>5 DEF BeginFileData
    <3>2. <<>> \in Seq(AnyErr)
      OBVIOUS
    <3> QED BY <2>1, <3>1, <3>2
  <2>6. CASE Step /\ ~BeginFileData
    BY <2>2, <2>6 DEF Step, ParseArguments, RefuseArguments, StartFile, ReadConfig, SkipDirectory, IgnoreExcluded,
       ApplyFilters, RefuseFilters, SkipFile, Finish
  <2>7. CASE UNCHANGED vars
    BY <2>2, <2>7 DEF vars
  <2> QED BY <2>4, <2>5, <2>6, <2>7 DEF Next, Done
<1> QED BY <1>1, <1>2, <1>3 DEF CountsOK

\* The invariant of the text holds in every run.
LEMMA TextInvariant == Spec => []TextInv
<1>1. Init => TextInv
  <2> SUFFICES ASSUME Init PROVE TextInv
    OBVIOUS
  <2>1. /\ pc = "start" /\ lines = <<>> /\ linenum = 1 /\ stack = <<>> /\ pp_stack = <<>> /\ todo = <<>>
        /\ include_list = << <<>> >> /\ raised = <<>> /\ printed = <<>> /\ error_count = 0
        /\ verbose_level = 1 /\ lines_in_function = 0
    BY DEF Init, InitErrors, InitInclude, InitNesting, InitFunction
  <2>2. TextOK
    BY <2>1 DEF TextOK, EarlyStages, LaterStages, ListedUpTo
  <2>3. world.args.files \in Seq(DOMAIN world.files)
    BY WorldsAssumption DEF Init
  <2>4. TodoOK
    BY <2>1, <2>3 DEF TodoOK
  <2>5. CountsOK
    BY <2>1 DEF CountsOK
  <2> QED BY <2>2, <2>4, <2>5 DEF TextInv
<1>2. SearchInv /\ FiltersInv /\ IncludeInv /\ TextInv /\ [Next]_vars => TextInv'
  BY TextKept, TodoKept, CountsKept DEF SearchInv, TextInv
<1> QED BY <1>1, <1>2, FiltersInvariant, SearchInvariant, IncludeInvariant, PTL DEF Spec

-----------------------------------------------------------------------------
(* The summary *)

\* CountAll takes the steps of any function that counts one error at a time.
LEMMA CountAllIs ==
    ASSUME NEW X, NEW errs \in Seq(X), NEW bag, NEW f, f[0] = bag,
           \A i \in 1..Len(errs) : f[i] = CountIn(f[i - 1], errs[i].category)
    PROVE  CountAll(bag, errs) = f[Len(errs)]
<1> DEFINE n == Len(errs)
           Is(g) == g = [i \in 0..n |-> IF i = 0 THEN bag ELSE CountIn(g[i - 1], errs[i].category)]
           F == [i \in 0..n |-> f[i]]
           counted == CHOOSE g : Is(g)
<1>1. n \in Nat
  OBVIOUS
<1> HIDE DEF n
<1>2. Is(F)
  <2>1. ASSUME NEW i \in 0..n
        PROVE  f[i] = IF i = 0 THEN bag ELSE CountIn(F[i - 1], errs[i].category)
    <3>1. CASE i = 0
      BY <3>1
    <3>2. CASE i # 0
      <4>1. i \in 1..n /\ i - 1 \in 0..n
        BY <1>1, <3>2
      <4>2. F[i - 1] = f[i - 1]
        BY <4>1
      <4>3. f[i] = CountIn(f[i - 1], errs[i].category)
        BY <4>1 DEF n
      <4> QED BY <3>2, <4>2, <4>3
    <3> QED BY <3>1, <3>2
  <2>2. F = [i \in 0..n |-> IF i = 0 THEN bag ELSE CountIn(F[i - 1], errs[i].category)]
    BY <2>1
  <2> QED BY <2>2
<1> HIDE DEF F
<1>3. Is(counted)
  <2> HIDE DEF Is
  <2> QED BY <1>2
<1> HIDE DEF counted
<1>4. /\ counted[0] = bag
      /\ \A i \in 1..n : counted[i] = CountIn(counted[i - 1], errs[i].category)
  <2>1. \A i \in 0..n : counted[i] = IF i = 0 THEN bag ELSE CountIn(counted[i - 1], errs[i].category)
    <3>1. PICK h : h = [i \in 0..n |-> IF i = 0 THEN bag ELSE CountIn(counted[i - 1], errs[i].category)]
      OBVIOUS
    <3>2. counted = h
      BY <1>3, <3>1
    <3> QED BY <3>1, <3>2
  <2>2. \A i \in 1..n : i \in 0..n /\ i # 0
    BY <1>1
  <2> QED BY <1>1, <2>1, <2>2
<1> DEFINE M == {m \in Nat : m <= n => counted[m] = f[m]}
<1>5. 0 \in M
  BY <1>4
<1>6. ASSUME NEW m \in Nat, m \in M PROVE m + 1 \in M
  <2> SUFFICES ASSUME m + 1 <= n PROVE counted[m + 1] = f[m + 1]
    OBVIOUS
  <2>1. PICK k \in 1..n : k = m + 1 /\ k - 1 = m
    BY <1>1
  <2>2. counted[m] = f[m]
    BY <1>1, <1>6
  <2>3. f[k] = CountIn(f[k - 1], errs[k].category)
    BY DEF n
  <2> QED BY <1>4, <2>1, <2>2, <2>3
<1>7. n \in M
  <2>1. Nat \subseteq M
    <3> HIDE DEF M
    <3> QED BY <1>5, <1>6, Induction
  <2> QED BY <1>1, <2>1
<1>8. CountAll(bag, errs) = counted[n]
  BY DEF CountAll, counted, n
<1> QED BY <1>7, <1>8, <1>1 DEF n

\* The key under which the i-th printed error is counted.
KeyAt(ps, i) == CountKey(ps[i].error.category)

\* How often each key is among the printed errors ps.
Tally(ps) ==
    [k \in {KeyAt(ps, i) : i \in DOMAIN ps} |-> Cardinality({i \in DOMAIN ps : KeyAt(ps, i) = k})]

\* Of all errors printed, this is what RunSummaryTrue speaks of.
LEMMA TallyIsPerKey ==
    ASSUME printed \in Seq(PrintedErr)
    PROVE  PrintedPerKey = Tally(printed)
<1>1. {CountKey(p.error.category) : p \in ToSet(printed)} = {KeyAt(printed, i) : i \in DOMAIN printed}
  BY DEF ToSet, KeyAt
<1> QED BY <1>1 DEF PrintedPerKey, Tally, KeyAt

\* One more printed error adds one to its key.
LEMMA TallyAppend ==
    ASSUME NEW X, NEW ps \in Seq(X), NEW p \in X, NEW k, k = CountKey(p.error.category)
    PROVE  Tally(Append(ps, p)) = Tally(ps) (+) SetToBag({k})
<1> DEFINE n == Len(ps)
           all == Append(ps, p)
           At(e) == {i \in 1..n : KeyAt(ps, i) = e}
           At2(e) == {i \in 1..(n + 1) : KeyAt(all, i) = e}
           K == {KeyAt(ps, i) : i \in 1..n}
<1>1. n \in Nat /\ DOMAIN ps = 1..n /\ DOMAIN all = 1..(n + 1)
  OBVIOUS
<1>2. /\ \A i \in 1..n : KeyAt(all, i) = KeyAt(ps, i)
      /\ KeyAt(all, n + 1) = k
  <2>1. (\A i \in 1..n : all[i] = ps[i]) /\ all[n + 1] = p
    OBVIOUS
  <2> HIDE DEF n, all
  <2> QED BY <2>1 DEF KeyAt
<1>3. Tally(ps) = [e \in K |-> Cardinality(At(e))]
  BY <1>1 DEF Tally
<1>4. Tally(all) = [e \in {KeyAt(all, i) : i \in 1..(n + 1)} |-> Cardinality(At2(e))]
  BY <1>1 DEF Tally
<1> HIDE DEF n, all
<1>5. {KeyAt(all, i) : i \in 1..(n + 1)} = K \cup {k}
  <2>1. 1..(n + 1) = (1..n) \cup {n + 1}
    BY <1>1
  <2> QED BY <1>2, <2>1
<1>6. ASSUME NEW e PROVE IsFiniteSet(At(e)) /\ n + 1 \notin At(e)
  <2>1. IsFiniteSet(1..n) /\ At(e) \subseteq 1..n
    BY <1>1, FS_Interval
  <2>2. n + 1 \notin 1..n
    BY <1>1
  <2> QED BY <2>1, <2>2, FS_Subset
<1>7. ASSUME NEW e, e # k PROVE At2(e) = At(e)
  <2>1. 1..(n + 1) = (1..n) \cup {n + 1}
    BY <1>1
  <2> QED BY <1>2, <1>7, <2>1
<1>8. At2(k) = At(k) \cup {n + 1}
  <2>1. 1..(n + 1) = (1..n) \cup {n + 1}
    BY <1>1
  <2> QED BY <1>2, <2>1
<1>9. k \notin K => At(k) = {}
  OBVIOUS
<1> HIDE DEF At, At2, K
<1>10. Cardinality(At2(k)) = (IF k \in K THEN Cardinality(At(k)) ELSE 0) + 1
  <2>1. Cardinality(At2(k)) = Cardinality(At(k)) + 1
    BY <1>6, <1>8, FS_AddElement
  <2>2. k \notin K => Cardinality(At(k)) = 0
    BY <1>9, FS_EmptySet
  <2> QED BY <2>1, <2>2
<1>11. \A e \in K \cup {k} : Cardinality(At2(e)) =
          (IF e \in K THEN Cardinality(At(e)) ELSE 0) + (IF e = k THEN 1 ELSE 0)
  <2> SUFFICES ASSUME NEW e \in K \cup {k}
               PROVE  Cardinality(At2(e)) = (IF e \in K THEN Cardinality(At(e)) ELSE 0) + (IF e = k THEN 1 ELSE 0)
    OBVIOUS
  <2>1. CASE e = k
    BY <1>10, <2>1
  <2>2. CASE e # k
    <3>1. Cardinality(At(e)) \in Nat
      BY <1>6, FS_CardinalityType
    <3> QED BY <1>7, <2>2, <3>1
  <2> QED BY <2>1, <2>2
<1>12. Tally(ps) (+) SetToBag({k}) =
         [e \in K \cup {k} |-> (IF e \in K THEN Cardinality(At(e)) ELSE 0) + (IF e = k THEN 1 ELSE 0)]
  <2>1. PICK bag : bag = Tally(ps)
    OBVIOUS
  <2>2. DOMAIN bag = K /\ \A e \in K : bag[e] = Cardinality(At(e))
    BY <1>3, <2>1
  <2>3. bag (+) SetToBag({k}) =
          [e \in K \cup {k} |-> (IF e \in K THEN bag[e] ELSE 0) + (IF e = k THEN 1 ELSE 0)]
    <3>1. bag (+) SetToBag({k}) =
            [e \in (DOMAIN bag) \cup {k} |-> (IF e \in DOMAIN bag THEN bag[e] ELSE 0) + (IF e = k THEN 1 ELSE 0)]
      <4>1. SetToBag({k}) = [e \in {k} |-> 1]
        BY DEF SetToBag
      <4> QED BY <4>1 DEF (+)
    <3> QED BY <2>2, <3>1
  <2> QED BY <2>1, <2>2, <2>3
<1>13. Tally(all) = [e \in K \cup {k} |-> Cardinality(At2(e))]
  BY <1>4, <1>5
<1> QED BY <1>11, <1>12, <1>13 DEF all

\* Counting a list of errors after the printed ones is counting them all.
LEMMA TallyGrows ==
    ASSUME printed \in Seq(PrintedErr), NEW shown \in Seq(AnyErr), NEW new \in Seq(PrintedErr),
           Len(new) = Len(shown), \A i \in 1..Len(shown) : new[i].error = shown[i],
           counting \in {"detailed", "toplevel"}
    PROVE  CountAll(Tally(printed), shown) = Tally(printed \o new)
<1> DEFINE m == Len(printed)
           n == Len(shown)
           all == printed \o new
           First(i) == SubSeq(all, 1, m + i)
           f == [i \in 0..n |-> Tally(First(i))]
<1>1. m \in Nat /\ n \in Nat /\ all \in Seq(PrintedErr) /\ Len(all) = m + n
  OBVIOUS
<1>2. First(0) = printed /\ First(n) = all
  OBVIOUS
<1>3. \A i \in 1..n : all[m + i] = new[i] /\ m + i \in 1..Len(all)
  OBVIOUS
<1> HIDE DEF m, n, all
<1>4. ASSUME NEW i \in 1..n
      PROVE  /\ First(i - 1) \in Seq(PrintedErr) /\ all[m + i] \in PrintedErr
             /\ First(i) = Append(First(i - 1), all[m + i])
  <2>1. m + (i - 1) = (m + i) - 1
    BY <1>1
  <2>2. PICK k \in 1..Len(all) : k = m + i
    BY <1>3
  <2>3. SubSeq(all, 1, k) = Append(SubSeq(all, 1, k - 1), all[k])
    BY <1>1
  <2>4. SubSeq(all, 1, k - 1) \in Seq(PrintedErr) /\ all[k] \in PrintedErr
    BY <1>1
  <2> QED BY <2>1, <2>2, <2>3, <2>4
<1>5. ASSUME NEW i \in 1..n PROVE f[i] = CountIn(f[i - 1], shown[i].category)
  <2>1. i \in 0..n /\ i - 1 \in 0..n
    BY <1>1
  <2>2. f[i] = Tally(First(i)) /\ f[i - 1] = Tally(First(i - 1))
    BY <2>1
  <2>3. PICK k : k = CountKey(all[m + i].error.category)
    OBVIOUS
  <2>4. k = CountKey(shown[i].category)
    BY <1>3, <2>3 DEF n
  <2>5. Tally(First(i)) = Tally(First(i - 1)) (+) SetToBag({k})
    <3> HIDE DEF First
    <3> QED BY <1>4, <2>3, TallyAppend
  <2>6. CountIn(f[i - 1], shown[i].category) = f[i - 1] (+) SetToBag({k})
    BY <2>4 DEF CountIn, CountKey
  <2> QED BY <2>2, <2>5, <2>6
<1>6. f[0] = Tally(printed) /\ f[n] = Tally(all)
  <2>1. 0 \in 0..n /\ n \in 0..n
    BY <1>1
  <2> HIDE DEF First
  <2> QED BY <1>2, <2>1
<1> HIDE DEF f
<1>7. CountAll(Tally(printed), shown) = f[Len(shown)]
  BY <1>5, <1>6, CountAllIs DEF n
<1> QED BY <1>6, <1>7 DEF n, all

\* Where no summary is asked for, nothing is counted.
LEMMA NoTally ==
    ASSUME NEW shown \in Seq(AnyErr), NEW bag, counting \notin {"detailed", "toplevel"}
    PROVE  CountAll(bag, shown) = bag
<1> DEFINE f == [i \in 0..Len(shown) |-> bag]
<1>1. Len(shown) \in Nat
  OBVIOUS
<1>2. \A i \in 0..Len(shown) : f[i] = bag
  OBVIOUS
<1> HIDE DEF f
<1>3. \A i \in 1..Len(shown) : f[i] = CountIn(f[i - 1], shown[i].category)
  <2>1. \A i \in 1..Len(shown) : i \in 0..Len(shown) /\ i - 1 \in 0..Len(shown)
    BY <1>1
  <2> QED BY <1>2, <2>1 DEF CountIn
<1>4. f[0] = bag /\ f[Len(shown)] = bag
  BY <1>1, <1>2
<1> QED BY <1>3, <1>4, CountAllIs

\* The counts agree with what was printed, and so does the exit status in the end.
SummaryInv ==
    /\ errors_by_category = IF counting \in {"detailed", "toplevel"} THEN Tally(printed) ELSE EmptyBag
    /\ pc = "start" => printed = <<>> /\ errors_by_category = EmptyBag
    /\ pc = "done" /\ world.args.files # <<>> /\ todo = <<>> /\ FirstStop = 0 /\ ValidFilters(GivenFilters) =>
          exit_code = (IF printed = <<>> THEN 0 ELSE 1)

\* A report keeps the counts true.
LEMMA ReportKeepsSummary ==
    ASSUME CountsOK, NEW file \in Nat, NEW errs \in Seq(AnyErr), NEW supp, Report(file, errs, supp),
           UNCHANGED counting, SummaryInv
    PROVE  errors_by_category' = IF counting' \in {"detailed", "toplevel"} THEN Tally(printed)' ELSE EmptyBag
<1>1. raised \in Seq(AnyErr) /\ printed \in Seq(PrintedErr)
  BY DEF CountsOK
<1>2. \E shown \in Seq(AnyErr) :
                 /\ printed' = printed \o [i \in DOMAIN shown |-> [file |-> file, error |-> shown[i]]]
                 /\ error_count' = error_count + Len(shown)
                 /\ errors_by_category' = CountAll(errors_by_category, shown)
  BY <1>1, ReportDoes
<1>3. PICK shown \in Seq(AnyErr) :
         /\ printed' = printed \o [i \in DOMAIN shown |-> [file |-> file, error |-> shown[i]]]
         /\ errors_by_category' = CountAll(errors_by_category, shown)
  BY <1>2
<1> DEFINE new == [i \in DOMAIN shown |-> [file |-> file, error |-> shown[i]]]
<1>4. new \in Seq(PrintedErr) /\ Len(new) = Len(shown) /\ \A i \in 1..Len(shown) : new[i].error = shown[i]
  <2>1. \A i \in 1..Len(shown) : new[i] \in PrintedErr /\ new[i].error = shown[i]
    BY DEF PrintedErr
  <2>2. new = [i \in 1..Len(shown) |-> new[i]] /\ Len(shown) \in Nat
    OBVIOUS
  <2> HIDE DEF new
  <2> QED BY <2>1, <2>2, IsSeq
<1>5. printed' = printed \o new
  BY <1>3
<1> HIDE DEF new
<1>6. CASE counting \in {"detailed", "toplevel"}
  <2>1. CountAll(Tally(printed), shown) = Tally(printed \o new)
    BY <1>1, <1>4, <1>6, TallyGrows
  <2>2. Tally(printed)' = Tally(printed \o new)
    BY <1>5 DEF Tally, KeyAt, CountKey
  <2> QED BY <1>3, <1>6, <2>1, <2>2 DEF SummaryInv
<1>7. CASE counting \notin {"detailed", "toplevel"}
  BY <1>3, <1>7, NoTally DEF SummaryInv
<1> QED BY <1>6, <1>7

\* Every step keeps the counts true.
LEMMA SummaryKept ==
    ASSUME InputsOK, TextInv, IncludeInv, FiltersInv, SummaryInv, [Next]_vars
    PROVE  SummaryInv'
<1>1. ASSUME UNCHANGED <<world, counting, errors_by_category, printed>>, pc' \notin {"start", "done"}
      PROVE  SummaryInv'
  BY <1>1 DEF SummaryInv, Tally, KeyAt, CountKey
<1>2. ASSUME UNCHANGED <<world, counting, errors_by_category, printed>>, pc' # "start",
             world.args.files # <<>> /\ todo' = <<>> /\ FirstStop = 0 /\ ValidFilters(GivenFilters) =>
                exit_code' = (IF printed = <<>> THEN 0 ELSE 1)
      PROVE  SummaryInv'
  <2>1. FirstStop' = FirstStop
    BY <1>2 DEF FirstStop, SelectInSeq, Stops, ListsCategories
  <2>2. ValidFilters(GivenFilters)' <=> ValidFilters(GivenFilters)
    BY <1>2, GivenFiltersKept DEF ValidFilters
  <2>3. Tally(printed)' = Tally(printed)
    BY <1>2 DEF Tally, KeyAt, CountKey
  <2> QED BY <1>2, <2>1, <2>2, <2>3 DEF SummaryInv
<1>3. CASE ParseArguments
  <2>1. /\ pc' = "file" /\ printed' = <<>> /\ errors_by_category' = EmptyBag
    BY <1>3 DEF ParseArguments, SummaryInv, counts
  <2>2. Tally(printed)' = EmptyBag
    <3>1. Tally(printed)' = Tally(<<>>)'
      BY <2>1 DEF Tally, KeyAt, CountKey
    <3>2. Tally(<<>>)' = EmptyBag
      <4>1. DOMAIN <<>> = {}
        OBVIOUS
      <4>2. {KeyAt(<<>>, i)' : i \in DOMAIN <<>>} = {}
        BY <4>1
      <4>3. Tally(<<>>)' = [k \in {} |-> 1]
        BY <4>1, <4>2 DEF Tally
      <4> QED BY <4>3 DEF EmptyBag, SetToBag
    <3> QED BY <3>1, <3>2
  <2> QED BY <2>1, <2>2 DEF SummaryInv
<1>4. CASE RefuseArguments
  <2>1. UNCHANGED <<world, counting, errors_by_category, printed>> /\ pc' = "done"
    BY <1>4 DEF RefuseArguments, Exit, settings, counts
  <2>2. FirstStop > 0 \/ world.args.files = <<>> \/ ~ValidFilters(Option("filter", <<>>))
    BY <1>4 DEF RefuseArguments, UsageStop
  <2>3. ~ValidFilters(Option("filter", <<>>)) => ~ValidFilters(GivenFilters)
    <3>1. PICK given : given = Option("filter", <<>>)
      OBVIOUS
    <3>2. IsOptions(world.args.options) /\ DefaultFilters \in Seq(Filters)
      BY WorldsAssumption DEF InputsOK
    <3>3. given \in Seq(Filters)
      <4>1. given = <<>> \/ \E i \in DOMAIN world.args.options :
               world.args.options[i].name = "filter" /\ given = world.args.options[i].value
        BY <3>1, OptionFrom
      <4>2. <<>> \in Seq(Filters)
        BY EmptySeq
      <4>3. \A i \in DOMAIN world.args.options :
               world.args.options[i].name = "filter" => world.args.options[i].value \in Seq(Filters)
        BY <3>2 DEF IsOptions
      <4> QED BY <4>1, <4>2, <4>3
    <3>4. GivenFilters = DefaultFilters \o given
      BY <3>1 DEF GivenFilters
    <3>5. ASSUME NEW i \in DOMAIN given
          PROVE  \E j \in DOMAIN GivenFilters : GivenFilters[j] = given[i]
      <4>1. Len(DefaultFilters) + i \in DOMAIN GivenFilters
            /\ GivenFilters[Len(DefaultFilters) + i] = given[i]
        BY <3>2, <3>3, <3>4
      <4> QED BY <4>1
    <3> QED BY <3>1, <3>5 DEF ValidFilters
  <2>4. FirstStop = 0 => ~(FirstStop > 0)
    OBVIOUS
  <2> QED BY <1>2, <2>1, <2>2, <2>3, <2>4
<1>5. CASE RefuseFilters
  <2>1. UNCHANGED <<world, counting, errors_by_category, printed, todo>> /\ pc' = "done"
    BY <1>5 DEF RefuseFilters, Exit, settings, counts
  <2>2. todo # <<>>
    BY <1>5 DEF RefuseFilters, InputsOK, FileStages
  <2> QED BY <1>2, <2>1, <2>2
<1>6. CASE Finish
  <2>1. /\ UNCHANGED <<world, counting, errors_by_category, printed>> /\ pc' = "done"
        /\ exit_code' = IF error_count > 0 THEN 1 ELSE 0
    BY <1>6 DEF Finish, Exit, settings, counts
  <2>2. error_count > 0 <=> printed # <<>>
    BY DEF TextInv, CountsOK
  <2> QED BY <1>2, <2>1, <2>2
<1>7. CASE Step /\ ~ParseArguments /\ ~RefuseArguments /\ ~RefuseFilters /\ ~Finish
  <2>1. UNCHANGED <<world, counting, errors_by_category, printed>>
    BY <1>7 DEF Step, StartFile, ReadConfig, SkipDirectory, IgnoreExcluded, ApplyFilters,
       SkipFile, BeginFileData, settings, counts
  <2>2. pc' \notin {"start", "done"}
    BY <1>7 DEF Step, StartFile, ReadConfig, SkipDirectory, GoUp, IgnoreExcluded, ApplyFilters,
       SkipFile, BeginFileData, EndFile
  <2> QED BY <1>1, <2>1, <2>2
<1>8. CASE TextStep
  <2>1. /\ UNCHANGED <<world, counting>> /\ pc' \notin {"start", "done"}
    BY <1>8 DEF TextStep, CheckForCopyright, ProcessGlobalSuppressions, CleanseText, CheckHeaderGuardIfndef,
     CheckHeaderGuardEndif, ProcessLine, EndFileData, FinishFile, EndFile, inputVars, settings
  <2>2. CASE UNCHANGED counts
    BY <1>1, <2>1, <2>2 DEF counts
  <2>3. ASSUME NEW errs \in Seq(AnyErr), NEW supp, Report(ThisFile, errs, supp)
        PROVE  SummaryInv'
    <3>1. PICK file \in Nat : file = ThisFile
      BY ThisFileType DEF TextInv
    <3>2. errors_by_category' = IF counting' \in {"detailed", "toplevel"} THEN Tally(printed)' ELSE EmptyBag
      BY <2>1, <2>3, <3>1, ReportKeepsSummary DEF TextInv
    <3> QED BY <2>1, <3>2 DEF SummaryInv
  <2> QED BY <1>8, <2>2, <2>3, TextReports
<1>9. CASE UNCHANGED vars
  <2>1. UNCHANGED <<world, counting, errors_by_category, printed, pc, todo, exit_code>>
    BY <1>9 DEF vars, settings, counts
  <2>2. FirstStop' = FirstStop
    BY <2>1 DEF FirstStop, SelectInSeq, Stops, ListsCategories
  <2>3. ValidFilters(GivenFilters)' <=> ValidFilters(GivenFilters)
    BY <2>1, GivenFiltersKept DEF ValidFilters
  <2>4. Tally(printed)' = Tally(printed)
    BY <2>1 DEF Tally, KeyAt, CountKey
  <2> QED BY <2>1, <2>2, <2>3, <2>4 DEF SummaryInv
<1> QED BY <1>3, <1>4, <1>5, <1>6, <1>7, <1>8, <1>9 DEF Next, Done

\* The exit status and the summary of a run that is not refused tell what was printed, for any
\* number of files, errors and categories: error_count and errors_by_category count each
\* printed error once.
THEOREM LintRunSummaryTrue == Spec => []RunSummaryTrue
<1>1. Init => SummaryInv
  <2> SUFFICES ASSUME Init PROVE SummaryInv
    OBVIOUS
  <2>1. /\ pc = "start" /\ printed = <<>> /\ errors_by_category = EmptyBag /\ counting = "total"
    BY DEF Init, InitErrors
  <2> QED BY <2>1 DEF SummaryInv
<1>2. SearchInv /\ FiltersInv /\ IncludeInv /\ TextInv /\ SummaryInv /\ [Next]_vars => SummaryInv'
  BY SummaryKept DEF SearchInv
<1>3. TextInv /\ SummaryInv => RunSummaryTrue
  BY TallyIsPerKey DEF TextInv, CountsOK, SummaryInv, RunSummaryTrue
<1> QED BY <1>1, <1>2, <1>3, FiltersInvariant, SearchInvariant, IncludeInvariant, TextInvariant, PTL DEF Spec

-----------------------------------------------------------------------------
(* Which errors are printed *)

\* The error was printed for the file that is linted.
IsPrinted(e) == [file |-> ThisFile, error |-> e] \in ToSet(printed)

\* The verbosity and the filters let the error through.
Passes(e) == e.confidence >= verbose_level /\ ~IsFiltered(e.category)

\* What was printed for the files so far; for the one that is linted now, raised errors.
PrintInv ==
    /\ pc = "start" => printed = <<>>
    /\ pc \in {"file"} \cup FileStages => \A i \in DOMAIN printed :
          \/ printed[i].file < ThisFile
          \/ pc \in TextStages /\ printed[i].file = ThisFile /\ printed[i].error \in ToSet(raised)

\* The suppressions in force are those of the comments read so far, all of them of this file.
SuppInv ==
    /\ pc \in EarlyStages \cup {"guard"} => error_suppressions = {}
    /\ pc \in {"copyright", "global"} => global_error_suppressions = {}
    /\ pc \in {"comments"} \cup LaterStages =>
          global_error_suppressions = GlobalSuppressions(TheFile.lines)
    /\ pc \in {"guard", "endif"} => target.ext = "h"
    /\ pc \in LaterStages =>
          \A n \in 1..(linenum - 1) : NolintSuppressions(lines[n], n) \subseteq error_suppressions
    /\ pc \in LaterStages /\ GuardReadsComments =>
          \A s \in error_suppressions : \E n \in DOMAIN lines : s \in NolintSuppressions(lines[n], n)

\* ErrorsPrintedExactly at every stage.
ExactInv ==
    /\ pc = "copyright" => raised = <<>>
    /\ pc \in {"global", "comments"} => \A e \in ToSet(raised) :
          e.line = 0 /\ e.category = "legal/copyright" /\ (IsPrinted(e) <=> Passes(e))
    /\ pc \in LaterStages /\ GuardReadsComments => \A e \in ToSet(raised) :
          ~Early(e) => (IsPrinted(e) <=> Passes(e) /\ ~SuppressedHere(e))

\* A comment concerns its own line or the next one.
LEMMA NolintConcerns ==
    ASSUME NEW line, NEW n, NEW s \in NolintSuppressions(line, n)
    PROVE  \E c : s = <<c, n>> \/ s = <<c, n + 1>>
<1> DEFINE comment == Nolint(line)
           nolint == NolintComments[comment]
<1>1. NolintSuppressions(line, n) \in
         {{}, {<<nolint.category, IF nolint.next THEN n + 1 ELSE n>>}}
  BY DEF NolintSuppressions
<1> HIDE DEF nolint
<1>2. s = <<nolint.category, IF nolint.next THEN n + 1 ELSE n>>
  BY <1>1
<1> QED BY <1>2

\* The first comment of a line is all that counts.
LEMMA SameComment ==
    ASSUME NEW line, NEW other, NEW n, Nolint(line) = Nolint(other)
    PROVE  NolintSuppressions(line, n) = NolintSuppressions(other, n)
BY DEF NolintSuppressions

\* An empty line suppresses nothing.
LEMMA NoComment ==
    ASSUME NEW n
    PROVE  NolintSuppressions(<<>>, n) = {}
<1> DEFINE I == {i \in 1..Len(<<>>) : <<>>[i] \in DOMAIN NolintComments}
<1>1. I = {}
  OBVIOUS
<1>2. Nolint(<<>>) = ""
  BY <1>1 DEF Nolint, SelectInSeq
<1> QED BY <1>2 DEF NolintSuppressions

\* An error on a line whose comments, and those of the line before, have all been read.
LEMMA SuppressedAsRead ==
    ASSUME NEW e \in AnyErr, NEW supp, NEW N \in Nat, Len(lines) \in Nat, DOMAIN lines = 1..Len(lines),
           global_error_suppressions = GlobalSuppressions(TheFile.lines),
           e.line <= N \/ N = Len(lines),
           \A n \in DOMAIN lines : n <= N => NolintSuppressions(lines[n], n) \subseteq supp,
           \A s \in supp : \E n \in DOMAIN lines : s \in NolintSuppressions(lines[n], n)
    PROVE  IsErrorSuppressedByNolint(supp, e.category, e.line) <=> SuppressedHere(e)
<1>1. ASSUME NEW c, NEW n \in DOMAIN lines, <<c, e.line>> \in NolintSuppressions(lines[n], n)
      PROVE  <<c, e.line>> \in supp
  <2>1. PICK d : <<c, e.line>> = <<d, n>> \/ <<c, e.line>> = <<d, n + 1>>
    BY <1>1, NolintConcerns
  <2>2. e.line = n \/ e.line = n + 1
    BY <2>1
  <2>3. PICK len \in Nat : len = Len(lines)
    OBVIOUS
  <2>4. n \in 1..len
    BY <2>3
  <2>5. PICK k \in Nat : k = e.line
    BY DEF AnyErr
  <2>6. (k = n \/ k = n + 1) /\ (k <= N \/ N = len)
    BY <2>2, <2>3, <2>5
  <2>7. n <= N
    BY ONLY <2>4, <2>6, N \in Nat, k \in Nat, len \in Nat
  <2> QED BY <1>1, <2>7
<1>2. ASSUME NEW c, <<c, e.line>> \in supp
      PROVE  \E n \in DOMAIN lines : <<c, e.line>> \in NolintSuppressions(lines[n], n)
  BY <1>2
<1> QED BY <1>1, <1>2 DEF IsErrorSuppressedByNolint, SuppressedHere

\* What was printed for this file was raised.
LEMMA PrintedIsRaised ==
    ASSUME ThisFile \in Nat, pc \in TextStages, PrintInv, NEW e, IsPrinted(e)
    PROVE  e \in ToSet(raised)
<1>1. PICK i \in DOMAIN printed : printed[i] = [file |-> ThisFile, error |-> e]
  BY DEF IsPrinted, ToSet
<1>2. printed[i].file = ThisFile /\ printed[i].error = e
  BY <1>1
<1>3. ~(printed[i].file < ThisFile)
  BY <1>2
<1> QED BY <1>2, <1>3 DEF PrintInv, FileStages

\* A report adds its errors to those raised, and those of them to be printed to those printed.
LEMMA ReportAdds ==
    ASSUME CountsOK, ThisFile \in Nat, ThisFile' = ThisFile, NEW errs \in Seq(AnyErr), NEW supp,
           Report(ThisFile, errs, supp)
    PROVE  /\ ToSet(raised') = ToSet(raised) \cup ToSet(errs)
           /\ \A e : IsPrinted(e)' <=> IsPrinted(e) \/ (e \in ToSet(errs) /\ ShouldPrintError(supp, e))
<1>1. raised \in Seq(AnyErr) /\ printed \in Seq(PrintedErr)
  BY DEF CountsOK
<1>2. PICK file \in Nat : file = ThisFile
  OBVIOUS
<1>3. /\ ToSet(raised') = ToSet(raised) \cup ToSet(errs)
      /\ \A f, e : [file |-> f, error |-> e] \in ToSet(printed') <=>
                 \/ [file |-> f, error |-> e] \in ToSet(printed)
                 \/ f = file /\ e \in ToSet(errs) /\ ShouldPrintError(supp, e)
  BY <1>1, <1>2, ReportDoes
<1>4. \A e : IsPrinted(e)' <=> [file |-> file, error |-> e] \in ToSet(printed')
  BY <1>2 DEF IsPrinted, ToSet
<1>5. \A e : IsPrinted(e) <=> [file |-> file, error |-> e] \in ToSet(printed)
  BY <1>2 DEF IsPrinted
<1> QED BY <1>3, <1>4, <1>5

\* A report keeps what was printed in order.
LEMMA ReportKeepsPrint ==
    ASSUME CountsOK, NEW file \in Nat, file = ThisFile, NEW errs \in Seq(AnyErr), NEW supp,
           Report(ThisFile, errs, supp), pc \in TextStages, PrintInv
    PROVE  \A i \in DOMAIN printed' :
              \/ printed'[i].file < file
              \/ printed'[i].file = file /\ printed'[i].error \in ToSet(raised')
<1>1. raised \in Seq(AnyErr) /\ printed \in Seq(PrintedErr)
  BY DEF CountsOK
<1>2. /\ ToSet(raised') = ToSet(raised) \cup ToSet(errs)
      /\ printed' \in Seq(PrintedErr)
      /\ \A f, e : [file |-> f, error |-> e] \in ToSet(printed') <=>
                 \/ [file |-> f, error |-> e] \in ToSet(printed)
                 \/ f = file /\ e \in ToSet(errs) /\ ShouldPrintError(supp, e)
  BY <1>1, ReportDoes
<1> SUFFICES ASSUME NEW i \in DOMAIN printed'
             PROVE  \/ printed'[i].file < file
                    \/ printed'[i].file = file /\ printed'[i].error \in ToSet(raised')
  OBVIOUS
<1>3. printed'[i] \in PrintedErr /\ printed'[i] \in ToSet(printed')
  BY <1>2 DEF ToSet
<1>4. PICK f, e : printed'[i] = [file |-> f, error |-> e]
  BY <1>3 DEF PrintedErr
<1>5. printed'[i].file = f /\ printed'[i].error = e
  BY <1>4
<1>6. CASE [file |-> f, error |-> e] \in ToSet(printed)
  <2>1. PICK j \in DOMAIN printed : printed[j] = [file |-> f, error |-> e]
    BY <1>6 DEF ToSet
  <2>2. printed[j].file = f /\ printed[j].error = e
    BY <2>1
  <2> QED BY <1>2, <1>5, <2>2 DEF PrintInv, FileStages
<1>7. CASE f = file /\ e \in ToSet(errs)
  BY <1>2, <1>5, <1>7
<1> QED BY <1>2, <1>3, <1>4, <1>6, <1>7

\* What the verdict on an error depends on.
LEMMA VerdictKept ==
    ASSUME UNCHANGED <<world, todo, lines, clean, target, filters, verbose_level>>
    PROVE  /\ ThisFile' = ThisFile /\ TheFile' = TheFile
           /\ GuardReadsComments' <=> GuardReadsComments
           /\ \A e : Passes(e)' <=> Passes(e)
           /\ \A e : Early(e)' <=> Early(e)
           /\ \A e : SuppressedHere(e)' <=> SuppressedHere(e)
<1>1. ThisFile' = ThisFile /\ TheFile' = TheFile
  BY DEF ThisFile, TheFile
<1>2. GuardReadsComments' <=> GuardReadsComments
  BY Zenon DEF GuardReadsComments, GuardLines
<1>3. \A e : Passes(e)' <=> Passes(e)
  <2>1. \A c : IsFiltered(c)' <=> IsFiltered(c)
    BY DEF IsFiltered, SelectLastInSeq
  <2> QED BY <2>1 DEF Passes
<1>4. DirectiveLine("#ifndef")' = DirectiveLine("#ifndef") /\ EndifLine' = EndifLine
  <2>1. GuardLines' = GuardLines
    BY DEF GuardLines
  <2>2. DirectiveLine("#ifndef")' = DirectiveLine("#ifndef")
    BY <2>1, Zenon DEF DirectiveLine, SelectInSeq
  <2>3. EndifLine' = EndifLine
    BY <2>1 DEF EndifLine, SelectLastInSeq
  <2> QED BY <2>2, <2>3
<1>5. \A e : Early(e)' <=> Early(e)
  BY <1>4 DEF Early
<1>6. \A e : SuppressedHere(e)' <=> SuppressedHere(e)
  BY <1>1, Zenon DEF SuppressedHere
<1> QED BY <1>1, <1>2, <1>3, <1>5, <1>6

\* ErrIf gives an element of any set that has the error.
LEMMA ErrIfOver ==
    ASSUME NEW X, NEW line, NEW category, NEW confidence, Err(line, category, confidence) \in X
    PROVE  \A p : ErrIf(p, line, category, confidence) \in Seq(X)
<1>1. <<Err(line, category, confidence)>> \in Seq(X) /\ <<>> \in Seq(X)
  OBVIOUS
<1> QED BY <1>1 DEF ErrIf

\* All that CheckForHeaderGuard reports is early.
LEMMA IfndefIsEarly ==
    ASSUME Len(GuardLines) \in Nat, target.ext = "h"
    PROVE  \A e \in ToSet(IfndefErrors) : Early(e)
<1>1. PICK n : n = DirectiveLine("#ifndef")
  OBVIOUS
<1>2. PICK conf : conf = IF IsGuard(Argument("#ifndef"), TRUE) THEN 0 ELSE 5
  OBVIOUS
<1>3. PICK a : a = ErrIf(~GuardSuppressed /\ ~HasGuard, 0, "build/header_guard", 5)
  OBVIOUS
<1>4. PICK b : b = IF JudgesGuard THEN NolintErrors(GuardLines[n], n) ELSE <<>>
  OBVIOUS
<1>5. PICK c : c = ErrIf(JudgesGuard, n, "build/header_guard", conf)
  OBVIOUS
<1>6. IfndefErrors = (a \o b) \o c
  BY <1>1, <1>2, <1>3, <1>4, <1>5 DEF IfndefErrors
<1> DEFINE X == {[line |-> 0, category |-> "build/header_guard", confidence |-> 5],
                 [line |-> n, category |-> "readability/nolint", confidence |-> 5],
                 [line |-> n, category |-> "build/header_guard", confidence |-> conf]}
<1>7. /\ Err(0, "build/header_guard", 5) \in X /\ Err(n, "readability/nolint", 5) \in X
      /\ Err(n, "build/header_guard", conf) \in X
  BY DEF Err
<1>8. \A x \in X : Early(x)
  BY <1>1 DEF Early
<1> HIDE DEF X
<1>9. a \in Seq(X)
  BY <1>3, <1>7, ErrIfOver
<1>10. c \in Seq(X)
  BY <1>5, <1>7, ErrIfOver
<1>11. b \in Seq(X)
  <2>1. \A p : ErrIf(p, n, "readability/nolint", 5) \in Seq(X)
    BY <1>7, ErrIfOver
  <2>2. <<>> \in Seq(X)
    OBVIOUS
  <2>3. NolintErrors(GuardLines[n], n) \in Seq(X)
    BY <2>1 DEF NolintErrors
  <2> QED BY <1>4, <2>2, <2>3, Zenon
<1>12. IfndefErrors \in Seq(X)
  BY <1>6, <1>9, <1>10, <1>11
<1> QED BY <1>8, <1>12 DEF ToSet

\* So is what it reports at the #endif.
LEMMA EndifIsEarly ==
    ASSUME target.ext = "h"
    PROVE  \A e \in ToSet(EndifErrors) : Early(e)
<1>1. PICK n : n = EndifLine
  OBVIOUS
<1>2. PICK conf : conf = EndifConfidence
  OBVIOUS
<1>3. PICK line : line = IF n = 0 THEN <<>> ELSE GuardLines[n]
  OBVIOUS
<1>4. PICK b : b = NolintErrors(line, n)
  OBVIOUS
<1>5. PICK c : c = ErrIf(conf < 6, n, "build/header_guard", conf)
  OBVIOUS
<1>6. EndifErrors = b \o c
  BY <1>1, <1>2, <1>3, <1>4, <1>5 DEF EndifErrors
<1> DEFINE X == {[line |-> n, category |-> "readability/nolint", confidence |-> 5],
                 [line |-> n, category |-> "build/header_guard", confidence |-> conf]}
<1>7. /\ Err(n, "readability/nolint", 5) \in X
      /\ Err(n, "build/header_guard", conf) \in X
  BY DEF Err
<1>8. \A x \in X : Early(x)
  BY <1>1 DEF Early
<1> HIDE DEF X
<1>9. c \in Seq(X)
  BY <1>5, <1>7, ErrIfOver
<1>10. b \in Seq(X)
  <2>1. \A p : ErrIf(p, n, "readability/nolint", 5) \in Seq(X)
    BY <1>7, ErrIfOver
  <2> QED BY <1>4, <2>1 DEF NolintErrors
<1>11. EndifErrors \in Seq(X)
  BY <1>6, <1>9, <1>10
<1> QED BY <1>8, <1>11 DEF ToSet

\* What was printed stays in order.
LEMMA PrintKept ==
    ASSUME InputsOK, TextInv, IncludeInv, FiltersInv, PrintInv, [Next]_vars
    PROVE  PrintInv'
<1>0. Len(todo) \in Nat /\ Len(world.args.files) \in Nat /\ ThisFile \in Nat
  BY ThisFileType DEF TextInv
<1>1. ASSUME UNCHANGED <<world, todo, printed>>, pc' # "start", pc \in {"file"} \cup FileStages, pc \notin TextStages
      PROVE  PrintInv'
  <2>1. ThisFile' = ThisFile
    BY <1>1 DEF ThisFile
  <2> QED BY <1>1, <2>1 DEF PrintInv
<1>2. ASSUME UNCHANGED <<world, printed>>, todo' = Tail(todo), todo # <<>>, pc' = "file",
             pc \in FileStages
      PROVE  PrintInv'
  <2>1. ThisFile' = ThisFile + 1
    <3>1. Len(todo') = Len(todo) - 1
      BY <1>2 DEF InputsOK
    <3> QED BY <1>0, <1>2, <3>1 DEF ThisFile
  <2>2. ASSUME NEW i \in DOMAIN printed PROVE printed[i].file < ThisFile + 1
    <3>1. printed[i].file \in Nat
      <4>1. printed[i] \in PrintedErr
        BY DEF TextInv, CountsOK
      <4> QED BY <4>1 DEF PrintedErr
    <3> QED BY <1>0, <1>2, <3>1 DEF PrintInv
  <2> QED BY <1>2, <2>1, <2>2 DEF PrintInv
<1>3. ASSUME NEW errs \in Seq(AnyErr), NEW supp, Report(ThisFile, errs, supp), pc \in TextStages,
             UNCHANGED world, (pc' \in TextStages /\ UNCHANGED todo) \/ EndFile
      PROVE  PrintInv'
  <2>1. PICK file \in Nat : file = ThisFile
    BY <1>0
  <2>2. \A i \in DOMAIN printed' :
              \/ printed'[i].file < file
              \/ printed'[i].file = file /\ printed'[i].error \in ToSet(raised')
    BY <1>3, <2>1, ReportKeepsPrint DEF TextInv
  <2>3. CASE pc' \in TextStages /\ UNCHANGED todo
    <3>1. ThisFile' = ThisFile
      BY <1>3, <2>3 DEF ThisFile
    <3>2. pc' # "start"
      BY <2>3 DEF TextStages
    <3> QED BY <2>1, <2>2, <2>3, <3>1, <3>2 DEF PrintInv
  <2>4. CASE EndFile
    <3>1. ThisFile' = ThisFile + 1
      <4>1. Len(todo') = Len(todo) - 1
        BY <1>3, <2>4 DEF InputsOK, EndFile, FileStages
      <4> QED BY <1>0, <1>3, <4>1 DEF ThisFile
    <3>2. raised \in Seq(AnyErr) /\ printed \in Seq(PrintedErr)
      BY DEF TextInv, CountsOK
    <3>3. printed' \in Seq(PrintedErr)
      BY <1>3, <2>1, <3>2, ReportDoes
    <3>4. ASSUME NEW i \in DOMAIN printed' PROVE printed'[i].file < file + 1
      <4>1. printed'[i].file \in Nat
        <5>1. printed'[i] \in PrintedErr
          BY <3>3
        <5> QED BY <5>1 DEF PrintedErr
      <4> QED BY <2>2, <4>1
    <3>5. pc' = "file"
      BY <2>4 DEF EndFile
    <3> QED BY <2>1, <3>1, <3>4, <3>5 DEF PrintInv
  <2> QED BY <1>3, <2>3, <2>4
<1>4. CASE ParseArguments
  <2>1. printed' = <<>> /\ pc' = "file"
    BY <1>4 DEF ParseArguments, PrintInv, counts
  <2> QED BY <2>1 DEF PrintInv
<1>5. CASE RefuseArguments \/ RefuseFilters \/ Finish
  <2>1. pc' = "done"
    BY <1>5 DEF RefuseArguments, RefuseFilters, Finish, Exit
  <2> QED BY <2>1 DEF PrintInv, FileStages, TextStages
<1>6. CASE StartFile \/ ReadConfig \/ SkipDirectory \/ ApplyFilters \/ BeginFileData
  <2>1. UNCHANGED <<world, todo, printed>> /\ pc' # "start"
    BY <1>6 DEF StartFile, ReadConfig, SkipDirectory, ApplyFilters, BeginFileData, GoUp, counts
  <2>2. pc \in {"file"} \cup FileStages /\ pc \notin TextStages
    BY <1>6 DEF StartFile, ReadConfig, SkipDirectory, ApplyFilters, BeginFileData, FileStages, TextStages
  <2> QED BY <1>1, <2>1, <2>2
<1>7. CASE IgnoreExcluded \/ SkipFile
  <2>1. UNCHANGED <<world, printed>> /\ todo' = Tail(todo) /\ pc' = "file"
    BY <1>7 DEF IgnoreExcluded, SkipFile, EndFile, counts
  <2>2. pc \in FileStages
    BY <1>7 DEF IgnoreExcluded, SkipFile, FileStages
  <2>3. todo # <<>>
    BY <2>2 DEF InputsOK
  <2> QED BY <1>2, <2>1, <2>2, <2>3
<1>8. CASE TextStep
  <2>1. /\ UNCHANGED world /\ pc \in TextStages
        /\ (pc' \in TextStages /\ UNCHANGED todo) \/ EndFile
    BY <1>8 DEF TextStep, CheckForCopyright, ProcessGlobalSuppressions, CleanseText, CheckHeaderGuardIfndef,
     CheckHeaderGuardEndif, ProcessLine, EndFileData, FinishFile, inputVars, TextStages
  <2>2. CASE UNCHANGED counts
    <3>1. UNCHANGED <<raised, printed>>
      BY <2>2 DEF counts
    <3>2. CASE pc' \in TextStages /\ UNCHANGED todo
      <4>1. ThisFile' = ThisFile
        BY <2>1, <3>2 DEF ThisFile
      <4> QED BY <2>1, <3>1, <3>2, <4>1 DEF PrintInv, TextStages, FileStages
    <3>3. CASE EndFile
      BY <1>2, <2>1, <3>1, <3>3 DEF EndFile, InputsOK, FileStages
    <3> QED BY <2>1, <3>2, <3>3
  <2> QED BY <1>3, <1>8, <2>1, <2>2, TextReports
<1>9. CASE UNCHANGED vars
  <2>1. UNCHANGED <<world, pc, todo, raised, printed>>
    BY <1>9 DEF vars, counts
  <2>2. ThisFile' = ThisFile
    BY <2>1 DEF ThisFile
  <2> QED BY <2>1, <2>2 DEF PrintInv
<1> QED BY <1>4, <1>5, <1>6, <1>7, <1>8, <1>9 DEF Next, Step, Done

\* The comments on the lines of a text are those that the text without raw strings has.
LEMMA GuardComments ==
    ASSUME TextOK, pc \in LaterStages, GuardReadsComments, NEW n \in DOMAIN lines
    PROVE  NolintSuppressions(GuardLines[n], n) = NolintSuppressions(lines[n], n)
BY SameComment DEF GuardReadsComments

\* The suppressions that the #ifndef of a header guard adds.
IfndefSupp ==
    IF JudgesGuard
    THEN error_suppressions \cup NolintSuppressions(GuardLines[DirectiveLine("#ifndef")], DirectiveLine("#ifndef"))
    ELSE error_suppressions

\* The suppressions that its #endif adds.
EndifSupp ==
    error_suppressions
    \cup NolintSuppressions(IF EndifLine = 0 THEN <<>> ELSE GuardLines[EndifLine], EndifLine)

\* The suppressions are still those of the comments read.
LEMMA SuppKept ==
    ASSUME InputsOK, TextInv, IncludeInv, FiltersInv, SuppInv, [Next]_vars
    PROVE  SuppInv'
<1> USE DEF EarlyStages, LaterStages
<1>1. ASSUME pc' \notin TextStages PROVE SuppInv'
  BY <1>1 DEF SuppInv, TextStages
<1>2. CASE Step /\ ~BeginFileData
  <2>1. pc' \notin TextStages
    BY <1>2 DEF Step, ParseArguments, RefuseArguments, StartFile, ReadConfig, SkipDirectory, IgnoreExcluded,
       ApplyFilters, RefuseFilters, SkipFile, Finish, GoUp, EndFile, Exit, TextStages
  <2> QED BY <1>1, <2>1
<1>3. CASE BeginFileData
  <2>1. pc' = "copyright" /\ error_suppressions' = {} /\ global_error_suppressions' = {}
    BY <1>3 DEF BeginFileData, ResetNolintSuppressions
  <2> QED BY <2>1 DEF SuppInv
<1>4. CASE CheckForCopyright
  <2>1. pc = "copyright" /\ pc' = "global" /\ UNCHANGED suppressions
    BY <1>4 DEF CheckForCopyright
  <2> QED BY <2>1 DEF SuppInv, suppressions
<1>5. CASE ProcessGlobalSuppressions
  <2>1. /\ pc = "global" /\ pc' = "comments" /\ UNCHANGED <<world, todo, error_suppressions>>
        /\ global_error_suppressions' = global_error_suppressions \cup GlobalSuppressions(lines)
    BY <1>5 DEF ProcessGlobalSuppressions, inputVars
  <2>2. TheFile' = TheFile
    BY <2>1 DEF TheFile
  <2>3. lines = TheFile.lines
    BY <2>1 DEF TextInv, TextOK
  <2>4. global_error_suppressions = {} /\ error_suppressions = {}
    BY <2>1 DEF SuppInv
  <2>5. GlobalSuppressions(TheFile.lines)' = GlobalSuppressions(TheFile.lines)
    BY <2>2 DEF GlobalSuppressions
  <2>6. global_error_suppressions' = GlobalSuppressions(TheFile.lines)
    BY <2>1, <2>3, <2>4
  <2> QED BY <2>1, <2>4, <2>5, <2>6 DEF SuppInv
<1>6. CASE CleanseText
  <2>1. /\ pc = "comments" /\ pc' = (IF target.ext = "h" THEN "guard" ELSE "lines")
        /\ UNCHANGED <<world, todo, linenum, suppressions, target>>
    BY <1>6 DEF CleanseText, inputVars, componentVars
  <2>2. TheFile' = TheFile
    BY <2>1 DEF TheFile
  <2>3. GlobalSuppressions(TheFile.lines)' = GlobalSuppressions(TheFile.lines)
    BY <2>2 DEF GlobalSuppressions
  <2>4. error_suppressions' = {} /\ global_error_suppressions' = GlobalSuppressions(TheFile.lines)
    BY <2>1 DEF SuppInv, suppressions
  <2>5. 1..(linenum' - 1) = {}
    <3>1. linenum = 1
      BY <2>1 DEF TextInv, TextOK
    <3> QED BY <2>1, <3>1
  <2> QED BY <2>1, <2>3, <2>4, <2>5 DEF SuppInv
<1>7. ASSUME pc \in LaterStages, pc' \in LaterStages,
             UNCHANGED <<world, todo, lines, clean, target, filters, verbose_level, global_error_suppressions>>,
             pc' = "guard" => UNCHANGED <<pc, error_suppressions>>,
             pc' \in {"guard", "endif"} => pc \in {"guard", "endif"},
             error_suppressions \subseteq error_suppressions',
             \A n \in 1..(linenum' - 1) :
                 n \in 1..(linenum - 1) \/ NolintSuppressions(lines[n], n) \subseteq error_suppressions',
             GuardReadsComments => \A s \in error_suppressions' : s \in error_suppressions \/
                 \E n \in DOMAIN lines : s \in NolintSuppressions(lines[n], n)
      PROVE  SuppInv'
  <2>1. /\ TheFile' = TheFile /\ (GuardReadsComments' <=> GuardReadsComments)
    BY <1>7, VerdictKept
  <2>2. GlobalSuppressions(TheFile.lines)' = GlobalSuppressions(TheFile.lines)
    BY <2>1 DEF GlobalSuppressions
  <2>3. \A n : NolintSuppressions(lines[n], n)' = NolintSuppressions(lines[n], n)
    <3>1. lines' = lines
      BY <1>7
    <3> QED BY <3>1, Zenon DEF NolintSuppressions, Nolint, SelectInSeq
  <2>4. global_error_suppressions' = GlobalSuppressions(TheFile.lines)
    BY <1>7 DEF SuppInv
  <2>5. pc' = "guard" => error_suppressions' = {}
    BY <1>7 DEF SuppInv
  <2>6. pc' \in {"guard", "endif"} => target' .ext = "h"
    BY <1>7 DEF SuppInv
  <2>7. \A n \in 1..(linenum' - 1) : NolintSuppressions(lines'[n], n) \subseteq error_suppressions'
    BY <1>7 DEF SuppInv
  <2>8. GuardReadsComments => \A s \in error_suppressions' : \E n \in DOMAIN lines' : s \in NolintSuppressions(lines'[n], n)
    BY <1>7 DEF SuppInv
  <2> QED BY <1>7, <2>1, <2>2, <2>3, <2>4, <2>5, <2>6, <2>7, <2>8 DEF SuppInv
<1>8. CASE CheckHeaderGuardIfndef
  <2>1. /\ pc = "guard" /\ pc' \in {"endif", "lines"}
        /\ UNCHANGED <<world, todo, lines, clean, target, filters, verbose_level, global_error_suppressions, linenum>>
    BY <1>8 DEF CheckHeaderGuardIfndef, inputVars, settings, fileVars, componentVars
  <2>2. error_suppressions' = IfndefSupp
    BY <1>8 DEF CheckHeaderGuardIfndef, IfndefSupp, JudgesGuard
  <2>3. JudgesGuard => DirectiveLine("#ifndef") \in DOMAIN lines
    <3>1. Len(GuardLines) = Len(lines) /\ Len(lines) \in Nat
      BY <2>1, GuardLinesType DEF TextInv
    <3>2. DirectiveLine("#ifndef") \in 0..Len(lines)
      BY <3>1, DirectiveLineType
    <3>3. JudgesGuard => DirectiveLine("#ifndef") > 0
      BY DEF JudgesGuard, HasGuard
    <3>4. DOMAIN lines = 1..Len(lines)
      BY DEF TextInv, TextOK
    <3> QED BY <3>1, <3>2, <3>3, <3>4
  <2>4. GuardReadsComments /\ JudgesGuard =>
           NolintSuppressions(GuardLines[DirectiveLine("#ifndef")], DirectiveLine("#ifndef"))
             = NolintSuppressions(lines[DirectiveLine("#ifndef")], DirectiveLine("#ifndef"))
    BY <2>1, <2>3, GuardComments DEF TextInv
  <2>5. /\ error_suppressions \subseteq error_suppressions'
        /\ GuardReadsComments => \A s \in error_suppressions' : s \in error_suppressions \/
                 \E n \in DOMAIN lines : s \in NolintSuppressions(lines[n], n)
    BY <2>2, <2>3, <2>4, Zenon DEF IfndefSupp
  <2> QED BY <1>7, <2>1, <2>5
<1>9. CASE CheckHeaderGuardEndif
  <2>1. /\ pc = "endif" /\ pc' = "lines"
        /\ UNCHANGED <<world, todo, lines, clean, target, filters, verbose_level, global_error_suppressions, linenum>>
    BY <1>9 DEF CheckHeaderGuardEndif, inputVars, settings, fileVars, componentVars
  <2>2. error_suppressions' = EndifSupp
    BY <1>9 DEF CheckHeaderGuardEndif, EndifSupp
  <2>3. EndifLine # 0 => EndifLine \in DOMAIN lines
    <3>1. Len(GuardLines) = Len(lines) /\ Len(lines) \in Nat
      BY <2>1, GuardLinesType DEF TextInv
    <3>2. EndifLine \in 0..Len(lines)
      BY <3>1, EndifLineType
    <3>4. DOMAIN lines = 1..Len(lines)
      BY DEF TextInv, TextOK
    <3> QED BY <3>1, <3>2, <3>4
  <2>4. GuardReadsComments /\ EndifLine # 0 =>
           NolintSuppressions(GuardLines[EndifLine], EndifLine) = NolintSuppressions(lines[EndifLine], EndifLine)
    BY <2>1, <2>3, GuardComments DEF TextInv
  <2>5. EndifLine = 0 => EndifSupp = error_suppressions
    <3>1. \A n : NolintSuppressions(<<>>, n) = {}
      BY NoComment
    <3> QED BY <3>1 DEF EndifSupp
  <2>6. EndifLine # 0 => EndifSupp = error_suppressions \cup NolintSuppressions(GuardLines[EndifLine], EndifLine)
    BY DEF EndifSupp
  <2>7. /\ error_suppressions \subseteq error_suppressions'
        /\ GuardReadsComments => \A s \in error_suppressions' : s \in error_suppressions \/
                 \E n \in DOMAIN lines : s \in NolintSuppressions(lines[n], n)
    <3>1. CASE EndifLine = 0
      BY <2>2, <2>5, <3>1
    <3>2. CASE EndifLine # 0
      BY <2>2, <2>3, <2>4, <2>6, <3>2, Zenon
    <3> QED BY <3>1, <3>2
  <2> QED BY <1>7, <2>1, <2>7
<1>10. CASE ProcessLine
  <2>1. /\ pc = "lines" /\ pc' = "lines" /\ linenum <= Len(lines) /\ linenum' = linenum + 1
        /\ UNCHANGED <<world, todo, lines, clean, target, filters, verbose_level, global_error_suppressions>>
        /\ error_suppressions' = error_suppressions \cup NolintSuppressions(clean.raw_lines[linenum], linenum)
    BY <1>10 DEF ProcessLine, CheckLine, inputVars, settings
  <2>2. clean.raw_lines = lines /\ linenum \in Nat \ {0} /\ linenum \in DOMAIN lines
    BY <2>1 DEF TextInv, TextOK
  <2>3. \A n \in 1..(linenum' - 1) : n \in 1..(linenum - 1) \/ n = linenum
    BY <2>1, <2>2
  <2>4. NolintSuppressions(lines[linenum], linenum) \subseteq error_suppressions'
    BY <2>1, <2>2
  <2>5. \A s \in error_suppressions' : s \in error_suppressions \/
                 \E n \in DOMAIN lines : s \in NolintSuppressions(lines[n], n)
    BY <2>1, <2>2
  <2> QED BY <1>7, <2>1, <2>3, <2>4, <2>5
<1>11. CASE EndFileData
  <2>1. /\ pc = "lines" /\ pc' = "finish" /\ UNCHANGED <<error_suppressions, linenum>>
        /\ UNCHANGED <<world, todo, lines, clean, target, filters, verbose_level, global_error_suppressions>>
    BY <1>11 DEF EndFileData, inputVars, settings, fileVars, componentVars, suppressions
  <2> QED BY <1>7, <2>1
<1>12. CASE FinishFile
  <2>1. pc' \notin TextStages
    BY <1>12 DEF FinishFile, EndFile, TextStages
  <2> QED BY <1>1, <2>1
<1>13. CASE UNCHANGED vars
  <2>1. /\ UNCHANGED <<pc, error_suppressions, linenum>>
        /\ UNCHANGED <<world, todo, lines, clean, target, filters, verbose_level, global_error_suppressions>>
    BY <1>13 DEF vars, settings, fileVars, componentVars, suppressions
  <2>2. CASE pc \in LaterStages
    BY <1>7, <2>1, <2>2
  <2>3. CASE pc \notin LaterStages
    <3>1. TheFile' = TheFile
      BY <2>1 DEF TheFile
    <3>2. GlobalSuppressions(TheFile.lines)' = GlobalSuppressions(TheFile.lines)
      BY <3>1 DEF GlobalSuppressions
    <3> QED BY <2>1, <2>3, <3>2 DEF SuppInv
  <2> QED BY <2>2, <2>3
<1> QED BY <1>2, <1>3, <1>4, <1>5, <1>6, <1>8, <1>9, <1>10, <1>11, <1>12, <1>13 DEF Next, Done, TextStep

\* With the global suppressions of the file, an error is printed as SuppressedHere says.
LEMMA PrintsAsRead ==
    ASSUME NEW e, NEW supp, IsErrorSuppressedByNolint(supp, e.category, e.line) <=> SuppressedHere(e)
    PROVE  ShouldPrintError(supp, e) <=> Passes(e) /\ ~SuppressedHere(e)
BY DEF ShouldPrintError, Passes

\* A report of one of the later steps keeps ExactInv.
LEMMA LaterReport ==
    ASSUME InputsOK, TextInv, PrintInv, ExactInv, pc \in LaterStages, pc' \in LaterStages,
           NEW errs \in Seq(AnyErr), NEW supp, Report(ThisFile, errs, supp),
           UNCHANGED <<world, todo, lines, clean, target, filters, verbose_level>>,
           GuardReadsComments => \A e \in ToSet(errs) : ~Early(e) =>
              (IsErrorSuppressedByNolint(supp, e.category, e.line) <=> SuppressedHere(e))
    PROVE  ExactInv'
<1>1. /\ ThisFile' = ThisFile /\ (GuardReadsComments' <=> GuardReadsComments)
      /\ \A e : (Passes(e)' <=> Passes(e)) /\ (Early(e)' <=> Early(e))
                /\ (SuppressedHere(e)' <=> SuppressedHere(e))
  BY VerdictKept
<1>2. ThisFile \in Nat /\ CountsOK /\ pc \in TextStages
  BY ThisFileType DEF TextInv, LaterStages, TextStages
<1>3. SUFFICES ASSUME GuardReadsComments PROVE ExactInv'
  BY <1>1 DEF ExactInv, LaterStages
<1>4. /\ ToSet(raised') = ToSet(raised) \cup ToSet(errs)
      /\ \A e : IsPrinted(e)' <=> IsPrinted(e) \/ (e \in ToSet(errs) /\ ShouldPrintError(supp, e))
  BY <1>1, <1>2, ReportAdds
<1>5. ASSUME NEW e \in ToSet(raised'), ~Early(e)
      PROVE  IsPrinted(e)' <=> Passes(e) /\ ~SuppressedHere(e)
  <2>1. e \in ToSet(raised) => (IsPrinted(e) <=> Passes(e) /\ ~SuppressedHere(e))
    BY <1>3, <1>5 DEF ExactInv
  <2>2. e \in ToSet(errs) => (ShouldPrintError(supp, e) <=> Passes(e) /\ ~SuppressedHere(e))
    BY <1>3, <1>5, PrintsAsRead
  <2>3. IsPrinted(e) => e \in ToSet(raised)
    BY <1>2, PrintedIsRaised
  <2> QED BY <1>4, <2>1, <2>2, <2>3
<1>6. \A e \in ToSet(raised)' : ~Early(e)' => (IsPrinted(e)' <=> Passes(e)' /\ ~SuppressedHere(e)')
  BY <1>1, <1>5 DEF ToSet
<1> QED BY <1>6 DEF ExactInv, LaterStages

\* The errors that CheckForCopyright reports.
LEMMA CopyrightIs ==
    \A e \in ToSet(CopyrightErrors) : e.line = 0 /\ e.category = "legal/copyright"
<1> DEFINE X == {Err(0, "legal/copyright", 5)}
<1>1. \A x \in X : x.line = 0 /\ x.category = "legal/copyright"
  BY DEF Err
<1>2. Err(0, "legal/copyright", 5) \in X
  OBVIOUS
<1> HIDE DEF X
<1>3. CopyrightErrors \in Seq(X)
  BY <1>2, ErrIfOver DEF CopyrightErrors
<1> QED BY <1>1, <1>3 DEF ToSet

\* An unterminated comment is an early error.
LEMMA CommentIsEarly ==
    \A e \in ToSet(CommentErrors) : e.category = "readability/multiline_comment"
<1>1. PICK u : u = RemoveMultiLineComments(lines).unterminated
  OBVIOUS
<1> DEFINE X == {Err(u, "readability/multiline_comment", 5)}
<1>2. \A x \in X : x.category = "readability/multiline_comment"
  BY DEF Err
<1>3. Err(u, "readability/multiline_comment", 5) \in X
  OBVIOUS
<1> HIDE DEF X
<1>4. CommentErrors = ErrIf(u > 0, u, "readability/multiline_comment", 5)
  BY <1>1 DEF CommentErrors
<1>5. CommentErrors \in Seq(X)
  BY <1>3, <1>4, ErrIfOver
<1> QED BY <1>2, <1>5 DEF ToSet

\* Before the comments are read, errors are printed as they pass.
LEMMA CopyrightKeepsExact ==
    ASSUME InputsOK, TextInv, PrintInv, SuppInv, ExactInv, CheckForCopyright
    PROVE  ExactInv'
<1>1. /\ pc = "copyright" /\ pc' = "global" /\ UNCHANGED <<world, todo, lines, clean, target, filters, verbose_level>>
      /\ Report(ThisFile, CopyrightErrors, error_suppressions)
  BY DEF CheckForCopyright, CopyrightErrors, inputVars, settings, fileVars, componentVars
<1>2. ThisFile' = ThisFile /\ \A e : Passes(e)' <=> Passes(e)
  BY <1>1, VerdictKept
<1>3. ThisFile \in Nat /\ CountsOK /\ pc \in TextStages
  BY <1>1, ThisFileType DEF TextInv, TextStages
<1>4. ToSet(raised) = {}
  BY <1>1 DEF ExactInv, ToSet
<1>5. /\ ToSet(raised') = ToSet(raised) \cup ToSet(CopyrightErrors)
      /\ \A e : IsPrinted(e)' <=>
                 IsPrinted(e) \/ (e \in ToSet(CopyrightErrors) /\ ShouldPrintError(error_suppressions, e))
  BY <1>1, <1>2, <1>3, CopyrightErrorsType, ReportAdds
<1>6. error_suppressions = {} /\ global_error_suppressions = {}
  BY <1>1 DEF SuppInv, EarlyStages
<1>7. \A e : ShouldPrintError(error_suppressions, e) <=> Passes(e)
  BY <1>6 DEF ShouldPrintError, Passes, IsErrorSuppressedByNolint
<1>8. ASSUME NEW e \in ToSet(raised')
      PROVE  e.line = 0 /\ e.category = "legal/copyright" /\ (IsPrinted(e)' <=> Passes(e)')
  <2>1. e \in ToSet(CopyrightErrors)
    BY <1>4, <1>5
  <2>2. ~IsPrinted(e)
    BY <1>3, <1>4, PrintedIsRaised
  <2> QED BY <1>2, <1>5, <1>7, <2>1, <2>2, CopyrightIs
<1> QED BY <1>1, <1>8 DEF ExactInv, LaterStages, ToSet

\* The text is cleansed: what was raised so far stays printed as it passes.
LEMMA CleanseKeepsExact ==
    ASSUME InputsOK, TextInv, TextOK', PrintInv, ExactInv, CleanseText
    PROVE  ExactInv'
<1>1. /\ pc = "comments" /\ pc' \in LaterStages /\ UNCHANGED <<world, todo, filters, verbose_level>>
      /\ Report(ThisFile, CommentErrors, error_suppressions)
  BY DEF CleanseText, CommentErrors, inputVars, settings, LaterStages
<1>2. ThisFile' = ThisFile
  BY <1>1 DEF ThisFile
<1>3. ThisFile \in Nat /\ CountsOK /\ lines \in Seq(Seq(Tokens))
  BY ThisFileType DEF TextInv, TextOK
<1>4. CommentErrors \in Seq(AnyErr)
  BY <1>3, CommentErrorsType
<1>5. /\ ToSet(raised') = ToSet(raised) \cup ToSet(CommentErrors)
      /\ \A e : IsPrinted(e)' <=>
                 IsPrinted(e) \/ (e \in ToSet(CommentErrors) /\ ShouldPrintError(error_suppressions, e))
  BY <1>1, <1>2, <1>3, <1>4, ReportAdds
<1>7. ASSUME NEW e \in ToSet(raised'), ~Early(e)'
      PROVE  IsPrinted(e)' <=> Passes(e)' /\ ~SuppressedHere(e)'
  <2>1. e \notin ToSet(CommentErrors)
    BY <1>7, CommentIsEarly DEF Early
  <2>2. e.line = 0 /\ e.category = "legal/copyright" /\ (IsPrinted(e) <=> Passes(e))
    BY <1>1, <1>5, <1>7, <2>1 DEF ExactInv
  <2>3. IsPrinted(e)' <=> IsPrinted(e)
    BY <1>5, <2>1
  <2>4. Passes(e)' <=> Passes(e)
    <3>1. IsFiltered(e.category)' <=> IsFiltered(e.category)
      BY <1>1 DEF IsFiltered, SelectLastInSeq
    <3> QED BY <1>1, <3>1 DEF Passes
  <2>5. ~SuppressedHere(e)'
    <3>1. e.category \notin GlobalSuppressions(TheFile.lines)'
      BY <2>2, SuppressedAssumption DEF GlobalSuppressions
    <3>2. ASSUME NEW n \in DOMAIN lines', NEW c, <<c, e.line>> \in NolintSuppressions(lines'[n], n)
          PROVE  FALSE
      <4>1. PICK d : <<c, e.line>> = <<d, n>> \/ <<c, e.line>> = <<d, n + 1>>
        BY <3>2, NolintConcerns
      <4>2. e.line = n \/ e.line = n + 1
        BY <4>1
      <4>3. n \in Nat \ {0}
        BY DEF TextOK
      <4> QED BY <2>2, <4>2, <4>3
    <3> QED BY <3>1, <3>2 DEF SuppressedHere
  <2> QED BY <2>2, <2>3, <2>4, <2>5
<1> QED BY <1>1, <1>7 DEF ExactInv, LaterStages, ToSet

\* The header guard reports early errors only.
LEMMA GuardKeepsExact ==
    ASSUME InputsOK, TextInv, PrintInv, SuppInv, ExactInv,
           CheckHeaderGuardIfndef \/ CheckHeaderGuardEndif
    PROVE  ExactInv'
<1>1. /\ pc \in LaterStages /\ pc' \in LaterStages /\ pc \in {"guard", "endif"}
      /\ UNCHANGED <<world, todo, lines, clean, target, filters, verbose_level>>
  BY DEF CheckHeaderGuardIfndef, CheckHeaderGuardEndif, inputVars, settings, fileVars, componentVars, LaterStages
<1>2. target.ext = "h"
  BY <1>1 DEF SuppInv
<1>3. Len(GuardLines) \in Nat
  BY <1>1, GuardLinesType DEF TextInv
<1>4. ASSUME NEW errs \in Seq(AnyErr), NEW supp, Report(ThisFile, errs, supp), \A e \in ToSet(errs) : Early(e)
      PROVE  ExactInv'
  BY <1>1, <1>4, LaterReport
<1>5. CASE CheckHeaderGuardIfndef
  <2>1. \E supp : Report(ThisFile, IfndefErrors, supp)
    BY <1>5 DEF CheckHeaderGuardIfndef, IfndefErrors, JudgesGuard
  <2> QED BY <1>2, <1>3, <1>4, <2>1, IfndefErrorsType, IfndefIsEarly
<1>6. CASE CheckHeaderGuardEndif
  <2>1. \E supp : Report(ThisFile, EndifErrors, supp)
    BY <1>6 DEF CheckHeaderGuardEndif, EndifErrors
  <2> QED BY <1>2, <1>3, <1>4, <2>1, EndifErrorsType, EndifIsEarly
<1> QED BY <1>5, <1>6

\* A line is reported on after its comments are read.
LEMMA LineKeepsExact ==
    ASSUME InputsOK, TextInv, PrintInv, SuppInv, ExactInv, ProcessLine
    PROVE  ExactInv'
<1>1. /\ pc = "lines" /\ pc' = "lines" /\ linenum <= Len(lines)
      /\ UNCHANGED <<world, todo, lines, clean, target, filters, verbose_level>>
  BY DEF ProcessLine, inputVars, settings
<1>2. pc \in LaterStages /\ pc' \in LaterStages
  BY <1>1 DEF LaterStages
<1>3. PICK supp : /\ Report(ThisFile, LineErrors(linenum, After), supp)
                  /\ supp = error_suppressions \cup NolintSuppressions(clean.raw_lines[linenum], linenum)
  BY DEF ProcessLine, CheckLine, After
<1>4. clean.raw_lines = lines /\ linenum \in Nat \ {0} /\ linenum \in DOMAIN lines
      /\ DOMAIN lines = 1..Len(lines) /\ Len(lines) \in Nat
  BY <1>1, <1>2 DEF TextInv, TextOK
<1>5. PICK N \in Nat : N = linenum
  BY <1>4
<1>6. PICK errs : errs = LineErrors(linenum, After)
  OBVIOUS
<1>7. errs \in Seq(LineErrs(N)) /\ errs \in Seq(AnyErr)
  BY <1>1, <1>5, <1>6, LineReports DEF TextInv
<1>8. global_error_suppressions = GlobalSuppressions(TheFile.lines)
  BY <1>2 DEF SuppInv
<1>9. \A n \in DOMAIN lines : n <= N => NolintSuppressions(lines[n], n) \subseteq supp
  <2>1. \A n \in 1..(linenum - 1) : NolintSuppressions(lines[n], n) \subseteq error_suppressions
    BY <1>2 DEF SuppInv
  <2>2. \A n \in DOMAIN lines : n <= N => n \in 1..(linenum - 1) \/ n = linenum
    BY <1>4, <1>5
  <2> QED BY <1>3, <1>4, <2>1, <2>2
<1>10. GuardReadsComments => \A s \in supp : \E n \in DOMAIN lines : s \in NolintSuppressions(lines[n], n)
  BY <1>2, <1>3, <1>4 DEF SuppInv
<1>11. ASSUME GuardReadsComments, NEW e \in ToSet(errs)
       PROVE  IsErrorSuppressedByNolint(supp, e.category, e.line) <=> SuppressedHere(e)
  <2>1. e \in LineErrs(N) /\ e \in AnyErr
    BY <1>7, <1>11 DEF ToSet
  <2>2. e.line <= N
    BY <2>1 DEF LineErrs, Errs, FunctionErrs
  <2> QED BY <1>4, <1>8, <1>9, <1>10, <1>11, <2>1, <2>2, SuppressedAsRead
<1> QED BY <1>1, <1>2, <1>3, <1>6, <1>7, <1>11, LaterReport

\* The errors of the whole text come after all its comments.
LEMMA EndKeepsExact ==
    ASSUME InputsOK, TextInv, IncludeInv, PrintInv, SuppInv, ExactInv, EndFileData
    PROVE  ExactInv'
<1>1. /\ pc = "lines" /\ pc' = "finish" /\ linenum > Len(lines)
      /\ UNCHANGED <<world, todo, lines, clean, target, filters, verbose_level>>
  BY DEF EndFileData, inputVars, settings, fileVars, componentVars
<1>2. pc \in LaterStages /\ pc' \in LaterStages
  BY <1>1 DEF LaterStages
<1>3. PICK errs : Report(ThisFile, errs, error_suppressions) /\ errs = EndErrorsOfFile
  BY DEF EndFileData, EndErrorsOfFile
<1>4. linenum - 1 = Len(lines) /\ DOMAIN lines = 1..Len(lines) /\ Len(lines) \in Nat
  BY <1>1 DEF TextInv, TextOK
<1>5. PICK N \in Nat : N = Len(lines)
  BY <1>4
<1>7. errs \in Seq(AnyErr)
  <2>1. errs \in Seq(Errs(N))
    BY <1>1, <1>3, <1>5, EndReports DEF TextInv
  <2> QED BY <2>1, ErrsAreErrs
<1>8. global_error_suppressions = GlobalSuppressions(TheFile.lines)
  BY <1>2 DEF SuppInv
<1>9. \A n \in DOMAIN lines : n <= N => NolintSuppressions(lines[n], n) \subseteq error_suppressions
  <2>1. \A n \in 1..(linenum - 1) : NolintSuppressions(lines[n], n) \subseteq error_suppressions
    BY <1>2 DEF SuppInv
  <2> QED BY <1>4, <2>1
<1>10. GuardReadsComments =>
          \A s \in error_suppressions : \E n \in DOMAIN lines : s \in NolintSuppressions(lines[n], n)
  BY <1>2 DEF SuppInv
<1>11. ASSUME GuardReadsComments, NEW e \in ToSet(errs)
       PROVE  IsErrorSuppressedByNolint(error_suppressions, e.category, e.line) <=> SuppressedHere(e)
  <2>1. e \in AnyErr
    BY <1>7, <1>11 DEF ToSet
  <2> QED BY <1>4, <1>5, <1>8, <1>9, <1>10, <1>11, <2>1, SuppressedAsRead
<1> QED BY <1>1, <1>2, <1>3, <1>7, <1>11, LaterReport

\* Every step keeps the errors printed exactly.
LEMMA ExactKept ==
    ASSUME InputsOK, TextInv, IncludeInv, FiltersInv, PrintInv, SuppInv, ExactInv, [Next]_vars
    PROVE  ExactInv'
<1>1. ASSUME pc' \notin TextStages PROVE ExactInv'
  BY <1>1 DEF ExactInv, TextStages, LaterStages
<1>2. CASE Step /\ ~BeginFileData
  <2>1. pc' \notin TextStages
    BY <1>2 DEF Step, ParseArguments, RefuseArguments, StartFile, ReadConfig, SkipDirectory, IgnoreExcluded,
       ApplyFilters, RefuseFilters, SkipFile, Finish, GoUp, EndFile, Exit, TextStages
  <2> QED BY <1>1, <2>1
<1>3. CASE BeginFileData
  <2>1. pc' = "copyright" /\ raised' = <<>>
    BY <1>3 DEF BeginFileData
  <2> QED BY <2>1 DEF ExactInv, LaterStages
<1>4. CASE CheckForCopyright
  BY <1>4, CopyrightKeepsExact
<1>5. ASSUME UNCHANGED <<world, todo, lines, clean, target, filters, verbose_level, raised, printed>>,
             pc' = pc \/ (pc = "global" /\ pc' = "comments")
      PROVE  ExactInv'
  <2>1. /\ ThisFile' = ThisFile /\ (GuardReadsComments' <=> GuardReadsComments)
        /\ \A e : Passes(e)' <=> Passes(e)
        /\ \A e : Early(e)' <=> Early(e)
        /\ \A e : SuppressedHere(e)' <=> SuppressedHere(e)
    BY <1>5, VerdictKept
  <2>2. \A e : IsPrinted(e)' <=> IsPrinted(e)
    BY <1>5, <2>1 DEF IsPrinted, ToSet
  <2>3. ToSet(raised)' = ToSet(raised) /\ raised' = raised
    BY <1>5 DEF ToSet
  <2>4. pc' = "copyright" => raised' = <<>>
    BY <1>5 DEF ExactInv
  <2>5. pc' \in {"global", "comments"} => \A e \in ToSet(raised)' :
          e.line = 0 /\ e.category = "legal/copyright" /\ (IsPrinted(e)' <=> Passes(e)')
    BY <1>5, <2>1, <2>2, <2>3 DEF ExactInv
  <2>6. pc' \in LaterStages /\ GuardReadsComments' => \A e \in ToSet(raised)' :
          ~Early(e)' => (IsPrinted(e)' <=> Passes(e)' /\ ~SuppressedHere(e)')
    BY <1>5, <2>1, <2>2, <2>3 DEF ExactInv, LaterStages
  <2> QED BY <2>4, <2>5, <2>6 DEF ExactInv
<1>6. CASE ProcessGlobalSuppressions
  <2>1. /\ UNCHANGED <<world, todo, lines, clean, target, filters, verbose_level, raised, printed>>
        /\ pc = "global" /\ pc' = "comments"
    BY <1>6 DEF ProcessGlobalSuppressions, inputVars, settings, fileVars, componentVars, counts
  <2> QED BY <1>5, <2>1
<1>7. CASE CleanseText
  <2>1. TextOK'
    BY <1>7, CleanseMakesText DEF TextInv
  <2> QED BY <1>7, <2>1, CleanseKeepsExact
<1>8. CASE CheckHeaderGuardIfndef \/ CheckHeaderGuardEndif
  BY <1>8, GuardKeepsExact
<1>9. CASE ProcessLine
  BY <1>9, LineKeepsExact
<1>10. CASE EndFileData
  BY <1>10, EndKeepsExact
<1>11. CASE FinishFile
  <2>1. pc' \notin TextStages
    BY <1>11 DEF FinishFile, EndFile, TextStages
  <2> QED BY <1>1, <2>1
<1>12. CASE UNCHANGED vars
  <2>1. UNCHANGED <<world, todo, lines, clean, target, filters, verbose_level, raised, printed, pc>>
    BY <1>12 DEF vars, settings, fileVars, componentVars, counts
  <2> QED BY <1>5, <2>1
<1> QED BY <1>2, <1>3, <1>4, <1>6, <1>7, <1>8, <1>9, <1>10, <1>11, <1>12 DEF Next, Done, TextStep

\* What is printed for a file is exactly what its comments, its directives, the filters and the
\* verbosity let through, for any number of files, lines and comments.
THEOREM LintErrorsPrintedExactly == Spec => []ErrorsPrintedExactly
<1>1. Init => PrintInv /\ SuppInv /\ ExactInv
  <2> SUFFICES ASSUME Init PROVE PrintInv /\ SuppInv /\ ExactInv
    OBVIOUS
  <2>1. pc = "start" /\ printed = <<>>
    BY DEF Init, InitErrors
  <2> QED BY <2>1 DEF PrintInv, SuppInv, ExactInv, EarlyStages, LaterStages, FileStages, TextStages
<1>2. SearchInv /\ FiltersInv /\ IncludeInv /\ TextInv /\ PrintInv /\ SuppInv /\ ExactInv /\ [Next]_vars
         => PrintInv' /\ SuppInv' /\ ExactInv'
  BY PrintKept, SuppKept, ExactKept DEF SearchInv
<1>3. ExactInv => ErrorsPrintedExactly
  BY DEF ExactInv, ErrorsPrintedExactly, LaterStages, IsPrinted, Passes
<1> QED BY <1>1, <1>2, <1>3, FiltersInvariant, SearchInvariant, IncludeInvariant, TextInvariant, PTL DEF Spec

-----------------------------------------------------------------------------
(* Includes in branches *)

\* A conditional begins or ends between two lines.
Apart(m, n) == \E k \in (m + 1)..(n - 1) : IsIf(k) \/ IsEndif(k)

\* An include on a list that is still searched: no other branch has begun since its line, or
\* a conditional has begun or ended.
SameBranch(i, m, n) ==
    Apart(m, n) \/ (i = Len(include_list) /\ \A k \in m..(n - 1) : ~IsElse(k))

\* Every include listed is one of a branch that the line is in, or set apart from it.
BranchInv ==
    pc = "lines" /\ ~HasAsm =>
        \A i \in DOMAIN include_list : \A j \in DOMAIN include_list[i] :
            SameBranch(i, include_list[i][j].line, linenum)

\* Without the word for it in the text, no line is in inline assembly.
LEMMA NoAsmBlocks ==
    ASSUME TextOK, pc = "lines", linenum <= Len(lines), ~HasAsm
    PROVE  ~InAsmBlock(After.stack)
<1>1. "asm" \notin Tokens
  <2>1. "asm" \notin Marks
    BY DEF Marks, Quote
  <2> QED BY <2>1 DEF Tokens, TokensOf, HasAsm
<1>2. PICK s : s = After.stack
  OBVIOUS
<1>3. s \in Seq(Blocks(Tokens, linenum))
  BY <1>2, AfterType
<1>4. CASE s = <<>>
  BY <1>2, <1>4 DEF InAsmBlock, Top, NoBlock, NewBlock
<1>5. CASE s # <<>>
  <2>1. Last(s) \in Blocks(Tokens, linenum)
    BY <1>3, <1>5 DEF Last
  <2>2. Last(s).asm = NoAsm
    BY <1>1, <2>1 DEF Blocks, AsmValues
  <2> QED BY <1>2, <1>5, <2>2 DEF InAsmBlock, Top
<1> QED BY <1>4, <1>5

\* The next line keeps two lines apart.
LEMMA ApartOn ==
    ASSUME NEW m \in Nat, NEW n \in Nat, Apart(m, n)
    PROVE  Apart(m, n + 1)
<1>1. PICK k \in (m + 1)..(n - 1) : IsIf(k) \/ IsEndif(k)
  BY DEF Apart
<1>2. k \in (m + 1)..((n + 1) - 1)
  BY <1>1
<1> QED BY <1>1, <1>2 DEF Apart

\* A line that begins or ends a conditional sets all lines before it apart.
LEMMA ApartNow ==
    ASSUME NEW m \in Nat, NEW n \in Nat, m < n, IsIf(n) \/ IsEndif(n)
    PROVE  Apart(m, n + 1)
<1>1. n \in (m + 1)..((n + 1) - 1)
  OBVIOUS
<1> QED BY <1>1 DEF Apart

\* A line keeps the lists apart by branches.
LEMMA LineKeepsBranches ==
    ASSUME TextOK, IncludeInv, BranchInv, ProcessLine
    PROVE  BranchInv'
<1> SUFFICES ASSUME ~HasAsm PROVE BranchInv'
  <2>1. HasAsm' <=> HasAsm
    BY DEF ProcessLine, HasAsm, ToSet
  <2> QED BY <2>1 DEF BranchInv
<1>1. /\ pc = "lines" /\ pc' = "lines" /\ linenum <= Len(lines) /\ linenum' = linenum + 1
      /\ UNCHANGED <<lines, clean>>
  BY DEF ProcessLine
<1>2. PICK n \in Nat \ {0} : n = linenum
  BY <1>1 DEF TextOK
<1>3. UpdateIncludes(clean.elided[n], n)
  BY <1>1, <1>2, NoAsmBlocks DEF ProcessLine, CheckLine, After
<1>4. \A k : (IsIf(k)' <=> IsIf(k)) /\ (IsElse(k)' <=> IsElse(k)) /\ (IsEndif(k)' <=> IsEndif(k))
  BY <1>1 DEF IsIf, IsElse, IsEndif, FirstWord, IsBlank, GetIndentLevel, SelectInSeq
<1>5. ASSUME NEW i \in DOMAIN include_list, NEW j \in DOMAIN include_list[i]
      PROVE  /\ include_list[i][j].line \in 1..(n - 1)
             /\ SameBranch(i, include_list[i][j].line, n)
  <2>1. ListedUpTo(n - 1)
    BY <1>2 DEF TextOK
  <2> QED BY <1>1, <1>2, <2>1 DEF ListedUpTo, BranchInv
<1> DEFINE Still(i, m) == Apart(m, n + 1) \/ (i = Len(include_list') /\ \A k \in m..n : ~IsElse(k))
<1>7. ASSUME NEW m \in 1..(n - 1), \A k \in m..(n - 1) : ~IsElse(k), ~IsElse(n)
      PROVE  \A k \in m..n : ~IsElse(k)
  <2>1. \A k \in m..n : k \in m..(n - 1) \/ k = n
    OBVIOUS
  <2> QED BY <1>7, <2>1
<1>8. PICK word : word = FirstWord(clean.elided[n])
  OBVIOUS
<1>9. ASSUME NEW i \in DOMAIN include_list', NEW j \in DOMAIN include_list'[i]
      PROVE  Still(i, include_list'[i][j].line)
  <2>1. CASE word = "#include"
    <3>1. CheckIncludeLine(HeaderOf(clean.elided[n]), n)
      BY <1>3, <1>8, <2>1 DEF UpdateIncludes, IsInclude, Directives
    <3>2. /\ Len(include_list') = Len(include_list)
          /\ i \in DOMAIN include_list
          /\ \/ j \in DOMAIN include_list[i] /\ include_list'[i][j] = include_list[i][j]
             \/ i = Len(include_list) /\ include_list'[i][j].line = n
      BY <1>9, <3>1, RecordDoes
    <3>3. ~IsElse(n)
      BY <1>8, <2>1 DEF IsElse
    <3>4. CASE j \in DOMAIN include_list[i] /\ include_list'[i][j] = include_list[i][j]
      <4>1. PICK m \in 1..(n - 1) : m = include_list[i][j].line
        BY <1>5, <3>2, <3>4
      <4>2. SameBranch(i, m, n)
        BY <1>5, <3>2, <3>4, <4>1
      <4>3. Apart(m, n) => Apart(m, n + 1)
        BY ApartOn
      <4>4. (i = Len(include_list) /\ \A k \in m..(n - 1) : ~IsElse(k))
               => (i = Len(include_list') /\ \A k \in m..n : ~IsElse(k))
        BY <1>7, <3>2, <3>3
      <4> QED BY <1>9, <3>4, <4>1, <4>2, <4>3, <4>4 DEF SameBranch
    <3>5. CASE i = Len(include_list) /\ include_list'[i][j].line = n
      <4>1. \A k \in n..n : ~IsElse(k)
        BY <3>3
      <4> QED BY <1>9, <3>2, <3>5, <4>1
    <3> QED BY <3>2, <3>4, <3>5
  <2>2. CASE word \in Directives
    <3>1. ResetSection(word)
      BY <1>3, <1>8, <2>2 DEF UpdateIncludes, IsInclude, Directives
    <3>2. /\ i \in DOMAIN include_list /\ include_list'[i] = include_list[i]
          /\ word \in {"#else", "#elif"} => i # Len(include_list)
      BY <1>9, <3>1, ResetDoes
    <3>3. PICK m \in 1..(n - 1) : m = include_list[i][j].line
      BY <1>5, <1>9, <3>2
    <3>4. SameBranch(i, m, n)
      BY <1>5, <1>9, <3>2, <3>3
    <3>5. Apart(m, n + 1)
      <4>1. CASE word \in {"#else", "#elif"}
        BY <3>2, <3>4, <4>1, ApartOn DEF SameBranch
      <4>2. CASE word \notin {"#else", "#elif"}
        <5>1. IsIf(n) \/ IsEndif(n)
          BY <1>8, <2>2, <4>2 DEF IsIf, IsEndif, Directives
        <5>2. m \in Nat /\ n \in Nat /\ m < n
          OBVIOUS
        <5> QED BY <5>1, <5>2, ApartNow
      <4> QED BY <4>1, <4>2
    <3> QED BY <1>9, <3>2, <3>3, <3>5
  <2>3. CASE word # "#include" /\ word \notin Directives
    <3>1. include_list' = include_list
      BY <1>3, <1>8, <2>3 DEF UpdateIncludes, IsInclude, includeVars
    <3>2. PICK m \in 1..(n - 1) : m = include_list[i][j].line
      BY <1>5, <1>9, <3>1
    <3>3. SameBranch(i, m, n)
      BY <1>5, <1>9, <3>1, <3>2
    <3>4. ~IsElse(n)
      BY <1>8, <2>3 DEF IsElse, Directives
    <3>5. Apart(m, n) => Apart(m, n + 1)
      BY ApartOn
    <3>6. (i = Len(include_list) /\ \A k \in m..(n - 1) : ~IsElse(k))
             => (i = Len(include_list') /\ \A k \in m..n : ~IsElse(k))
      BY <1>7, <3>1, <3>4
    <3> QED BY <1>9, <3>1, <3>2, <3>3, <3>5, <3>6 DEF SameBranch
  <2> QED BY <2>1, <2>2, <2>3
<1> HIDE DEF Still
<1>10. linenum' - 1 = n /\ (n + 1) - 1 = n
  BY <1>1, <1>2
<1>11. ASSUME NEW i, NEW m, Still(i, m) PROVE SameBranch(i, m, linenum)'
  <2>1. Apart(m, n + 1) => Apart(m, linenum)'
    BY <1>4, <1>10 DEF Apart
  <2>2. (\A k \in m..n : ~IsElse(k)) => (\A k \in m..(linenum' - 1) : ~IsElse(k)')
    BY <1>4, <1>10
  <2> QED BY <1>11, <2>1, <2>2 DEF SameBranch, Still
<1>12. ASSUME NEW i \in DOMAIN include_list', NEW j \in DOMAIN include_list'[i]
       PROVE  SameBranch(i, include_list[i][j].line, linenum)'
  <2>1. PICK m : m = include_list'[i][j].line
    OBVIOUS
  <2>2. SameBranch(i, m, linenum)'
    BY <1>9, <1>11, <1>12, <2>1
  <2> QED BY <2>1, <2>2 DEF SameBranch, Apart
<1> QED BY <1>12 DEF BranchInv

\* Every step keeps them apart.
LEMMA BranchesKept ==
    ASSUME InputsOK, TextOK, TextOK', IncludeInv, BranchInv, [Next]_vars
    PROVE  BranchInv'
<1>1. CASE ProcessLine
  BY <1>1, LineKeepsBranches
<1>2. ASSUME pc' # "lines" PROVE BranchInv'
  BY <1>2 DEF BranchInv
<1>3. ASSUME linenum' = 1 PROVE BranchInv'
  <2>1. ListedUpTo(linenum - 1)'
    BY DEF TextOK
  <2>2. 1..(linenum' - 1) = {}
    BY <1>3
  <2>3. \A i \in DOMAIN include_list' : \A j \in DOMAIN include_list'[i] : FALSE
    BY <2>1, <2>2 DEF ListedUpTo
  <2> QED BY <2>3 DEF BranchInv
<1>4. CASE Step
  BY <1>2, <1>4 DEF Step, ParseArguments, RefuseArguments, StartFile, ReadConfig, SkipDirectory, IgnoreExcluded,
     ApplyFilters, RefuseFilters, SkipFile, BeginFileData, Finish, GoUp, EndFile, Exit
<1>5. CASE CheckForCopyright \/ ProcessGlobalSuppressions \/ EndFileData \/ FinishFile
  BY <1>2, <1>5 DEF CheckForCopyright, ProcessGlobalSuppressions, EndFileData, FinishFile, EndFile
<1>6. CASE CleanseText \/ CheckHeaderGuardIfndef \/ CheckHeaderGuardEndif
  <2>1. linenum' = linenum /\ pc \in {"comments", "guard", "endif"}
    BY <1>6 DEF CleanseText, CheckHeaderGuardIfndef, CheckHeaderGuardEndif, fileVars
  <2>2. linenum = 1
    BY <2>1 DEF TextOK, EarlyStages
  <2> QED BY <1>3, <2>1, <2>2
<1>7. CASE UNCHANGED vars
  <2>1. UNCHANGED <<pc, lines, clean, linenum, include_list>>
    BY <1>7 DEF vars, fileVars, componentVars, includeVars
  <2>2. HasAsm' <=> HasAsm
    BY <2>1 DEF HasAsm, ToSet
  <2>3. \A k : (IsIf(k)' <=> IsIf(k)) /\ (IsElse(k)' <=> IsElse(k)) /\ (IsEndif(k)' <=> IsEndif(k))
    BY <2>1 DEF IsIf, IsElse, IsEndif, FirstWord, IsBlank, GetIndentLevel, SelectInSeq
  <2>4. \A i, m, n : SameBranch(i, m, n)' <=> SameBranch(i, m, n)
    BY <2>1, <2>3 DEF SameBranch, Apart
  <2> QED BY <2>1, <2>2, <2>4 DEF BranchInv
<1> QED BY <1>1, <1>4, <1>5, <1>6, <1>7 DEF Next, Done, TextStep

\* FindHeader never finds a header of another branch of the conditional that the line is in,
\* however conditionals are nested and whatever the lines between include.
THEOREM LintNoFalseDuplicates == Spec => []NoFalseDuplicates
<1>1. Init => BranchInv
  BY DEF Init, BranchInv
<1>2. SearchInv /\ TextInv /\ TextInv' /\ IncludeInv /\ BranchInv /\ [Next]_vars => BranchInv'
  BY BranchesKept DEF SearchInv, TextInv
<1>3. TextInv /\ BranchInv => NoFalseDuplicates
  <2> SUFFICES ASSUME TextInv, BranchInv, pc = "lines", linenum <= Len(lines), ~HasAsm,
                      IsInclude(clean.elided[linenum]),
                      NEW i \in DOMAIN include_list, NEW j \in DOMAIN include_list[i],
                      Exclusive(include_list[i][j].line, linenum)
               PROVE  FALSE
    BY DEF NoFalseDuplicates
  <2>1. PICK n \in Nat \ {0} : n = linenum
    BY DEF TextInv, TextOK
  <2>2. ListedUpTo(n - 1)
    BY <2>1 DEF TextInv, TextOK
  <2>3. PICK m \in 1..(n - 1) : m = include_list[i][j].line
    BY <2>2 DEF ListedUpTo
  <2>4. SameBranch(i, m, n) /\ Exclusive(m, n)
    BY <2>1, <2>3 DEF BranchInv
  <2>5. ~Apart(m, n)
    BY <2>4 DEF Apart, Exclusive
  <2>6. ~IsElse(n)
    BY <2>1 DEF IsElse, IsInclude
  <2>7. PICK k \in m..n : IsElse(k)
    BY <2>4 DEF Exclusive
  <2>8. k \in m..(n - 1)
    BY <2>6, <2>7
  <2> QED BY <2>4, <2>5, <2>7, <2>8 DEF SameBranch
<1> QED BY <1>1, <1>2, <1>3, SearchInvariant, IncludeInvariant, TextInvariant, PTL DEF Spec

-----------------------------------------------------------------------------
(* Lengths of functions *)

\* The error is about the length of a function.
AboutLength(x) == x.category = "readability/fn_size"

\* The lines of a function that begins on line b, before line n.
Counted(b, n) ==
    {k \in (b + 1)..(n - 1) : ~BlankLine(clean.lines[k]) /\ ~StartsFunction(clean.lines[k])}

\* The last body that began before line n began on line b and has not ended.
OpenBody(b, n) ==
    BeginsBody(b) /\ \A k \in (b + 1)..(n - 1) : ~BeginsBody(k) /\ ~EndsBody(k)

\* The number of lines from which a function that begins on line b may be reported.
TriggerOf(b) == IF FunctionName(clean.lines[b]) \in TestNames THEN TestTrigger ELSE NormalTrigger

\* The error that the body gives has been raised, with a confidence that lets it through.
Complains(e, v) == \E x \in ToSet(raised) : x.line = e /\ AboutLength(x) /\ x.confidence >= v

\* A body is reported exactly when it is too long for the verbosity.
Judged(b, e) ==
    IsBody(b, e) => (BodyLength(b, e) > TriggerOf(b) * 2^verbose_level <=> Complains(e, verbose_level))

\* The state is that of the body the line is in, and every body before is judged.
BodyInv ==
    /\ pc \in TextStages => \A x \in ToSet(raised) : AboutLength(x) => x.line \in 1..(linenum - 1)
    /\ pc = "lines" /\ ~HasAsm => \A b \in 1..(linenum - 1) : OpenBody(b, linenum) =>
          /\ in_a_function /\ current_function = FunctionName(clean.lines[b])
          /\ lines_in_function = Cardinality(Counted(b, linenum))
    /\ pc \in {"lines", "finish"} /\ ~HasAsm =>
          \A e \in 1..(linenum - 1) : \A b \in 1..(e - 1) : Judged(b, e)

\* The next line counts or not.
LEMMA CountOn ==
    ASSUME NEW b \in Nat, NEW n \in Nat, b < n
    PROVE  /\ Cardinality(Counted(b, n)) \in Nat
           /\ ~BlankLine(clean.lines[n]) /\ ~StartsFunction(clean.lines[n]) =>
                 Cardinality(Counted(b, n + 1)) = Cardinality(Counted(b, n)) + 1
           /\ BlankLine(clean.lines[n]) \/ StartsFunction(clean.lines[n]) =>
                 Counted(b, n + 1) = Counted(b, n)
<1> DEFINE P(k) == ~BlankLine(clean.lines[k]) /\ ~StartsFunction(clean.lines[k])
<1>1. Counted(b, n) = {k \in (b + 1)..(n - 1) : P(k)} /\ Counted(b, n + 1) = {k \in (b + 1)..n : P(k)}
  <2>1. (n + 1) - 1 = n
    OBVIOUS
  <2> QED BY <2>1 DEF Counted
<1> HIDE DEF P
<1>2. \A k : k \in (b + 1)..n <=> k \in (b + 1)..(n - 1) \/ k = n
  OBVIOUS
<1>3. n \notin Counted(b, n)
  BY <1>1
<1>4. P(n) => Counted(b, n + 1) = Counted(b, n) \cup {n}
  BY <1>1, <1>2
<1>5. ~P(n) => Counted(b, n + 1) = Counted(b, n)
  BY <1>1, <1>2
<1>6. IsFiniteSet(Counted(b, n))
  <2>1. IsFiniteSet((b + 1)..(n - 1))
    BY FS_Interval
  <2>2. Counted(b, n) \subseteq (b + 1)..(n - 1)
    BY <1>1
  <2> QED BY <2>1, <2>2, FS_Subset
<1>7. Cardinality(Counted(b, n)) \in Nat
  BY <1>6, FS_CardinalityType
<1>8. Cardinality(Counted(b, n) \cup {n}) = Cardinality(Counted(b, n)) + 1
  BY <1>3, <1>6, FS_AddElement
<1> QED BY <1>4, <1>5, <1>7, <1>8 DEF P

\* What is known of the text stays so.
LEMMA BodiesKept ==
    ASSUME UNCHANGED <<lines, clean>>
    PROVE  /\ HasAsm' <=> HasAsm
           /\ \A b, n : Counted(b, n)' = Counted(b, n)
           /\ \A b, n : OpenBody(b, n)' <=> OpenBody(b, n)
           /\ \A b, e : IsBody(b, e)' <=> IsBody(b, e)
           /\ \A b, e : BodyLength(b, e)' = BodyLength(b, e)
           /\ \A b : TriggerOf(b)' = TriggerOf(b) /\ FunctionName(clean.lines[b])' = FunctionName(clean.lines[b])
<1>1. HasAsm' <=> HasAsm
  BY DEF HasAsm, ToSet
<1>2. \A k : (StartsFunction(clean.lines[k])' <=> StartsFunction(clean.lines[k]))
             /\ FunctionName(clean.lines[k])' = FunctionName(clean.lines[k])
  OBVIOUS
<1>3. \A k : BlankLine(clean.lines[k])' <=> BlankLine(clean.lines[k])
  BY Zenon DEF BlankLine
<1>4. \A k : HasBody(clean.lines, k)' <=> HasBody(clean.lines, k)
  BY Zenon DEF HasBody, BodyLine, SelectInSubSeq
<1>5. \A k : EndsFunction(clean.lines[k])' <=> EndsFunction(clean.lines[k])
  OBVIOUS
<1>6. \A k : (BeginsBody(k)' <=> BeginsBody(k)) /\ (EndsBody(k)' <=> EndsBody(k))
  BY <1>2, <1>4, <1>5, Zenon DEF BeginsBody, EndsBody
<1>7. \A b, n : Counted(b, n)' = Counted(b, n)
  BY <1>2, <1>3 DEF Counted
<1>8. \A b, n : OpenBody(b, n)' <=> OpenBody(b, n)
  BY <1>6 DEF OpenBody
<1>9. \A b, e : IsBody(b, e)' <=> IsBody(b, e)
  BY <1>6 DEF IsBody
<1>10. \A b, e : BodyLength(b, e)' = BodyLength(b, e)
  <2>1. \A b, e : BodyLength(b, e)' = Cardinality(Counted(b, e)') /\ BodyLength(b, e) = Cardinality(Counted(b, e))
    BY DEF BodyLength, Counted
  <2> QED BY <1>7, <2>1
<1>11. \A b : TriggerOf(b)' = TriggerOf(b)
  BY <1>2 DEF TriggerOf
<1> QED BY <1>1, <1>2, <1>7, <1>8, <1>9, <1>10, <1>11

\* The state after a line: the first part of what the line keeps.
LEMMA LineFollowsBody ==
    ASSUME TextOK, BodyInv, ProcessLine, ~HasAsm,
           NEW n \in Nat \ {0}, n = linenum, NEW b \in 1..n, OpenBody(b, n + 1)
    PROVE  /\ in_a_function' /\ current_function' = FunctionName(clean.lines[b])
           /\ lines_in_function' = Cardinality(Counted(b, n + 1))
<1>1. pc = "lines" /\ linenum <= Len(lines)
  BY DEF ProcessLine
<1>2. CheckForFunctionLengths(clean.lines, n)
  BY <1>1, NoAsmBlocks DEF ProcessLine, CheckLine, After
<1>3. (n + 1) - 1 = n
  OBVIOUS
<1>4. CASE b = n
  <2>1. StartsFunction(clean.lines[n]) /\ HasBody(clean.lines, n)
    BY <1>4 DEF OpenBody, BeginsBody
  <2>2. Begin(FunctionName(clean.lines[n]))
    BY <1>2, <2>1 DEF CheckForFunctionLengths
  <2>3. Counted(b, n + 1) = {}
    BY <1>3, <1>4 DEF Counted
  <2> QED BY <1>4, <2>2, <2>3, FS_EmptySet DEF Begin
<1>5. CASE b < n
  <2>1. OpenBody(b, n) /\ ~BeginsBody(n) /\ ~EndsBody(n)
    <3>1. n \in (b + 1)..((n + 1) - 1) /\ \A k \in (b + 1)..(n - 1) : k \in (b + 1)..((n + 1) - 1)
      BY <1>5
    <3> QED BY <3>1 DEF OpenBody
  <2>2. /\ in_a_function /\ current_function = FunctionName(clean.lines[b])
        /\ lines_in_function = Cardinality(Counted(b, n))
    <3>1. b \in 1..(linenum - 1)
      BY <1>5
    <3> QED BY <1>1, <2>1, <3>1 DEF BodyInv
  <2>3. /\ ~BlankLine(clean.lines[n]) /\ ~StartsFunction(clean.lines[n]) =>
                 Cardinality(Counted(b, n + 1)) = Cardinality(Counted(b, n)) + 1
        /\ BlankLine(clean.lines[n]) \/ StartsFunction(clean.lines[n]) =>
                 Counted(b, n + 1) = Counted(b, n)
    BY <1>5, CountOn
  <2>4. CASE StartsFunction(clean.lines[n])
    <3>1. ~HasBody(clean.lines, n)
      BY <2>1, <2>4 DEF BeginsBody
    <3>2. UNCHANGED functionVars
      BY <1>2, <2>4, <3>1 DEF CheckForFunctionLengths
    <3> QED BY <2>2, <2>3, <2>4, <3>2 DEF functionVars
  <2>5. CASE ~StartsFunction(clean.lines[n])
    <3>1. ~EndsFunction(clean.lines[n])
      BY <2>1, <2>5 DEF EndsBody
    <3>2. /\ UNCHANGED <<in_a_function, current_function>>
          /\ lines_in_function' = IF in_a_function /\ ~BlankLine(clean.lines[n])
                                  THEN lines_in_function + 1 ELSE lines_in_function
      BY <1>2, <2>5, <3>1 DEF CheckForFunctionLengths
    <3>3. CASE BlankLine(clean.lines[n])
      BY <2>2, <2>3, <3>2, <3>3
    <3>4. CASE ~BlankLine(clean.lines[n])
      BY <2>2, <2>3, <2>5, <3>2, <3>4
    <3> QED BY <2>2, <3>2, <3>3, <3>4
  <2> QED BY <2>4, <2>5
<1> QED BY <1>4, <1>5

\* The errors a line adds about lengths.
LEMMA LineAddsLengths ==
    ASSUME InputsOK, TextInv, BodyInv, ProcessLine, NEW n \in Nat \ {0}, n = linenum
    PROVE  /\ \A x : AboutLength(x) => (x \in ToSet(raised') <=>
                 x \in ToSet(raised)
                 \/ (~InAsmBlock(After.stack) /\ x \in ToSet(FunctionErrors(clean.lines, n, verbose_level))))
           /\ \A x \in ToSet(FunctionErrors(clean.lines, n, verbose_level)) : x.line = n /\ AboutLength(x)
<1>1. pc = "lines" /\ linenum <= Len(lines) /\ UNCHANGED <<world, todo>>
  BY DEF ProcessLine, inputVars
<1>2. PICK supp : Report(ThisFile, LineErrors(n, After), supp)
  BY DEF ProcessLine, CheckLine, After
<1>3. PICK errs : errs = LineErrors(n, After)
  OBVIOUS
<1>4. /\ errs \in Seq(AnyErr)
      /\ \A x : x \in ToSet(errs) /\ x.category = "readability/fn_size" <=>
                 ~InAsmBlock(After.stack) /\ x \in ToSet(FunctionErrors(clean.lines, n, verbose_level))
  BY <1>1, <1>3, LineReports DEF TextInv
<1>5. ThisFile \in Nat /\ CountsOK /\ ThisFile' = ThisFile
  BY <1>1, ThisFileType DEF TextInv, ThisFile
<1>6. ToSet(raised') = ToSet(raised) \cup ToSet(errs)
  BY <1>2, <1>3, <1>4, <1>5, ReportAdds
<1>7. \A x \in ToSet(FunctionErrors(clean.lines, n, verbose_level)) : x.line = n /\ AboutLength(x)
  <2>1. lines_in_function \in Nat /\ verbose_level \in 0..5
    BY DEF TextInv, CountsOK
  <2>2. PICK f \in Seq(FunctionErrs(n)) : f = FunctionErrors(clean.lines, n, verbose_level)
    BY <2>1, FunctionErrorsType
  <2>3. \A x \in ToSet(f) : x \in FunctionErrs(n)
    BY DEF ToSet
  <2> QED BY <2>2, <2>3 DEF FunctionErrs, AboutLength
<1> QED BY <1>4, <1>6, <1>7 DEF AboutLength

\* The end of a body is reported when it is too long.
LEMMA EndComplains ==
    ASSUME TextInv, NEW n \in Nat \ {0}, NEW b \in 1..(n - 1), EndsBody(n),
           in_a_function, current_function = FunctionName(clean.lines[b]),
           lines_in_function = Cardinality(Counted(b, n))
    PROVE  BodyLength(b, n) > TriggerOf(b) * 2^verbose_level <=>
              \E x \in ToSet(FunctionErrors(clean.lines, n, verbose_level)) :
                 x.line = n /\ AboutLength(x) /\ x.confidence >= verbose_level
<1>1. lines_in_function \in Nat /\ verbose_level \in 0..5
  BY DEF TextInv, CountsOK
<1>2. BodyLength(b, n) = lines_in_function /\ TriggerOf(b) = BaseTrigger
  BY DEF BodyLength, Counted, TriggerOf, BaseTrigger
<1>3. FunctionErrors(clean.lines, n, verbose_level) = LengthErrors(n, verbose_level)
  BY DEF FunctionErrors, EndsBody
<1>4. CASE TooLong(verbose_level)
  <2>1. BaseTrigger \in Nat \ {0}
    BY TriggersAssumption DEF BaseTrigger
  <2>2. PICK level_ : level_ = ErrorLevel(lines_in_function, BaseTrigger) /\ level_ \in verbose_level..5
    BY <1>1, <1>4, <2>1, ErrorLevelIs DEF TooLong
  <2>3. PICK x : x = Err(n, "readability/fn_size", level_)
    OBVIOUS
  <2>4. LengthErrors(n, verbose_level) = <<x>>
    BY <1>4, <2>2, <2>3 DEF LengthErrors
  <2>5. x \in ToSet(<<x>>)
    BY DEF ToSet
  <2>6. x.line = n /\ AboutLength(x) /\ x.confidence >= verbose_level
    BY <1>1, <2>2, <2>3 DEF Err, AboutLength
  <2>7. BodyLength(b, n) > TriggerOf(b) * 2^verbose_level
    BY <1>2, <1>4 DEF TooLong
  <2> QED BY <1>3, <2>4, <2>5, <2>6, <2>7
<1>5. CASE ~TooLong(verbose_level)
  <2>1. LengthErrors(n, verbose_level) = <<>>
    BY <1>5 DEF LengthErrors
  <2>2. ToSet(<<>>) = {}
    BY DEF ToSet
  <2>3. ~(BodyLength(b, n) > TriggerOf(b) * 2^verbose_level)
    BY <1>2, <1>5 DEF TooLong
  <2> QED BY <1>3, <2>1, <2>2, <2>3
<1> QED BY <1>4, <1>5

\* A line keeps the bodies judged.
LEMMA LineJudges ==
    ASSUME InputsOK, TextInv, BodyInv, ProcessLine
    PROVE  BodyInv'
<1>1. /\ pc = "lines" /\ pc' = "lines" /\ linenum <= Len(lines) /\ linenum' = linenum + 1
      /\ UNCHANGED <<lines, clean, verbose_level>>
  BY DEF ProcessLine, inputVars, settings
<1>2. PICK n \in Nat \ {0} : n = linenum
  BY <1>1 DEF TextInv, TextOK
<1>3. linenum' - 1 = n /\ linenum' = n + 1
  BY <1>1, <1>2
<1>4. /\ \A x : AboutLength(x) => (x \in ToSet(raised') <=>
             x \in ToSet(raised)
             \/ (~InAsmBlock(After.stack) /\ x \in ToSet(FunctionErrors(clean.lines, n, verbose_level))))
      /\ \A x \in ToSet(FunctionErrors(clean.lines, n, verbose_level)) : x.line = n /\ AboutLength(x)
  BY <1>2, LineAddsLengths
<1>5. \A x \in ToSet(raised) : AboutLength(x) => x.line \in 1..(n - 1)
  BY <1>1, <1>2 DEF BodyInv, TextStages
<1>6. \A x \in ToSet(raised') : AboutLength(x) => x.line \in 1..n
  <2>1. 1..(n - 1) \subseteq 1..n /\ n \in 1..n
    OBVIOUS
  <2> QED BY <1>4, <1>5, <2>1
<1>7. /\ HasAsm' <=> HasAsm
      /\ \A b, k : Counted(b, k)' = Counted(b, k)
      /\ \A b, k : OpenBody(b, k)' <=> OpenBody(b, k)
      /\ \A b, e : IsBody(b, e)' <=> IsBody(b, e)
      /\ \A b, e : BodyLength(b, e)' = BodyLength(b, e)
      /\ \A b : TriggerOf(b)' = TriggerOf(b) /\ FunctionName(clean.lines[b])' = FunctionName(clean.lines[b])
  BY <1>1, BodiesKept
<1>8. ASSUME ~HasAsm, NEW b \in 1..n, OpenBody(b, n + 1)
      PROVE  /\ in_a_function' /\ current_function' = FunctionName(clean.lines[b])
             /\ lines_in_function' = Cardinality(Counted(b, n + 1))
  BY <1>2, <1>8, LineFollowsBody DEF TextInv
<1>9. ASSUME ~HasAsm, NEW e \in 1..n, NEW b \in 1..(e - 1), IsBody(b, e)
      PROVE  BodyLength(b, e) > TriggerOf(b) * 2^verbose_level <=>
                \E x \in ToSet(raised') : x.line = e /\ AboutLength(x) /\ x.confidence >= verbose_level
  <2>1. CASE e < n
    <3>1. e \in 1..(linenum - 1)
      BY <1>2, <2>1
    <3>2. BodyLength(b, e) > TriggerOf(b) * 2^verbose_level <=>
             \E x \in ToSet(raised) : x.line = e /\ AboutLength(x) /\ x.confidence >= verbose_level
      BY <1>1, <1>9, <3>1 DEF BodyInv, Judged, Complains
    <3>3. \A x : x.line = e /\ AboutLength(x) => (x \in ToSet(raised') <=> x \in ToSet(raised))
      BY <1>4, <2>1
    <3> QED BY <3>2, <3>3
  <2>2. CASE e = n
    <3>1. b \in 1..(n - 1) /\ b \in 1..(linenum - 1)
      BY <1>2, <2>2
    <3>2. EndsBody(n) /\ OpenBody(b, n)
      BY <1>9, <2>2 DEF IsBody, OpenBody
    <3>3. /\ in_a_function /\ current_function = FunctionName(clean.lines[b])
          /\ lines_in_function = Cardinality(Counted(b, n))
      BY <1>1, <1>2, <1>9, <3>1, <3>2 DEF BodyInv
    <3>4. BodyLength(b, n) > TriggerOf(b) * 2^verbose_level <=>
              \E x \in ToSet(FunctionErrors(clean.lines, n, verbose_level)) :
                 x.line = n /\ AboutLength(x) /\ x.confidence >= verbose_level
      BY <3>1, <3>2, <3>3, EndComplains
    <3>5. ~InAsmBlock(After.stack)
      BY <1>1, <1>9, NoAsmBlocks DEF TextInv
    <3>6. \A x : x.line = n /\ AboutLength(x) =>
             (x \in ToSet(raised') <=> x \in ToSet(FunctionErrors(clean.lines, n, verbose_level)))
      <4>1. n \notin 1..(n - 1)
        OBVIOUS
      <4> QED BY <1>4, <1>5, <3>5, <4>1
    <3> QED BY <2>2, <3>4, <3>6
  <2> QED BY <2>1, <2>2
<1>10. pc' \in TextStages => \A x \in ToSet(raised)' : AboutLength(x)' => x.line \in 1..(linenum' - 1)
  BY <1>3, <1>6 DEF ToSet, AboutLength
<1>11. pc' = "lines" /\ ~HasAsm' => \A b \in 1..(linenum' - 1) : OpenBody(b, linenum)' =>
          /\ in_a_function' /\ current_function' = FunctionName(clean.lines[b])'
          /\ lines_in_function' = Cardinality(Counted(b, linenum))'
  <2> SUFFICES ASSUME ~HasAsm, NEW b \in 1..n, OpenBody(b, linenum)'
               PROVE  /\ in_a_function' /\ current_function' = FunctionName(clean.lines[b])'
                      /\ lines_in_function' = Cardinality(Counted(b, linenum))'
    BY <1>3, <1>7
  <2>1. PICK m : m = n + 1
    OBVIOUS
  <2>2. OpenBody(b, m)' /\ Counted(b, linenum)' = Counted(b, m)'
    BY <1>3, <2>1 DEF OpenBody, Counted
  <2>3. OpenBody(b, n + 1)
    BY <1>7, <2>1, <2>2
  <2>4. Cardinality(Counted(b, linenum))' = Cardinality(Counted(b, n + 1))
    BY <1>7, <2>1, <2>2
  <2> QED BY <1>7, <1>8, <2>3, <2>4
<1>12. ASSUME ~HasAsm', NEW e \in 1..(linenum' - 1), NEW b \in 1..(e - 1)
       PROVE  Judged(b, e)'
  <2>1. ~HasAsm /\ e \in 1..n
    BY <1>3, <1>7, <1>12
  <2>2. Complains(e, verbose_level)' <=>
            \E x \in ToSet(raised') : x.line = e /\ AboutLength(x) /\ x.confidence >= verbose_level
    BY <1>1 DEF Complains, ToSet, AboutLength
  <2>3. BodyLength(b, e)' > TriggerOf(b)' * 2^(verbose_level') <=> BodyLength(b, e) > TriggerOf(b) * 2^verbose_level
    BY <1>1, <1>7
  <2>4. IsBody(b, e)' => (BodyLength(b, e)' > TriggerOf(b)' * 2^(verbose_level') <=> Complains(e, verbose_level)')
    BY <1>7, <1>9, <2>1, <2>2, <2>3
  <2> QED BY <2>4 DEF Judged
<1> QED BY <1>10, <1>11, <1>12 DEF BodyInv

\* The other steps raise nothing about lengths.
LEMMA OthersRaise ==
    ASSUME InputsOK, TextInv, IncludeInv, SuppInv, TextStep, ~ProcessLine, ~FinishFile
    PROVE  \A x : AboutLength(x) => (x \in ToSet(raised') <=> x \in ToSet(raised))
<1>1. ThisFile \in Nat /\ CountsOK /\ ThisFile' = ThisFile
  <2>1. UNCHANGED <<world, todo>>
    BY DEF TextStep, CheckForCopyright, ProcessGlobalSuppressions, CleanseText, CheckHeaderGuardIfndef,
       CheckHeaderGuardEndif, EndFileData, inputVars
  <2> QED BY <2>1, ThisFileType DEF TextInv, ThisFile
<1>2. ASSUME NEW errs \in Seq(AnyErr), NEW supp, Report(ThisFile, errs, supp), \A x \in ToSet(errs) : ~AboutLength(x)
      PROVE  \A x : AboutLength(x) => (x \in ToSet(raised') <=> x \in ToSet(raised))
  <2>1. ToSet(raised') = ToSet(raised) \cup ToSet(errs)
    BY <1>1, <1>2, ReportAdds
  <2> QED BY <1>2, <2>1
<1>3. CASE CheckForCopyright
  <2>1. Report(ThisFile, CopyrightErrors, error_suppressions)
    BY <1>3 DEF CheckForCopyright, CopyrightErrors
  <2>2. \A x \in ToSet(CopyrightErrors) : ~AboutLength(x)
    BY CopyrightIs DEF AboutLength
  <2> QED BY <1>2, <2>1, <2>2, CopyrightErrorsType
<1>4. CASE ProcessGlobalSuppressions
  BY <1>4 DEF ProcessGlobalSuppressions, counts
<1>5. CASE CleanseText
  <2>1. Report(ThisFile, CommentErrors, error_suppressions)
    BY <1>5 DEF CleanseText, CommentErrors
  <2>2. \A x \in ToSet(CommentErrors) : ~AboutLength(x)
    BY CommentIsEarly DEF AboutLength
  <2>3. CommentErrors \in Seq(AnyErr)
    BY CommentErrorsType DEF TextInv, TextOK
  <2> QED BY <1>2, <2>1, <2>2, <2>3
<1>6. CASE CheckHeaderGuardIfndef \/ CheckHeaderGuardEndif
  <2>1. pc \in {"guard", "endif"}
    BY <1>6 DEF CheckHeaderGuardIfndef, CheckHeaderGuardEndif
  <2>2. target.ext = "h" /\ Len(GuardLines) \in Nat
    BY <2>1, GuardLinesType DEF SuppInv, TextInv, LaterStages
  <2>3. \A x : Early(x) => ~AboutLength(x)
    BY DEF Early, AboutLength
  <2>4. CASE CheckHeaderGuardIfndef
    <3>1. \E supp : Report(ThisFile, IfndefErrors, supp)
      BY <2>4 DEF CheckHeaderGuardIfndef, IfndefErrors, JudgesGuard
    <3> QED BY <1>2, <2>2, <2>3, <3>1, IfndefErrorsType, IfndefIsEarly
  <2>5. CASE CheckHeaderGuardEndif
    <3>1. \E supp : Report(ThisFile, EndifErrors, supp)
      BY <2>5 DEF CheckHeaderGuardEndif, EndifErrors
    <3> QED BY <1>2, <2>2, <2>3, <3>1, EndifErrorsType, EndifIsEarly
  <2> QED BY <1>6, <2>4, <2>5
<1>7. CASE EndFileData
  <2>1. PICK errs : errs = EndErrorsOfFile /\ Report(ThisFile, errs, error_suppressions)
    BY <1>7 DEF EndFileData, EndErrorsOfFile
  <2>2. errs \in Seq(Errs(Len(lines))) /\ Len(lines) \in Nat
    BY <1>7, <2>1, EndReports DEF EndFileData, TextInv, TextOK
  <2>3. \A x \in ToSet(errs) : ~AboutLength(x)
    <3> SUFFICES ASSUME NEW x \in ToSet(errs) PROVE ~AboutLength(x)
      OBVIOUS
    <3>1. x \in Errs(Len(lines))
      BY <2>2 DEF ToSet
    <3>2. x.category \in Raisable
      BY <3>1 DEF Errs
    <3> QED BY <3>2 DEF Raisable, AboutLength
  <2> QED BY <1>2, <2>1, <2>2, <2>3, ErrsAreErrs
<1> QED BY <1>3, <1>4, <1>5, <1>6, <1>7 DEF TextStep

\* Every step keeps the bodies judged.
LEMMA BodyKept ==
    ASSUME InputsOK, TextInv, IncludeInv, SuppInv, BodyInv, [Next]_vars
    PROVE  BodyInv'
<1>1. CASE ProcessLine
  BY <1>1, LineJudges
<1>2. ASSUME pc' \notin TextStages PROVE BodyInv'
  BY <1>2 DEF BodyInv, TextStages
<1>3. CASE Step /\ ~BeginFileData
  <2>1. pc' \notin TextStages
    BY <1>3 DEF Step, ParseArguments, RefuseArguments, StartFile, ReadConfig, SkipDirectory, IgnoreExcluded,
       ApplyFilters, RefuseFilters, SkipFile, Finish, GoUp, EndFile, Exit, TextStages
  <2> QED BY <1>2, <2>1
<1>4. CASE BeginFileData
  <2>1. pc' = "copyright" /\ raised' = <<>>
    BY <1>4 DEF BeginFileData
  <2>2. ToSet(raised)' = {}
    BY <2>1 DEF ToSet
  <2> QED BY <2>1, <2>2 DEF BodyInv
<1>5. CASE FinishFile
  BY <1>2, <1>5 DEF FinishFile, EndFile, TextStages
<1>6. ASSUME linenum = 1, linenum' = 1, pc \in TextStages,
             \A x : AboutLength(x) => (x \in ToSet(raised') <=> x \in ToSet(raised))
      PROVE  BodyInv'
  <2>1. 1..(linenum' - 1) = {} /\ 1..(linenum - 1) = {}
    BY <1>6
  <2>2. \A x \in ToSet(raised') : ~AboutLength(x)
    BY <1>6, <2>1 DEF BodyInv
  <2>3. \A x \in ToSet(raised)' : ~AboutLength(x)'
    BY <2>2 DEF ToSet, AboutLength
  <2> QED BY <2>1, <2>3 DEF BodyInv
<1>7. CASE CheckForCopyright \/ ProcessGlobalSuppressions \/ CleanseText
           \/ CheckHeaderGuardIfndef \/ CheckHeaderGuardEndif
  <2>1. /\ pc \in EarlyStages \cup {"guard", "endif"} /\ UNCHANGED linenum
        /\ TextStep /\ ~ProcessLine /\ ~FinishFile
    BY <1>7 DEF CheckForCopyright, ProcessGlobalSuppressions, CleanseText, CheckHeaderGuardIfndef,
       CheckHeaderGuardEndif, fileVars, EarlyStages, TextStep, ProcessLine, FinishFile
  <2>2. linenum = 1 /\ pc \in TextStages
    BY <2>1 DEF TextInv, TextOK, EarlyStages, TextStages
  <2>3. \A x : AboutLength(x) => (x \in ToSet(raised') <=> x \in ToSet(raised))
    BY <2>1, OthersRaise
  <2> QED BY <1>6, <2>1, <2>2, <2>3
<1>8. ASSUME UNCHANGED <<lines, clean, linenum, verbose_level>>, pc \in {"lines", "finish"}, pc' \in {"lines", "finish"},
             pc' = "lines" => UNCHANGED <<pc, functionVars>>,
             \A x : AboutLength(x) => (x \in ToSet(raised') <=> x \in ToSet(raised))
      PROVE  BodyInv'
  <2>1. /\ HasAsm' <=> HasAsm
        /\ \A b, k : Counted(b, k)' = Counted(b, k)
        /\ \A b, k : OpenBody(b, k)' <=> OpenBody(b, k)
        /\ \A b, e : IsBody(b, e)' <=> IsBody(b, e)
        /\ \A b, e : BodyLength(b, e)' = BodyLength(b, e)
        /\ \A b : TriggerOf(b)' = TriggerOf(b) /\ FunctionName(clean.lines[b])' = FunctionName(clean.lines[b])
    BY <1>8, BodiesKept
  <2>2. pc' \in TextStages => \A x \in ToSet(raised)' : AboutLength(x)' => x.line \in 1..(linenum' - 1)
    <3>1. \A x \in ToSet(raised) : AboutLength(x) => x.line \in 1..(linenum - 1)
      BY <1>8 DEF BodyInv, TextStages
    <3>2. \A x \in ToSet(raised') : AboutLength(x) => x.line \in 1..(linenum - 1)
      BY <1>8, <3>1
    <3> QED BY <1>8, <3>2 DEF ToSet, AboutLength
  <2>3. pc' = "lines" /\ ~HasAsm' => \A b \in 1..(linenum' - 1) : OpenBody(b, linenum)' =>
          /\ in_a_function' /\ current_function' = FunctionName(clean.lines[b])'
          /\ lines_in_function' = Cardinality(Counted(b, linenum))'
    <3> SUFFICES ASSUME pc' = "lines", ~HasAsm, NEW b \in 1..(linenum - 1), OpenBody(b, linenum)'
                 PROVE  /\ in_a_function' /\ current_function' = FunctionName(clean.lines[b])'
                        /\ lines_in_function' = Cardinality(Counted(b, linenum))'
      BY <1>8, <2>1
    <3>1. PICK m : m = linenum
      OBVIOUS
    <3>2. OpenBody(b, m)' /\ Counted(b, linenum)' = Counted(b, m)'
      BY <1>8, <3>1 DEF OpenBody, Counted
    <3>3. OpenBody(b, linenum)
      BY <2>1, <3>1, <3>2
    <3>4. Cardinality(Counted(b, linenum))' = Cardinality(Counted(b, linenum))
      BY <2>1, <3>1, <3>2
    <3>5. pc = "lines" /\ UNCHANGED functionVars
      BY <1>8
    <3> QED BY <2>1, <3>3, <3>4, <3>5 DEF BodyInv, functionVars
  <2>4. ASSUME ~HasAsm', NEW e \in 1..(linenum' - 1), NEW b \in 1..(e - 1)
        PROVE  Judged(b, e)'
    <3>1. Judged(b, e)
      BY <1>8, <2>1, <2>4 DEF BodyInv
    <3>2. Complains(e, verbose_level)' <=> \E x \in ToSet(raised') : x.line = e /\ AboutLength(x) /\ x.confidence >= verbose_level
      BY <1>8 DEF Complains, ToSet, AboutLength
    <3>3. Complains(e, verbose_level)' <=> Complains(e, verbose_level)
      BY <1>8, <3>2 DEF Complains
    <3>4. BodyLength(b, e)' > TriggerOf(b)' * 2^(verbose_level') <=> BodyLength(b, e) > TriggerOf(b) * 2^verbose_level
      BY <1>8, <2>1
    <3>5. IsBody(b, e)' => (BodyLength(b, e)' > TriggerOf(b)' * 2^(verbose_level') <=> Complains(e, verbose_level)')
      BY <2>1, <3>1, <3>3, <3>4 DEF Judged
    <3> QED BY <3>5 DEF Judged
  <2> QED BY <1>8, <2>2, <2>3, <2>4 DEF BodyInv
<1>9. CASE EndFileData
  <2>1. /\ pc = "lines" /\ pc' = "finish" /\ UNCHANGED <<lines, clean, linenum, verbose_level>>
        /\ TextStep /\ ~ProcessLine /\ ~FinishFile
    BY <1>9 DEF EndFileData, fileVars, inputVars, settings, TextStep, ProcessLine, FinishFile
  <2>2. \A x : AboutLength(x) => (x \in ToSet(raised') <=> x \in ToSet(raised))
    BY <2>1, OthersRaise
  <2> QED BY <1>8, <2>1, <2>2
<1>10. CASE UNCHANGED vars
  <2>1. UNCHANGED <<lines, clean, linenum, verbose_level, pc, functionVars, raised>>
    BY <1>10 DEF vars, fileVars, settings, counts, componentVars
  <2>2. CASE pc \in {"lines", "finish"}
    BY <1>8, <2>1, <2>2
  <2>3. CASE pc \notin {"lines", "finish"}
    <3>1. ToSet(raised)' = ToSet(raised)
      BY <2>1 DEF ToSet
    <3> QED BY <2>1, <2>3, <3>1 DEF BodyInv, AboutLength
  <2> QED BY <2>2, <2>3
<1> QED BY <1>1, <1>3, <1>4, <1>5, <1>7, <1>9, <1>10 DEF Next, Done, TextStep

\* At every verbosity a function is reported, with a confidence that lets the error through,
\* exactly when it has more lines than the trigger times the power of two: for any triggers,
\* any number of functions and any lengths, the logarithm in Check and the power agree.
THEOREM LintOverlongFunctionsReported == Spec => []OverlongFunctionsReported
<1>1. Init => SuppInv /\ BodyInv
  <2> SUFFICES ASSUME Init PROVE SuppInv /\ BodyInv
    OBVIOUS
  <2>1. pc = "start"
    BY DEF Init
  <2> QED BY <2>1 DEF SuppInv, BodyInv, EarlyStages, LaterStages, FileStages, TextStages
<1>2. SearchInv /\ FiltersInv /\ IncludeInv /\ TextInv /\ SuppInv /\ BodyInv /\ [Next]_vars
         => SuppInv' /\ BodyInv'
  BY SuppKept, BodyKept DEF SearchInv
<1>3. TextInv /\ BodyInv => OverlongFunctionsReported
  <2> SUFFICES ASSUME TextInv, BodyInv, pc = "finish", ~HasAsm,
                      NEW b \in DOMAIN lines, NEW e \in DOMAIN lines, b < e, IsBody(b, e)
               PROVE  BodyLength(b, e) > TriggerOf(b) * 2^verbose_level <=> Complains(e, verbose_level)
    BY DEF OverlongFunctionsReported, TriggerOf, Complains, AboutLength
  <2>1. linenum - 1 = Len(lines) /\ DOMAIN lines = 1..Len(lines) /\ Len(lines) \in Nat
    BY DEF TextInv, TextOK
  <2>2. e \in 1..(linenum - 1) /\ b \in 1..(e - 1)
    BY <2>1
  <2> QED BY <2>2 DEF BodyInv, Judged
<1> QED BY <1>1, <1>2, <1>3, FiltersInvariant, SearchInvariant, IncludeInvariant, TextInvariant, PTL DEF Spec

-----------------------------------------------------------------------------
(* Types *)

\* Filters that begin with a sign.
SignedFilters == [sign : {"+", "-"}, prefix : STRING]

\* The last header of the section is the last one on the lists.
LastHeaderOK ==
    last_header # 0 => /\ include_list # <<>> /\ Last(include_list) # <<>>
                       /\ last_header = Headers[Last(Last(include_list)).header].rank

\* The parts of TypeOK that the invariants above do not give.
TypeInv ==
    /\ level \in Nat /\ exit_code \in {0, 1} /\ line_length \in Int
    /\ filters \in Seq(SignedFilters) /\ filters_backup \in Seq(SignedFilters)
    /\ error_suppressions \subseteq (ErrorCategories \cup {"all"}) \X Nat
    /\ global_error_suppressions \subseteq ErrorCategories
    /\ LastHeaderOK

\* Filters that all have a sign.
LEMMA SignedType ==
    ASSUME NEW fs \in Seq(Filters), ValidFilters(fs)
    PROVE  fs \in Seq(SignedFilters)
<1>1. ASSUME NEW i \in 1..Len(fs) PROVE fs[i] \in SignedFilters
  <2>1. PICK f \in Filters : f = fs[i]
    OBVIOUS
  <2>2. f.sign \in {"+", "-"}
    BY <2>1 DEF ValidFilters
  <2> QED BY <2>1, <2>2 DEF Filters, SignedFilters
<1> QED BY <1>1, SeqOver

\* The filters that the command line sets.
LEMMA OptionFilters ==
    ASSUME InputsOK, ValidFilters(Option("filter", <<>>))
    PROVE  DefaultFilters \o Option("filter", <<>>) \in Seq(SignedFilters)
<1>1. DefaultFilters \in Seq(SignedFilters)
  BY SignedType, WorldsAssumption
<1>2. IsOptions(world.args.options)
  BY WorldsAssumption DEF InputsOK
<1>3. <<>> \in Seq(Filters)
  OBVIOUS
<1>4. PICK fs : fs = Option("filter", <<>>)
  OBVIOUS
<1>5. fs \in Seq(Filters)
  <2>1. \A i \in DOMAIN world.args.options :
           world.args.options[i].name = "filter" => world.args.options[i].value \in Seq(Filters)
    BY <1>2 DEF IsOptions
  <2>2. \/ fs = <<>>
        \/ \E i \in DOMAIN world.args.options :
              world.args.options[i].name = "filter" /\ fs = world.args.options[i].value
    BY <1>4, OptionFrom
  <2> QED BY <1>3, <2>1, <2>2
<1>6. fs \in Seq(SignedFilters)
  BY <1>4, <1>5, SignedType
<1> QED BY <1>1, <1>4, <1>6

\* The line length of the command line.
LEMMA OptionLength ==
    ASSUME InputsOK, line_length \in Int
    PROVE  Option("linelength", line_length) \in Int
<1>1. IsOptions(world.args.options)
  BY WorldsAssumption DEF InputsOK
<1> QED BY <1>1, OptionFrom DEF IsOptions

\* The line length of a configuration file.
LEMMA ConfiguredLength ==
    ASSUME InputsOK, todo # <<>>, HasConfig, line_length \in Int
    PROVE  Configured("linelength", line_length) \in Int
<1>1. PICK all : all = world.configs[SubSeq(TheFile.path.dir, 1, level)]
  OBVIOUS
<1>2. IsOptions(all)
  BY <1>1, FileTypes DEF HasConfig
<1> DEFINE O == {o \in ToSet(all) : o.name = "linelength" => o.value \in Int}
<1>3. all \in Seq(O)
  <2>1. all \in Seq(ToSet(all)) /\ \A i \in 1..Len(all) : all[i] \in O
    BY <1>2 DEF IsOptions
  <2> HIDE DEF O
  <2> QED BY <2>1, SeqOver
<1>4. \A o \in O : o.name = "linelength" => o.value \in Int
  OBVIOUS
<1> HIDE DEF O
<1>5. PICK first \in 0..Len(all) : first = SelectInSeq(all, IsExclusion)
  <2> DEFINE I == {k \in 1..Len(all) : IsExclusion(all[k])}
  <2>1. SelectInSeq(all, IsExclusion) = IF I # {} THEN Min(I) ELSE 0
    BY DEF SelectInSeq
  <2>2. I \in SUBSET (1..Len(all)) /\ 1 \in Nat /\ Len(all) \in Nat
    BY <1>3
  <2> HIDE DEF I
  <2>3. (IF I # {} THEN Min(I) ELSE 0) \in {0} \cup (1..Len(all))
    BY <2>2, LeastOrZero
  <2> QED BY <2>1, <2>2, <2>3
<1>6. PICK config : config = Config
  OBVIOUS
<1>7. config = IF first = 0 THEN all ELSE SubSeq(all, 1, first)
  BY <1>1, <1>5, <1>6 DEF Config
<1>8. config \in Seq(O)
  BY <1>3, <1>5, <1>7
<1> DEFINE I == {k \in 1..Len(config) : config[k].name = "linelength"}
           at == IF I # {} THEN Max(I) ELSE 0
<1>9. Configured("linelength", line_length) = IF at = 0 THEN line_length ELSE config[at].value
  BY <1>6 DEF Configured, SelectLastInSeq
<1>10. CASE I = {}
  BY <1>9, <1>10
<1>11. CASE I # {}
  <2>1. I \in SUBSET (1..Len(config)) /\ 1 \in Nat /\ Len(config) \in Nat
    BY <1>8
  <2>2. Max(I) \in I
    <3> HIDE DEF I
    <3> QED BY <1>11, <2>1, GreatestOf
  <2>3. PICK k \in 1..Len(config) : k = at /\ config[k].name = "linelength"
    BY <1>11, <2>2
  <2>4. config[k].value \in Int
    BY <1>4, <1>8, <2>3
  <2> HIDE DEF at
  <2> QED BY <1>9, <2>3, <2>4
<1> QED BY <1>10, <1>11

\* Every step keeps the line length a number.
LEMMA LengthKept ==
    ASSUME InputsOK, line_length \in Int, [Next]_vars
    PROVE  line_length' \in Int
<1>1. CASE ParseArguments
  BY <1>1, OptionLength DEF ParseArguments
<1>2. CASE ReadConfig \/ IgnoreExcluded
  <2>1. pc = "config" /\ HasConfig /\ line_length' = Configured("linelength", line_length)
    BY <1>2 DEF ReadConfig, IgnoreExcluded
  <2>2. todo # <<>>
    BY <2>1 DEF InputsOK, FileStages
  <2> QED BY <2>1, <2>2, ConfiguredLength
<1>3. CASE UNCHANGED line_length
  BY <1>3
<1>4. CASE Step /\ ~(ParseArguments \/ ReadConfig \/ IgnoreExcluded)
  BY <1>3, <1>4 DEF Step, RefuseArguments, StartFile, SkipDirectory, ApplyFilters, RefuseFilters,
       SkipFile, BeginFileData, Finish, globals
<1>5. CASE TextStep
  BY <1>3, <1>5 DEF TextStep, CheckForCopyright, ProcessGlobalSuppressions, CleanseText,
       CheckHeaderGuardIfndef, CheckHeaderGuardEndif, ProcessLine, EndFileData, FinishFile,
       inputVars, globals
<1>6. CASE UNCHANGED vars
  BY <1>3, <1>6 DEF vars, globals
<1> QED BY <1>1, <1>2, <1>4, <1>5, <1>6 DEF Next, Done

\* Every step keeps the directory and the exit status of the right kind.
LEMMA ControlKept ==
    ASSUME InputsOK, SearchInv, level \in Nat, exit_code \in {0, 1}, [Next]_vars
    PROVE  level' \in Nat /\ exit_code' \in {0, 1}
<1>1. exit_code' \in {0, 1}
  <2>1. CASE RefuseArguments \/ RefuseFilters \/ Finish
    BY <2>1 DEF RefuseArguments, RefuseFilters, Finish, Exit
  <2>2. CASE UNCHANGED exit_code
    BY <2>2
  <2>3. CASE Step /\ ~(RefuseArguments \/ RefuseFilters \/ Finish)
    BY <2>2, <2>3 DEF Step, ParseArguments, StartFile, ReadConfig, SkipDirectory, IgnoreExcluded,
         ApplyFilters, SkipFile, BeginFileData
  <2>4. CASE TextStep
    BY <2>2, <2>4 DEF TextStep, CheckForCopyright, ProcessGlobalSuppressions, CleanseText,
         CheckHeaderGuardIfndef, CheckHeaderGuardEndif, ProcessLine, EndFileData, FinishFile, inputVars
  <2>5. CASE UNCHANGED vars
    BY <2>2, <2>5 DEF vars
  <2> QED BY <2>1, <2>3, <2>4, <2>5 DEF Next, Done
<1>2. level' \in Nat
  <2>1. CASE StartFile
    BY <2>1, FileTypes DEF StartFile, PathDepth
  <2>2. CASE ReadConfig \/ SkipDirectory
    <3>1. level' = level \/ (level # 0 /\ level' = level - 1)
      BY <2>2 DEF ReadConfig, SkipDirectory, GoUp
    <3> QED BY <3>1
  <2>3. CASE UNCHANGED level
    BY <2>3
  <2>4. CASE Step /\ ~(StartFile \/ ReadConfig \/ SkipDirectory)
    BY <2>3, <2>4 DEF Step, ParseArguments, RefuseArguments, IgnoreExcluded, RefuseFilters, Finish,
         ApplyFilters, SkipFile, BeginFileData
  <2>5. CASE TextStep
    BY <2>3, <2>5 DEF TextStep, CheckForCopyright, ProcessGlobalSuppressions, CleanseText,
         CheckHeaderGuardIfndef, CheckHeaderGuardEndif, ProcessLine, EndFileData, FinishFile, inputVars
  <2>6. CASE UNCHANGED vars
    BY <2>3, <2>6 DEF vars
  <2> QED BY <2>1, <2>2, <2>4, <2>5, <2>6 DEF Next, Done
<1> QED BY <1>1, <1>2

\* Every step keeps a sign on each filter.
LEMMA SignsKept ==
    ASSUME SearchInv, filters \in Seq(SignedFilters), filters_backup \in Seq(SignedFilters), [Next]_vars
    PROVE  filters' \in Seq(SignedFilters) /\ filters_backup' \in Seq(SignedFilters)
<1>1. CASE ParseArguments
  BY <1>1, OptionFilters DEF ParseArguments, SetFilters, SearchInv
<1>2. CASE StartFile
  BY <1>2 DEF StartFile, BackupFilters
<1>3. CASE IgnoreExcluded \/ SkipFile \/ FinishFile
  BY <1>3 DEF IgnoreExcluded, SkipFile, FinishFile, RestoreFilters
<1>4. CASE ApplyFilters
  <2>1. PICK more : more = ConfigOverride(cfg_filters)
    OBVIOUS
  <2>2. ValidFilters(more) /\ filters' = filters \o more /\ UNCHANGED filters_backup /\ pc = "filters"
    BY <1>4, <2>1 DEF ApplyFilters, AddFilters
  <2>3. cfg_filters \in Seq(Seq(Filters))
    BY <2>2 DEF SearchInv, SearchOK
  <2>4. Reverse(cfg_filters) \in Seq(Seq(Filters))
    BY <2>3, ReverseElements
  <2>5. more \in Seq(Filters)
    BY <2>1, <2>4, FlattenType DEF ConfigOverride
  <2>6. more \in Seq(SignedFilters)
    BY <2>2, <2>5, SignedType
  <2> QED BY <2>2, <2>6
<1>5. CASE UNCHANGED <<filters, filters_backup>>
  BY <1>5
<1>6. CASE Step /\ ~(ParseArguments \/ StartFile \/ IgnoreExcluded \/ SkipFile \/ ApplyFilters)
  BY <1>5, <1>6 DEF Step, RefuseArguments, ReadConfig, SkipDirectory, RefuseFilters, BeginFileData,
       Finish, settings
<1>7. CASE TextStep /\ ~FinishFile
  BY <1>5, <1>7 DEF TextStep, CheckForCopyright, ProcessGlobalSuppressions, CleanseText,
       CheckHeaderGuardIfndef, CheckHeaderGuardEndif, ProcessLine, EndFileData, inputVars, settings
<1>8. CASE UNCHANGED vars
  BY <1>5, <1>8 DEF vars, settings
<1> QED BY <1>1, <1>2, <1>3, <1>4, <1>6, <1>7, <1>8 DEF Next, Done

\* What a comment suppresses is a known category, or all of them, on a line.
LEMMA NolintType ==
    ASSUME NEW line, NEW n \in Nat
    PROVE  NolintSuppressions(line, n) \subseteq (ErrorCategories \cup {"all"}) \X Nat
<1> DEFINE comment == Nolint(line)
           nolint == NolintComments[comment]
<1>1. PICK c : c = nolint.category
  OBVIOUS
<1>2. PICK m \in Nat : m = IF nolint.next THEN n + 1 ELSE n
  OBVIOUS
<1>3. NolintSuppressions(line, n) =
         IF comment # "" /\ c \in ErrorCategories \cup {"all"} THEN {<<c, m>>} ELSE {}
  BY <1>1, <1>2 DEF NolintSuppressions
<1> HIDE DEF comment
<1>4. CASE c \in ErrorCategories \cup {"all"}
  <2>1. <<c, m>> \in (ErrorCategories \cup {"all"}) \X Nat
    BY <1>2, <1>4
  <2> QED BY <1>3, <2>1, Zenon
<1>5. CASE c \notin ErrorCategories \cup {"all"}
  BY <1>3, <1>5, Zenon
<1> QED BY <1>4, <1>5

\* What the directives suppress are known categories.
LEMMA GlobalType ==
    ASSUME NEW text
    PROVE  GlobalSuppressions(text) \subseteq ErrorCategories
BY SuppressedAssumption DEF GlobalSuppressions

\* Every step keeps the suppressions of the right kind.
LEMMA SuppressionsKept ==
    ASSUME TextInv, error_suppressions \subseteq (ErrorCategories \cup {"all"}) \X Nat,
           global_error_suppressions \subseteq ErrorCategories, [Next]_vars
    PROVE  /\ error_suppressions' \subseteq (ErrorCategories \cup {"all"}) \X Nat
           /\ global_error_suppressions' \subseteq ErrorCategories
<1>1. CASE UNCHANGED suppressions
  BY <1>1 DEF suppressions
<1>2. CASE BeginFileData
  BY <1>2 DEF BeginFileData, ResetNolintSuppressions
<1>3. CASE ProcessGlobalSuppressions
  BY <1>3, GlobalType DEF ProcessGlobalSuppressions
<1>4. CASE CheckHeaderGuardIfndef
  <2>1. pc = "guard"
    BY <1>4 DEF CheckHeaderGuardIfndef
  <2>2. Len(GuardLines) \in Nat
    BY <2>1, GuardLinesType DEF TextInv, LaterStages
  <2>3. PICK n \in Nat : n = DirectiveLine("#ifndef")
    BY <2>2, DirectiveLineType
  <2>4. /\ error_suppressions' \subseteq error_suppressions \cup NolintSuppressions(GuardLines[n], n)
        /\ UNCHANGED global_error_suppressions
    BY <1>4, <2>3 DEF CheckHeaderGuardIfndef
  <2> QED BY <2>4, NolintType
<1>5. CASE CheckHeaderGuardEndif
  <2>1. pc = "endif"
    BY <1>5 DEF CheckHeaderGuardEndif
  <2>2. Len(GuardLines) \in Nat
    BY <2>1, GuardLinesType DEF TextInv, LaterStages
  <2>3. PICK n \in Nat : n = EndifLine
    BY <2>2, EndifLineType
  <2>4. PICK line : line = IF n = 0 THEN <<>> ELSE GuardLines[n]
    OBVIOUS
  <2>5. /\ error_suppressions' = error_suppressions \cup NolintSuppressions(line, n)
        /\ UNCHANGED global_error_suppressions
    BY <1>5, <2>3, <2>4 DEF CheckHeaderGuardEndif
  <2> QED BY <2>5, NolintType
<1>6. CASE ProcessLine
  <2>1. PICK n \in Nat : n = linenum
    BY DEF TextInv, TextOK
  <2>2. /\ error_suppressions' = error_suppressions \cup NolintSuppressions(clean.raw_lines[n], n)
        /\ UNCHANGED global_error_suppressions
    BY <1>6, <2>1 DEF ProcessLine, CheckLine
  <2> QED BY <2>2, NolintType
<1>7. CASE Step /\ ~BeginFileData
  BY <1>1, <1>7 DEF Step, ParseArguments, RefuseArguments, StartFile, ReadConfig, SkipDirectory,
       IgnoreExcluded, ApplyFilters, RefuseFilters, SkipFile, Finish
<1>8. CASE CheckForCopyright \/ CleanseText \/ EndFileData \/ FinishFile
  BY <1>1, <1>8 DEF CheckForCopyright, CleanseText, EndFileData, FinishFile
<1>9. CASE UNCHANGED vars
  BY <1>1, <1>9 DEF vars
<1> QED BY <1>2, <1>3, <1>4, <1>5, <1>6, <1>7, <1>8, <1>9 DEF Next, Done, TextStep

\* Every step keeps last_header the rank of the last header listed.
LEMMA LastHeaderKept ==
    ASSUME IncludeInv, LastHeaderOK, [Next]_vars
    PROVE  LastHeaderOK'
<1>1. CASE UNCHANGED includeVars
  BY <1>1 DEF includeVars, LastHeaderOK
<1>2. CASE last_header' = 0
  BY <1>2 DEF LastHeaderOK
<1>3. ASSUME NEW h, NEW n, RecordInclude(h, n)
      PROVE  LastHeaderOK'
  <2>1. PICK e : e = [header |-> h, line |-> n]
    OBVIOUS
  <2>2. PICK X : X = Entries(include_list) \cup {e}
    OBVIOUS
  <2>3. include_list \in Seq(Seq(X)) /\ include_list # <<>> /\ e \in X
    <3>1. include_list \in Seq(Seq(Entries(include_list))) /\ include_list # <<>>
      BY DEF IncludeInv, IncludeTypeOK
    <3> QED BY <2>2, <3>1
  <2>4. include_list' = [include_list EXCEPT ![Len(include_list)] = Append(@, e)]
        /\ last_header' = Headers[h].rank
    BY <1>3, <2>1 DEF RecordInclude
  <2>5. PICK t : t = include_list'
    OBVIOUS
  <2>6. t # <<>> /\ Last(t) # <<>> /\ Last(Last(t)) = e
    <3>1. PICK d \in Nat : d = Len(include_list) /\ d # 0
      BY <2>3
    <3>2. PICK a \in Seq(X) : a = include_list[d]
      BY <2>3, <3>1
    <3>3. PICK b : b = Append(a, e)
      OBVIOUS
    <3>4. Len(t) = d /\ t[d] = b
      BY <2>3, <2>4, <2>5, <3>1, <3>2, <3>3
    <3>5. b # <<>> /\ Last(b) = e
      BY <2>3, <3>3, LastAppended
    <3>6. t # <<>> /\ Last(t) = b
      BY <3>1, <3>4 DEF Last
    <3> QED BY <3>5, <3>6
  <2>7. e.header = h
    BY <2>1
  <2> QED BY <2>4, <2>5, <2>6, <2>7 DEF LastHeaderOK
<1> QED BY <1>1, <1>2, <1>3, StepOnIncludes
       DEF IncludeStep, CheckIncludeLine, IgnoreInclude, ResetSection, InitInclude

\* What remains of the command line is a suffix of it.
LEMMA TodoIsSuffix ==
    ASSUME InputsOK, TodoOK
    PROVE  IsSuffix(todo, world.args.files)
<1>1. PICK S : S = DOMAIN world.files
  OBVIOUS
<1>2. PICK files \in Seq(S) : files = world.args.files
  BY <1>1, WorldsAssumption DEF InputsOK
<1>3. todo \in Seq(S)
  BY <1>1 DEF InputsOK
<1>4. PICK rt \in Seq(S) : /\ rt = Reverse(todo) /\ Len(rt) = Len(todo)
                           /\ \A i \in 1..Len(todo) : rt[i] = todo[(Len(todo) - i) + 1]
  BY <1>3, ReverseElements
<1>5. PICK rf \in Seq(S) : /\ rf = Reverse(files) /\ Len(rf) = Len(files)
                           /\ \A i \in 1..Len(files) : rf[i] = files[(Len(files) - i) + 1]
  BY <1>2, ReverseElements
<1>6. PICK m \in Nat, n \in Nat : m = Len(todo) /\ n = Len(files)
  BY <1>3
<1>7. m <= n /\ \A i \in 1..m : todo[i] = files[(n - m) + i]
  BY <1>2, <1>6 DEF TodoOK
<1>8. ASSUME NEW i \in 1..m PROVE rt[i] = rf[i]
  <2>1. (m - i) + 1 \in 1..m /\ i \in 1..n /\ (n - m) + ((m - i) + 1) = (n - i) + 1
    BY <1>7
  <2>2. rt[i] = files[(n - i) + 1]
    BY <1>4, <1>6, <1>7, <2>1
  <2>3. rf[i] = files[(n - i) + 1]
    BY <1>5, <1>6, <2>1
  <2> QED BY <2>2, <2>3
<1>9. SubSeq(rt, 1, m) = SubSeq(rf, 1, m)
  BY <1>4, <1>5, <1>6, <1>7, <1>8
<1> QED BY <1>2, <1>4, <1>5, <1>6, <1>7, <1>9 DEF IsSuffix, IsPrefix

\* Everything the linter keeps is of its type, for every input: the categories of errors are
\* known ones, every filter has a sign, open blocks begin on lines of the text, and the header
\* that the next one is compared with is the last on the lists.
THEOREM LintTypeOK == Spec => []TypeOK
<1>1. Init => TypeInv
  <2> SUFFICES ASSUME Init PROVE TypeInv
    OBVIOUS
  <2>1. /\ level = 0 /\ exit_code = 0 /\ line_length = DefaultLineLength
        /\ filters = DefaultFilters /\ filters_backup = DefaultFilters
        /\ error_suppressions = {} /\ global_error_suppressions = {} /\ last_header = 0
    BY DEF Init, InitErrors, InitInclude
  <2>2. DefaultFilters \in Seq(SignedFilters) /\ DefaultLineLength \in Int
    BY SignedType, WorldsAssumption
  <2> QED BY <2>1, <2>2 DEF TypeInv, LastHeaderOK
<1>2. SearchInv /\ IncludeInv /\ TextInv /\ TypeInv /\ [Next]_vars => TypeInv'
  BY LengthKept, ControlKept, SignsKept, SuppressionsKept, LastHeaderKept DEF SearchInv, TypeInv
<1>3. SearchInv /\ IncludeInv /\ TextInv /\ TypeInv => TypeOK
  <2> SUFFICES ASSUME SearchInv, IncludeInv, TextInv, TypeInv PROVE TypeOK
    OBVIOUS
  <2>1. IsSuffix(todo, world.args.files)
    BY TodoIsSuffix DEF SearchInv, TextInv
  <2>2. linenum \in 1..(Len(lines) + 1) /\ verbose_level \in 0..5 /\ error_count \in Nat /\ lines_in_function \in Nat
    BY DEF TextInv, TextOK, CountsOK
  <2>3. \A i \in DOMAIN filters : filters[i].sign \in {"+", "-"}
    <3>1. \A f \in SignedFilters : f.sign \in {"+", "-"}
      BY DEF SignedFilters
    <3> QED BY <3>1 DEF TypeInv
  <2>4. \A i \in DOMAIN raised : raised[i].category \in ErrorCategories /\ raised[i].confidence \in 0..5
    <3>1. Raisable \cup {"readability/fn_size"} \subseteq ErrorCategories
      BY CategoriesAssumption DEF Raisable, RaisedCategories
    <3>2. \A e \in AnyErr : e.category \in ErrorCategories /\ e.confidence \in 0..5
      BY <3>1 DEF AnyErr
    <3> QED BY <3>2 DEF TextInv, CountsOK
  <2>5. section \in INITIAL_SECTION..OTHER_H_SECTION
    BY DEF IncludeInv, IncludeTypeOK, Sections
  <2>6. \A i \in DOMAIN stack : stack[i].line \in 1..Len(lines)
    <3>1. PICK n \in Nat : n = linenum - 1 /\ n <= Len(lines) /\ stack \in Seq(Blocks(Tokens, n))
      BY DEF TextInv, TextOK
    <3>2. Len(lines) \in Nat
      BY DEF TextInv, TextOK
    <3>3. \A b \in Blocks(Tokens, n) : b.line \in 1..n
      BY DEF Blocks
    <3>4. 1..n \subseteq 1..Len(lines)
      BY <3>1, <3>2
    <3> QED BY <3>1, <3>3, <3>4
  <2> QED BY <2>1, <2>2, <2>3, <2>4, <2>5, <2>6 DEF TypeOK, TypeInv, LastHeaderOK
<1> QED BY <1>1, <1>2, <1>3, FiltersInvariant, SearchInvariant, IncludeInvariant, TextInvariant, PTL DEF Spec

-----------------------------------------------------------------------------
(* Conditionals *)

\* One of the other branches of the conditional that begins at line i has begun.
HasElse(i, n) == \E j \in (i + 1)..n : IsElse(j) /\ Balance((i + 1)..j) = 0

\* The d conditionals open after line n begin at the lines at[1], ..., at[d].
Conditionals(at, n, d) ==
    /\ at \in [1..d -> 1..n]
    /\ \A r \in 1..d : OpenAt(at[r], n) /\ Balance((at[r] + 1)..n) = d - r
    /\ \A i \in 1..n : OpenAt(i, n) => \E r \in 1..d : at[r] = i

\* The next line opens a conditional, closes one or does neither.
LEMMA BalanceOn ==
    ASSUME NEW i \in Nat, NEW n \in Nat, i <= n
    PROVE  /\ Balance((i + 1)..n) \in Int
           /\ i = n => Balance((i + 1)..n) = 0
           /\ IsIf(n + 1) => Balance((i + 1)..(n + 1)) = Balance((i + 1)..n) + 1
           /\ IsEndif(n + 1) => Balance((i + 1)..(n + 1)) = Balance((i + 1)..n) - 1
           /\ ~IsIf(n + 1) /\ ~IsEndif(n + 1) => Balance((i + 1)..(n + 1)) = Balance((i + 1)..n)
<1> DEFINE A == {k \in (i + 1)..n : IsIf(k)}
           B == {k \in (i + 1)..n : IsEndif(k)}
           C == {k \in (i + 1)..(n + 1) : IsIf(k)}
           D == {k \in (i + 1)..(n + 1) : IsEndif(k)}
<1>1. Balance((i + 1)..n) = Cardinality(A) - Cardinality(B)
  BY DEF Balance
<1>2. Balance((i + 1)..(n + 1)) = Cardinality(C) - Cardinality(D)
  BY DEF Balance
<1>3. IsIf(n + 1) => ~IsEndif(n + 1)
  BY DEF IsIf, IsEndif
<1>4. \A k : k \in (i + 1)..(n + 1) <=> k \in (i + 1)..n \/ k = n + 1
  OBVIOUS
<1>5. n + 1 \notin A /\ n + 1 \notin B
  OBVIOUS
<1>6. /\ C = IF IsIf(n + 1) THEN A \cup {n + 1} ELSE A
      /\ D = IF IsEndif(n + 1) THEN B \cup {n + 1} ELSE B
  BY <1>4
<1>7. IsFiniteSet(A) /\ IsFiniteSet(B)
  <2>1. IsFiniteSet((i + 1)..n)
    BY FS_Interval
  <2>2. A \subseteq (i + 1)..n /\ B \subseteq (i + 1)..n
    OBVIOUS
  <2> QED BY <2>1, <2>2, FS_Subset
<1>8. i = n => A = {} /\ B = {}
  OBVIOUS
<1> HIDE DEF A, B, C, D
<1>9. Cardinality(A) \in Nat /\ Cardinality(B) \in Nat
  BY <1>7, FS_CardinalityType
<1>10. i = n => Cardinality(A) = 0 /\ Cardinality(B) = 0
  BY <1>8, FS_EmptySet
<1>11. Cardinality(A \cup {n + 1}) = Cardinality(A) + 1 /\ Cardinality(B \cup {n + 1}) = Cardinality(B) + 1
  BY <1>5, <1>7, FS_AddElement
<1> QED BY <1>1, <1>2, <1>3, <1>6, <1>9, <1>10, <1>11

\* What was open stays open until its #endif, and what is open was open or begins now.
LEMMA OpenOn ==
    ASSUME NEW i \in Nat, NEW n \in Nat, i <= n
    PROVE  /\ OpenAt(i, n + 1) => OpenAt(i, n) /\ Balance((i + 1)..(n + 1)) >= 0
           /\ OpenAt(i, n) /\ Balance((i + 1)..(n + 1)) >= 0 => OpenAt(i, n + 1)
<1>1. \A k : k \in (i + 1)..(n + 1) <=> k \in (i + 1)..n \/ k = n + 1
  OBVIOUS
<1> QED BY <1>1 DEF OpenAt

\* A conditional is open on the line on which it begins.
LEMMA OpenNow ==
    ASSUME NEW n \in Nat
    PROVE  OpenAt(n, n) <=> IsIf(n)
<1>1. (n + 1)..n = {}
  OBVIOUS
<1> QED BY <1>1 DEF OpenAt

\* A conditional that is open was open at each line before.
LEMMA OpenBefore ==
    ASSUME NEW i \in Nat, NEW j \in Nat, NEW n \in Nat, j <= n, OpenAt(i, n)
    PROVE  OpenAt(i, j)
<1>1. \A k : k \in (i + 1)..j => k \in (i + 1)..n
  OBVIOUS
<1> QED BY <1>1 DEF OpenAt

\* A branch begins with the line, or one has begun before.
LEMMA ElseOn ==
    ASSUME NEW i \in Nat, NEW n \in Nat, i <= n
    PROVE  /\ HasElse(i, n + 1) <=> HasElse(i, n) \/ (IsElse(n + 1) /\ Balance((i + 1)..(n + 1)) = 0)
           /\ ~HasElse(n + 1, n + 1)
<1>1. \A k : k \in (i + 1)..(n + 1) <=> k \in (i + 1)..n \/ k = n + 1
  OBVIOUS
<1>2. ((n + 1) + 1)..(n + 1) = {}
  OBVIOUS
<1> QED BY <1>1, <1>2 DEF HasElse

\* A line that opens no conditional and closes none of them.
LEMMA SameConditionals ==
    ASSUME NEW n \in Nat, NEW d \in Nat, NEW at, Conditionals(at, n, d),
           ~IsIf(n + 1), IsEndif(n + 1) => d = 0
    PROVE  Conditionals(at, n + 1, d)
<1>1. at \in [1..d -> 1..(n + 1)]
  <2>1. 1..n \subseteq 1..(n + 1)
    OBVIOUS
  <2> QED BY <2>1 DEF Conditionals
<1>2. ASSUME NEW r \in 1..d
      PROVE  OpenAt(at[r], n + 1) /\ Balance((at[r] + 1)..(n + 1)) = d - r
  <2>1. PICK i \in Nat : i = at[r] /\ i <= n
    BY DEF Conditionals
  <2>2. OpenAt(i, n) /\ Balance((i + 1)..n) = d - r
    BY <2>1 DEF Conditionals
  <2>3. Balance((i + 1)..(n + 1)) = d - r
    BY <2>1, <2>2, BalanceOn
  <2>4. d - r >= 0
    OBVIOUS
  <2>5. OpenAt(i, n + 1)
    BY <2>1, <2>2, <2>3, <2>4, OpenOn
  <2> QED BY <2>1, <2>3, <2>5
<1>3. ASSUME NEW i \in 1..(n + 1), OpenAt(i, n + 1)
      PROVE  \E r \in 1..d : at[r] = i
  <2>1. i # n + 1
    BY <1>3, OpenNow
  <2>2. i \in 1..n
    BY <2>1
  <2>3. OpenAt(i, n)
    BY <1>3, <2>2, OpenOn
  <2> QED BY <2>2, <2>3 DEF Conditionals
<1> QED BY <1>1, <1>2, <1>3 DEF Conditionals

\* A line that opens one.
LEMMA OneMoreConditional ==
    ASSUME NEW n \in Nat, NEW d \in Nat, NEW at, Conditionals(at, n, d), IsIf(n + 1),
           NEW more, more = [r \in 1..(d + 1) |-> IF r = d + 1 THEN n + 1 ELSE at[r]]
    PROVE  Conditionals(more, n + 1, d + 1)
<1>1. \A r \in 1..d : at[r] \in 1..n
  BY DEF Conditionals
<1>2. more \in [1..(d + 1) -> 1..(n + 1)]
  <2>1. \A r \in 1..(d + 1) : r # d + 1 => r \in 1..d
    OBVIOUS
  <2>2. 1..n \subseteq 1..(n + 1) /\ n + 1 \in 1..(n + 1)
    OBVIOUS
  <2> QED BY <1>1, <2>1, <2>2
<1>3. ASSUME NEW r \in 1..(d + 1)
      PROVE  OpenAt(more[r], n + 1) /\ Balance((more[r] + 1)..(n + 1)) = (d + 1) - r
  <2>1. CASE r = d + 1
    <3>1. more[r] = n + 1
      BY <2>1
    <3>2. OpenAt(n + 1, n + 1)
      BY OpenNow
    <3>3. PICK N \in Nat : N = n + 1
      OBVIOUS
    <3>4. Balance((N + 1)..N) = 0
      BY BalanceOn
    <3> QED BY <2>1, <3>1, <3>2, <3>3, <3>4
  <2>2. CASE r # d + 1
    <3>1. r \in 1..d
      BY <2>2
    <3>2. PICK i \in Nat : i = at[r] /\ i <= n /\ i = more[r]
      BY <1>1, <2>2, <3>1
    <3>3. OpenAt(i, n) /\ Balance((i + 1)..n) = d - r
      BY <3>1, <3>2 DEF Conditionals
    <3>4. Balance((i + 1)..(n + 1)) = (d - r) + 1
      BY <3>2, <3>3, BalanceOn
    <3>5. (d - r) + 1 = (d + 1) - r /\ (d - r) + 1 >= 0
      BY <3>1
    <3>6. OpenAt(i, n + 1)
      BY <3>2, <3>3, <3>4, <3>5, OpenOn
    <3> QED BY <3>2, <3>4, <3>5, <3>6
  <2> QED BY <2>1, <2>2
<1>4. ASSUME NEW i \in 1..(n + 1), OpenAt(i, n + 1)
      PROVE  \E r \in 1..(d + 1) : more[r] = i
  <2>1. CASE i = n + 1
    <3>1. d + 1 \in 1..(d + 1) /\ more[d + 1] = n + 1
      OBVIOUS
    <3> QED BY <2>1, <3>1
  <2>2. CASE i # n + 1
    <3>1. i \in 1..n
      BY <2>2
    <3>2. OpenAt(i, n)
      BY <1>4, <3>1, OpenOn
    <3>3. PICK r \in 1..d : at[r] = i
      BY <3>1, <3>2 DEF Conditionals
    <3>4. r \in 1..(d + 1) /\ more[r] = at[r]
      OBVIOUS
    <3> QED BY <3>3, <3>4
  <2> QED BY <2>1, <2>2
<1> HIDE DEF Conditionals
<1> QED BY <1>2, <1>3, <1>4 DEF Conditionals

\* A line that closes one.
LEMMA OneLessConditional ==
    ASSUME NEW n \in Nat, NEW d \in Nat \ {0}, NEW at, Conditionals(at, n, d), IsEndif(n + 1),
           NEW less, less = [r \in 1..(d - 1) |-> at[r]]
    PROVE  Conditionals(less, n + 1, d - 1)
<1>0. ~IsIf(n + 1)
  BY DEF IsIf, IsEndif
<1>1. \A r \in 1..d : at[r] \in 1..n
  BY DEF Conditionals
<1>2. less \in [1..(d - 1) -> 1..(n + 1)]
  <2>1. \A r \in 1..(d - 1) : r \in 1..d
    OBVIOUS
  <2>2. 1..n \subseteq 1..(n + 1)
    OBVIOUS
  <2> QED BY <1>1, <2>1, <2>2
<1>3. ASSUME NEW r \in 1..d
      PROVE  /\ Balance((at[r] + 1)..(n + 1)) = (d - 1) - r
             /\ r # d => OpenAt(at[r], n + 1)
  <2>1. PICK i \in Nat : i = at[r] /\ i <= n
    BY <1>1
  <2>2. OpenAt(i, n) /\ Balance((i + 1)..n) = d - r
    BY <2>1 DEF Conditionals
  <2>3. Balance((i + 1)..(n + 1)) = (d - r) - 1
    BY <2>1, <2>2, BalanceOn
  <2>4. (d - r) - 1 = (d - 1) - r /\ (r # d => (d - r) - 1 >= 0)
    OBVIOUS
  <2>5. r # d => OpenAt(i, n + 1)
    BY <2>1, <2>2, <2>3, <2>4, OpenOn
  <2> QED BY <2>1, <2>3, <2>4, <2>5
<1>4. ASSUME NEW i \in 1..(n + 1), OpenAt(i, n + 1)
      PROVE  \E r \in 1..(d - 1) : less[r] = i
  <2>1. i # n + 1
    BY <1>0, <1>4, OpenNow
  <2>2. i \in 1..n
    BY <2>1
  <2>3. OpenAt(i, n) /\ Balance((i + 1)..(n + 1)) >= 0
    BY <1>4, <2>2, OpenOn
  <2>4. PICK r \in 1..d : at[r] = i
    BY <2>2, <2>3 DEF Conditionals
  <2>5. (d - 1) - r >= 0
    BY <1>3, <2>3, <2>4
  <2>6. r \in 1..(d - 1)
    BY <2>5
  <2> QED BY <2>4, <2>6
<1>5. ASSUME NEW r \in 1..(d - 1)
      PROVE  OpenAt(less[r], n + 1) /\ Balance((less[r] + 1)..(n + 1)) = (d - 1) - r
  <2>1. r \in 1..d /\ r # d /\ less[r] = at[r]
    OBVIOUS
  <2> QED BY <1>3, <2>1
<1> QED BY <1>2, <1>4, <1>5 DEF Conditionals

\* The stacks of a text without the lines skipped, line by line.
LEMMA StacksStep ==
    ASSUME NEW L \in Nat, NEW skipped, NEW elided, NEW raw_lines,
           NEW f, f = StacksWithout(skipped, elided, raw_lines, L)
    PROVE  /\ f[0] = <<>>
           /\ \A n \in 1..L :
                 f[n] = IF n \in skipped THEN f[n - 1] ELSE UpdateStack(f[n - 1], elided, raw_lines, n).stack
<1> DEFINE G(v, n) == IF n \in skipped THEN v ELSE UpdateStack(v, elided, raw_lines, n).stack
           IsSo(h, n) == /\ h = [k \in 0..n |-> h[k]] /\ h[0] = <<>>
                         /\ \A k \in 1..n : h[k] = G(h[k - 1], k)
           S == {n \in Nat : \E h : IsSo(h, n)}
<1>1. f = CHOOSE g : g = [n \in 0..L |-> IF n = 0 THEN <<>> ELSE G(g[n - 1], n)]
  BY DEF StacksWithout
<1> HIDE DEF G
<1>2. 0 \in S
  <2>1. PICK h : h = [k \in 0..0 |-> <<>>]
    OBVIOUS
  <2>2. IsSo(h, 0)
    BY <2>1
  <2> QED BY <2>2
<1>3. ASSUME NEW n \in Nat, n \in S PROVE n + 1 \in S
  <2>1. PICK h : IsSo(h, n)
    BY <1>3
  <2>2. PICK v : v = G(h[n], n + 1)
    OBVIOUS
  <2>3. PICK g : g = [k \in 0..(n + 1) |-> IF k = n + 1 THEN v ELSE h[k]]
    OBVIOUS
  <2>4. g = [k \in 0..(n + 1) |-> g[k]] /\ g[0] = <<>> /\ g[n + 1] = v /\ \A k \in 0..n : g[k] = h[k]
    BY <2>1, <2>3
  <2>5. ASSUME NEW k \in 1..(n + 1) PROVE g[k] = G(g[k - 1], k)
    <3>1. CASE k = n + 1
      <4>1. k - 1 = n /\ n \in 0..n
        BY <3>1
      <4> QED BY <2>2, <2>4, <3>1, <4>1
    <3>2. CASE k # n + 1
      <4>1. k \in 1..n /\ k \in 0..n /\ k - 1 \in 0..n
        BY <3>2
      <4> QED BY <2>1, <2>4, <4>1
    <3> QED BY <3>1, <3>2
  <2>6. IsSo(g, n + 1)
    BY <2>4, <2>5
  <2> HIDE DEF IsSo
  <2> QED BY <2>6
<1>4. L \in S
  <2> HIDE DEF S
  <2> QED BY <1>2, <1>3, Induction
<1>5. PICK h : IsSo(h, L)
  BY <1>4
<1>6. \A n \in 0..L : h[n] = IF n = 0 THEN <<>> ELSE G(h[n - 1], n)
  <2>1. \A n \in 0..L : n # 0 => n \in 1..L
    OBVIOUS
  <2> QED BY <1>5, <2>1
<1>7. h = [n \in 0..L |-> IF n = 0 THEN <<>> ELSE G(h[n - 1], n)]
  BY <1>5, <1>6
<1>8. f = [n \in 0..L |-> IF n = 0 THEN <<>> ELSE G(f[n - 1], n)]
  BY <1>1, <1>7
<1>9. 0 \in 0..L /\ \A n \in 1..L : n \in 0..L /\ n # 0
  OBVIOUS
<1>10. f[0] = <<>> /\ \A n \in 1..L : f[n] = G(f[n - 1], n)
  BY <1>8, <1>9
<1> QED BY <1>10 DEF G

\* The stack of the text without other branches, line by line.
LEMMA FirstBranchStep ==
    ASSUME Len(lines) \in Nat
    PROVE  /\ FirstBranchStack[0] = <<>>
           /\ \A n \in 1..Len(lines) :
                 FirstBranchStack[n] =
                    IF InLaterBranch(n) THEN FirstBranchStack[n - 1]
                    ELSE UpdateStack(FirstBranchStack[n - 1], clean.elided, clean.raw_lines, n).stack
<1>1. PICK skipped : skipped = {n \in 1..Len(lines) : InLaterBranch(n)}
  OBVIOUS
<1>2. PICK f : f = StacksWithout(skipped, clean.elided, clean.raw_lines, Len(lines))
  OBVIOUS
<1>3. f = FirstBranchStack
  BY <1>1, <1>2 DEF FirstBranchStack
<1>4. /\ f[0] = <<>>
      /\ \A n \in 1..Len(lines) :
            f[n] = IF n \in skipped THEN f[n - 1] ELSE UpdateStack(f[n - 1], clean.elided, clean.raw_lines, n).stack
  BY <1>2, StacksStep
<1>5. \A n \in 1..Len(lines) : n \in skipped <=> InLaterBranch(n)
  BY <1>1
<1> QED BY <1>3, <1>4, <1>5

\* No conditional on the stack is in another branch.
NoElse(pp) == \A r \in 1..Len(pp) : ~pp[r].seen_else

\* The outermost conditional that is in another branch.
FirstElse(pp, r) == pp[r].seen_else /\ \A q \in 1..(r - 1) : ~pp[q].seen_else

\* The stack s, or what the outermost conditional in another branch has saved, is v.
Saves(s, pp, v) ==
    /\ NoElse(pp) => s = v
    /\ \A r \in 1..Len(pp) : FirstElse(pp, r) => pp[r].before_else = v

\* The conditionals of the stack begin at the lines at[1], at[2], ...
OnStack(at, pp, n) ==
    /\ Conditionals(at, n, Len(pp))
    /\ \A r \in 1..Len(pp) : pp[r].seen_else <=> HasElse(at[r], n)

\* After line n, the state is that of the text without other branches.
NestOK(n, s, pp) ==
    /\ \E at : OnStack(at, pp, n)
    /\ Saves(s, pp, FirstBranchStack[n])

\* A line is in another branch of a conditional if one on the stack is.
LEMMA LaterIs ==
    ASSUME NEW n \in Nat \ {0}, NEW pp, Len(pp) \in Nat, NEW at, OnStack(at, pp, n)
    PROVE  InLaterBranch(n) <=> ~NoElse(pp)
<1>1. ASSUME InLaterBranch(n) PROVE ~NoElse(pp)
  <2>1. PICK i \in 1..n, j \in 1..n : /\ i < j /\ IsElse(j) /\ Balance((i + 1)..j) = 0 /\ OpenAt(i, n)
    BY <1>1 DEF InLaterBranch
  <2>2. PICK r \in 1..Len(pp) : at[r] = i
    BY <2>1 DEF OnStack, Conditionals
  <2>3. j \in (i + 1)..n
    BY <2>1
  <2>4. HasElse(i, n)
    BY <2>1, <2>3 DEF HasElse
  <2> QED BY <2>2, <2>4 DEF OnStack, NoElse
<1>2. ASSUME ~NoElse(pp) PROVE InLaterBranch(n)
  <2>1. PICK r \in 1..Len(pp) : pp[r].seen_else
    BY <1>2 DEF NoElse
  <2>2. PICK i \in 1..n : i = at[r] /\ OpenAt(i, n) /\ HasElse(i, n)
    BY <2>1 DEF OnStack, Conditionals
  <2>3. PICK j \in (i + 1)..n : IsElse(j) /\ Balance((i + 1)..j) = 0
    BY <2>2 DEF HasElse
  <2>4. j \in 1..n /\ i < j /\ j <= n
    BY <2>3
  <2>5. OpenAt(i, j)
    BY <2>2, <2>4, OpenBefore
  <2> QED BY <2>2, <2>3, <2>4, <2>5 DEF InLaterBranch
<1> QED BY <1>1, <1>2

\* The rest of Update keeps the stack that of the first branches.
LEMMA UpdateFollows ==
    ASSUME Len(lines) \in Nat, NEW n \in Nat, n + 1 <= Len(lines), NEW s, NEW pp, Len(pp) \in Nat,
           NEW at, OnStack(at, pp, n + 1), Saves(s, pp, FirstBranchStack[n])
    PROVE  NestOK(n + 1, UpdateStack(s, clean.elided, clean.raw_lines, n + 1).stack, pp)
<1>1. PICK N \in Nat \ {0} : N = n + 1 /\ N \in 1..Len(lines) /\ N - 1 = n
  OBVIOUS
<1>2. InLaterBranch(N) <=> ~NoElse(pp)
  BY <1>1, LaterIs
<1>3. FirstBranchStack[N] =
         IF InLaterBranch(N) THEN FirstBranchStack[n]
         ELSE UpdateStack(FirstBranchStack[n], clean.elided, clean.raw_lines, N).stack
  BY <1>1, FirstBranchStep
<1>4. NoElse(pp) => UpdateStack(s, clean.elided, clean.raw_lines, N).stack = FirstBranchStack[N]
  BY <1>2, <1>3 DEF Saves
<1>5. ASSUME NEW r \in 1..Len(pp), FirstElse(pp, r) PROVE pp[r].before_else = FirstBranchStack[N]
  <2>1. ~NoElse(pp)
    BY <1>5 DEF NoElse, FirstElse
  <2> QED BY <1>2, <1>3, <1>5, <2>1 DEF Saves
<1>6. Saves(UpdateStack(s, clean.elided, clean.raw_lines, N).stack, pp, FirstBranchStack[N])
  BY <1>4, <1>5 DEF Saves
<1> QED BY <1>1, <1>6 DEF NestOK

\* A line without a directive, or with one that belongs to no conditional.
LEMMA PlainLineFollows ==
    ASSUME NEW n \in Nat, NEW s, NEW X, NEW pp \in Seq(X), NEW at, OnStack(at, pp, n),
           ~IsIf(n + 1), IsElse(n + 1) \/ IsEndif(n + 1) => pp = <<>>
    PROVE  OnStack(at, pp, n + 1)
<1>1. PICK d \in Nat : d = Len(pp)
  OBVIOUS
<1>2. pp = <<>> => d = 0
  BY <1>1
<1>3. Conditionals(at, n + 1, d)
  BY <1>1, <1>2, SameConditionals DEF OnStack
<1>4. ASSUME NEW r \in 1..d PROVE pp[r].seen_else <=> HasElse(at[r], n + 1)
  <2>1. PICK i \in Nat : i = at[r] /\ i <= n
    BY <1>1 DEF OnStack, Conditionals
  <2>2. ~IsElse(n + 1)
    BY <1>2
  <2>3. HasElse(i, n + 1) <=> HasElse(i, n)
    BY <2>1, <2>2, ElseOn
  <2> QED BY <1>1, <2>1, <2>3 DEF OnStack
<1> QED BY <1>1, <1>3, <1>4 DEF OnStack

\* An #if is put on the stack.
LEMMA IfFollows ==
    ASSUME NEW n \in Nat, NEW s, NEW X, NEW pp \in Seq(X), NEW at, OnStack(at, pp, n), NEW v, Saves(s, pp, v),
           IsIf(n + 1), NEW new \in X, ~new.seen_else
    PROVE  (\E more : OnStack(more, Append(pp, new), n + 1)) /\ Saves(s, Append(pp, new), v)
<1>1. PICK d \in Nat : d = Len(pp)
  OBVIOUS
<1>2. PICK all \in Seq(X) : all = Append(pp, new)
  BY AppendProperties
<1>3. Len(all) = d + 1 /\ all[d + 1] = new /\ \A r \in 1..d : all[r] = pp[r]
  BY <1>1, <1>2
<1>4. \A r \in 1..(d + 1) : r \in 1..d \/ r = d + 1
  OBVIOUS
<1>5. 1..d \subseteq 1..(d + 1) /\ d + 1 \in 1..(d + 1)
  OBVIOUS
<1>6. PICK more : more = [r \in 1..(d + 1) |-> IF r = d + 1 THEN n + 1 ELSE at[r]]
  OBVIOUS
<1>7. Conditionals(more, n + 1, d + 1)
  BY <1>1, <1>6, OneMoreConditional DEF OnStack
<1>8. ~IsElse(n + 1)
  BY DEF IsIf, IsElse
<1>9. ASSUME NEW r \in 1..(d + 1) PROVE all[r].seen_else <=> HasElse(more[r], n + 1)
  <2>1. CASE r = d + 1
    <3>1. more[r] = n + 1
      BY <1>6, <2>1
    <3>2. ~HasElse(n + 1, n + 1)
      BY ElseOn
    <3> QED BY <1>3, <2>1, <3>1, <3>2
  <2>2. CASE r \in 1..d
    <3>0. at \in [1..d -> 1..n]
      BY <1>1 DEF OnStack, Conditionals
    <3>1. PICK i \in Nat : i = at[r] /\ i <= n
      BY <2>2, <3>0
    <3>2. more[r] = i
      BY <1>6, <2>2, <3>1
    <3>3. HasElse(i, n + 1) <=> HasElse(i, n)
      BY <1>8, <3>1, ElseOn
    <3> QED BY <1>1, <1>3, <2>2, <3>1, <3>2, <3>3 DEF OnStack
  <2> QED BY <1>4, <2>1, <2>2
<1>10. OnStack(more, all, n + 1)
  BY <1>3, <1>7, <1>9 DEF OnStack
<1>11. NoElse(all) => NoElse(pp)
  BY <1>1, <1>3, <1>5 DEF NoElse
<1>12. ASSUME NEW r \in 1..(d + 1), FirstElse(all, r) PROVE all[r].before_else = v
  <2>1. r \in 1..d
    BY <1>3, <1>4, <1>12 DEF FirstElse
  <2>2. \A q \in 1..(r - 1) : q \in 1..d
    BY <2>1
  <2>3. FirstElse(pp, r)
    BY <1>3, <1>12, <2>1, <2>2 DEF FirstElse
  <2> QED BY <1>1, <1>3, <2>1, <2>3 DEF Saves
<1>13. Saves(s, all, v)
  BY <1>3, <1>11, <1>12 DEF Saves
<1> QED BY <1>2, <1>10, <1>13

\* An #else or #elif: the conditional is in another branch from now on.
LEMMA ElseFollows ==
    ASSUME NEW n \in Nat, NEW s, NEW X, NEW pp \in Seq(X), pp # <<>>, NEW at, OnStack(at, pp, n),
           NEW v, Saves(s, pp, v), IsElse(n + 1),
           NEW qq, Len(qq) = Len(pp), \A r \in 1..(Len(pp) - 1) : qq[r] = pp[r], qq[Len(pp)].seen_else,
           IF pp[Len(pp)].seen_else THEN qq[Len(pp)] = pp[Len(pp)] ELSE qq[Len(pp)].before_else = s,
           NEW t
    PROVE  OnStack(at, qq, n + 1) /\ Saves(t, qq, v)
<1>1. PICK d \in Nat \ {0} : d = Len(pp)
  OBVIOUS
<1>2. ~IsIf(n + 1) /\ ~IsEndif(n + 1)
  BY DEF IsIf, IsElse, IsEndif
<1>3. Conditionals(at, n + 1, d)
  BY <1>1, <1>2, SameConditionals DEF OnStack
<1>4. \A r \in 1..d : r \in 1..(d - 1) \/ r = d
  OBVIOUS
<1>5. ASSUME NEW r \in 1..d PROVE qq[r].seen_else <=> HasElse(at[r], n + 1)
  <2>0. at \in [1..d -> 1..n]
    BY <1>1 DEF OnStack, Conditionals
  <2>1. PICK i \in Nat : i = at[r] /\ i <= n
    BY <2>0
  <2>2. Balance((i + 1)..(n + 1)) = d - r
    BY <1>3, <2>1 DEF Conditionals
  <2>3. HasElse(i, n + 1) <=> HasElse(i, n) \/ d - r = 0
    BY <2>1, <2>2, ElseOn
  <2>4. CASE r = d
    BY <1>1, <2>1, <2>3, <2>4
  <2>5. CASE r \in 1..(d - 1)
    <3>1. d - r # 0
      BY <2>5
    <3> QED BY <1>1, <2>1, <2>3, <2>5, <3>1 DEF OnStack
  <2> QED BY <1>4, <2>4, <2>5
<1>6. ~NoElse(qq)
  BY <1>1 DEF NoElse
<1>7. ASSUME NEW r \in 1..d, FirstElse(qq, r) PROVE qq[r].before_else = v
  <2>1. \A q \in 1..(r - 1) : q \in 1..(d - 1) /\ q \in 1..d
    OBVIOUS
  <2>2. \A q \in 1..(r - 1) : ~pp[q].seen_else
    BY <1>1, <1>7, <2>1 DEF FirstElse
  <2>3. CASE pp[r].seen_else
    <3>1. qq[r] = pp[r]
      BY <1>1, <1>4, <2>3
    <3>2. FirstElse(pp, r)
      BY <2>2, <2>3 DEF FirstElse
    <3> QED BY <1>1, <3>1, <3>2 DEF Saves
  <2>4. CASE ~pp[r].seen_else
    <3>1. r = d
      BY <1>1, <1>4, <1>7, <2>4 DEF FirstElse
    <3>2. NoElse(pp)
      BY <1>1, <1>4, <2>2, <2>4, <3>1 DEF NoElse
    <3> QED BY <1>1, <2>4, <3>1, <3>2 DEF Saves
  <2> QED BY <2>3, <2>4
<1> QED BY <1>1, <1>3, <1>5, <1>6, <1>7 DEF OnStack, Saves

\* An #endif takes the stack back to what it was at the end of the first branch.
LEMMA EndifFollows ==
    ASSUME NEW n \in Nat, NEW s, NEW X, NEW pp \in Seq(X), pp # <<>>, NEW at, OnStack(at, pp, n),
           NEW v, Saves(s, pp, v), IsEndif(n + 1),
           NEW t, t = IF pp[Len(pp)].seen_else THEN pp[Len(pp)].before_else ELSE s
    PROVE  (\E less : OnStack(less, Front(pp), n + 1)) /\ Saves(t, Front(pp), v)
<1>1. PICK d \in Nat \ {0} : d = Len(pp)
  OBVIOUS
<1>2. PICK qq : qq = Front(pp)
  OBVIOUS
<1>3. Len(qq) = d - 1 /\ \A r \in 1..(d - 1) : qq[r] = pp[r]
  BY <1>1, <1>2 DEF Front
<1>4. \A r \in 1..d : r \in 1..(d - 1) \/ r = d
  OBVIOUS
<1>5. \A r \in 1..(d - 1) : r \in 1..d
  OBVIOUS
<1>6. PICK less : less = [r \in 1..(d - 1) |-> at[r]]
  OBVIOUS
<1>7. Conditionals(less, n + 1, d - 1)
  BY <1>1, <1>6, OneLessConditional DEF OnStack
<1>8. ~IsElse(n + 1)
  BY DEF IsEndif, IsElse
<1>9. ASSUME NEW r \in 1..(d - 1) PROVE qq[r].seen_else <=> HasElse(less[r], n + 1)
  <2>1. r \in 1..d /\ less[r] = at[r]
    BY <1>5, <1>6
  <2>2. PICK i \in Nat : i = at[r] /\ i <= n
    BY <1>1, <2>1 DEF OnStack, Conditionals
  <2>3. HasElse(i, n + 1) <=> HasElse(i, n)
    BY <1>8, <2>2, ElseOn
  <2> QED BY <1>1, <1>3, <2>1, <2>2, <2>3 DEF OnStack
<1>10. OnStack(less, qq, n + 1)
  BY <1>3, <1>7, <1>9 DEF OnStack
<1>11. NoElse(qq) => t = v
  <2> SUFFICES ASSUME NoElse(qq) PROVE t = v
    OBVIOUS
  <2>1. \A r \in 1..(d - 1) : ~pp[r].seen_else
    BY <1>3 DEF NoElse
  <2>2. CASE pp[d].seen_else
    <3>1. FirstElse(pp, d) /\ d \in 1..d
      BY <2>1, <2>2 DEF FirstElse
    <3> QED BY <1>1, <2>2, <3>1 DEF Saves
  <2>3. CASE ~pp[d].seen_else
    <3>1. NoElse(pp)
      BY <1>1, <1>4, <2>1, <2>3 DEF NoElse
    <3> QED BY <1>1, <2>3, <3>1 DEF Saves
  <2> QED BY <2>2, <2>3
<1>12. ASSUME NEW r \in 1..(d - 1), FirstElse(qq, r) PROVE qq[r].before_else = v
  <2>1. \A q \in 1..(r - 1) : q \in 1..(d - 1)
    OBVIOUS
  <2>2. FirstElse(pp, r) /\ r \in 1..d
    BY <1>3, <1>5, <1>12, <2>1 DEF FirstElse
  <2> QED BY <1>1, <1>3, <2>2 DEF Saves
<1>13. Saves(t, qq, v)
  BY <1>3, <1>11, <1>12 DEF Saves
<1> QED BY <1>2, <1>10, <1>13

\* What is known of the conditionals of a text stays so.
LEMMA ConditionalsKept ==
    ASSUME UNCHANGED <<lines, clean>>
    PROVE  \A n, s, pp : NestOK(n, s, pp)' <=> NestOK(n, s, pp)
<1>1. lines' = lines /\ clean' = clean
  OBVIOUS
<1>2. \A k : (IsIf(k)' <=> IsIf(k)) /\ (IsElse(k)' <=> IsElse(k)) /\ (IsEndif(k)' <=> IsEndif(k))
  <2>1. \A k : FirstWord(clean.elided[k])' = FirstWord(clean.elided[k])
    OBVIOUS
  <2> QED BY <2>1 DEF IsIf, IsElse, IsEndif
<1>3. \A ns : Balance(ns)' = Balance(ns)
  BY <1>2 DEF Balance
<1>4. \A i, k : OpenAt(i, k)' <=> OpenAt(i, k)
  BY <1>2, <1>3 DEF OpenAt
<1>5. \A i, k : HasElse(i, k)' <=> HasElse(i, k)
  BY <1>2, <1>3 DEF HasElse
<1>6. \A at, n, d : Conditionals(at, n, d)' <=> Conditionals(at, n, d)
  BY <1>3, <1>4 DEF Conditionals
<1>7. \A at, pp, n : OnStack(at, pp, n)' <=> OnStack(at, pp, n)
  BY <1>5, <1>6 DEF OnStack
<1>8. FirstBranchStack' = FirstBranchStack
  <2> DEFINE skipped == {n \in 1..Len(lines) : InLaterBranch(n)}
  <2>1. \A n : InLaterBranch(n)' <=> InLaterBranch(n)
    BY <1>2, <1>3, <1>4 DEF InLaterBranch
  <2>2. skipped' = skipped
    BY <1>1, <2>1
  <2> HIDE DEF skipped
  <2>3. StacksWithout(skipped, clean.elided, clean.raw_lines, Len(lines))'
          = StacksWithout(skipped, clean.elided, clean.raw_lines, Len(lines))
    BY <1>1, <2>2
  <2> QED BY <2>3 DEF FirstBranchStack, skipped
<1>9. \A s, pp, n : Saves(s, pp, FirstBranchStack[n])' <=> Saves(s, pp, FirstBranchStack[n])
  BY <1>8 DEF Saves, NoElse, FirstElse
<1> QED BY <1>7, <1>9 DEF NestOK

\* A line after the preprocessor.
LEMMA LineFollows ==
    ASSUME Len(lines) \in Nat, NEW n \in Nat, n + 1 <= Len(lines), NEW T, NEW s \in Seq(Blocks(T, n)),
           NEW pp \in Seq(Saved(T, n)), NestOK(n, s, pp),
           NEW up, up = UpdatePreprocessor(s, pp, clean.elided[n + 1])
    PROVE  NestOK(n + 1, UpdateStack(up.stack, clean.elided, clean.raw_lines, n + 1).stack, up.pp)
<1>1. PICK v : v = FirstBranchStack[n]
  OBVIOUS
<1>2. PICK at : OnStack(at, pp, n)
  BY DEF NestOK
<1>3. Saves(s, pp, v)
  BY <1>1 DEF NestOK
<1>4. PICK X : X = Saved(T, n)
  OBVIOUS
<1>5. pp \in Seq(X) /\ Len(pp) \in Nat
  BY <1>4
<1> SUFFICES (\E a : OnStack(a, up.pp, n + 1)) /\ Saves(up.stack, up.pp, v) /\ Len(up.pp) \in Nat
  BY <1>1, UpdateFollows
<1>6. CASE IsIf(n + 1)
  <2>1. PICK new : new = [before_if |-> s, before_else |-> <<>>, seen_else |-> FALSE]
    OBVIOUS
  <2>2. new \in X /\ ~new.seen_else
    BY <1>4, <2>1 DEF Saved
  <2>3. up = [stack |-> s, pp |-> Append(pp, new)]
    BY <1>6, <2>1 DEF UpdatePreprocessor, IsIf
  <2>4. (\E more : OnStack(more, Append(pp, new), n + 1)) /\ Saves(s, Append(pp, new), v)
    BY <1>2, <1>3, <1>5, <1>6, <2>2, IfFollows
  <2>5. up.stack = s /\ up.pp = Append(pp, new) /\ Len(up.pp) \in Nat
    BY <1>5, <2>2, <2>3
  <2> QED BY <2>4, <2>5
<1>7. CASE IsElse(n + 1) /\ pp # <<>>
  <2>1. ~IsIf(n + 1)
    BY <1>7 DEF IsIf, IsElse
  <2>2. up = AfterElse(s, pp)
    BY <1>7, <2>1 DEF UpdatePreprocessor, IsIf, IsElse
  <2>3. PICK d \in Nat \ {0} : d = Len(pp)
    BY <1>5, <1>7
  <2>4. PICK b \in Saved(T, n) : b = pp[d]
    BY <2>3
  <2>5. Last(pp) = b
    BY <2>3, <2>4 DEF Last
  <2>6. PICK qq : qq = up.pp
    OBVIOUS
  <2>7. qq = IF b.seen_else THEN pp
             ELSE [pp EXCEPT ![d].seen_else = TRUE, ![d].before_else = s]
    BY <2>2, <2>3, <2>5, <2>6 DEF AfterElse
  <2>8. /\ Len(qq) = d /\ \A r \in 1..(d - 1) : qq[r] = pp[r]
        /\ qq[d].seen_else
        /\ IF b.seen_else THEN qq[d] = b ELSE qq[d].before_else = s
    BY <2>3, <2>4, <2>7 DEF Saved
  <2>9. PICK t : t = up.stack
    OBVIOUS
  <2>10. OnStack(at, qq, n + 1) /\ Saves(t, qq, v)
    BY <1>2, <1>3, <1>5, <1>7, <2>3, <2>4, <2>8, ElseFollows
  <2> QED BY <2>3, <2>6, <2>8, <2>9, <2>10
<1>8. CASE IsEndif(n + 1) /\ pp # <<>>
  <2>1. ~IsIf(n + 1) /\ ~IsElse(n + 1)
    BY <1>8 DEF IsIf, IsElse, IsEndif
  <2>2. up = AfterEndif(s, pp)
    BY <1>8, <2>1 DEF UpdatePreprocessor, IsIf, IsElse, IsEndif
  <2>3. PICK t : t = IF pp[Len(pp)].seen_else THEN pp[Len(pp)].before_else ELSE s
    OBVIOUS
  <2>4. up.stack = t /\ up.pp = Front(pp)
    BY <2>2, <2>3 DEF AfterEndif, Last
  <2>5. (\E less : OnStack(less, Front(pp), n + 1)) /\ Saves(t, Front(pp), v)
    BY <1>2, <1>3, <1>5, <1>8, <2>3, EndifFollows
  <2>6. Len(Front(pp)) \in Nat
    BY <1>5, <1>8 DEF Front
  <2> QED BY <2>4, <2>5, <2>6
<1>9. CASE ~IsIf(n + 1) /\ (IsElse(n + 1) \/ IsEndif(n + 1) => pp = <<>>)
  <2>1. up = [stack |-> s, pp |-> pp]
    BY <1>9 DEF UpdatePreprocessor, IsIf, IsElse, IsEndif
  <2>2. up.stack = s /\ up.pp = pp
    BY <2>1
  <2>3. OnStack(at, pp, n + 1)
    BY <1>2, <1>5, <1>9, PlainLineFollows
  <2> QED BY <1>3, <1>5, <2>2, <2>3
<1> QED BY <1>6, <1>7, <1>8, <1>9

\* The state follows the first branches.
NestingInv ==
    /\ pc \in {"guard", "endif", "lines"} /\ linenum = 1 => stack = <<>> /\ pp_stack = <<>>
    /\ pc = "lines" /\ linenum > 1 =>
          \A n, s, pp : n = linenum - 1 /\ s = stack /\ pp = pp_stack => NestOK(n, s, pp)

\* Before the first line nothing is open.
LEMMA NothingOpen ==
    ASSUME Len(lines) \in Nat
    PROVE  NestOK(0, <<>>, <<>>)
<1>1. PICK at : at = [r \in 1..0 |-> 0]
  OBVIOUS
<1>2. OnStack(at, <<>>, 0)
  BY <1>1 DEF OnStack, Conditionals
<1>3. FirstBranchStack[0] = <<>>
  BY FirstBranchStep
<1> QED BY <1>2, <1>3 DEF NestOK, Saves

\* Every step keeps the state that of the first branches.
LEMMA NestingKept ==
    ASSUME TextInv, NestingInv, [Next]_vars
    PROVE  NestingInv'
<1>1. CASE ProcessLine
  <2>1. /\ pc = "lines" /\ linenum <= Len(lines) /\ linenum' = linenum + 1
        /\ UNCHANGED <<lines, clean>>
        /\ stack' = After.stack /\ pp_stack' = After.pp
    BY <1>1 DEF ProcessLine, CheckLine, UpdateNesting, After
  <2>2. TextOK /\ Len(lines) \in Nat
    BY DEF TextInv, TextOK
  <2>3. PICK n \in Nat : n = linenum - 1 /\ n + 1 = linenum
    BY <2>2 DEF TextOK
  <2>4. PICK s \in Seq(Blocks(Tokens, n)) : s = stack
    BY <2>2, <2>3 DEF TextOK
  <2>5. PICK pp \in Seq(Saved(Tokens, n)) : pp = pp_stack
    BY <2>2, <2>3 DEF TextOK
  <2>6. NestOK(n, s, pp)
    <3>1. CASE n = 0
      <4>1. s = <<>> /\ pp = <<>>
        BY <2>1, <2>3, <2>4, <2>5, <3>1 DEF NestingInv
      <4> QED BY <2>2, <3>1, <4>1, NothingOpen
    <3>2. CASE n # 0
      BY <2>1, <2>3, <2>4, <2>5, <3>2 DEF NestingInv
    <3> QED BY <3>1, <3>2
  <2>7. PICK up : up = UpdatePreprocessor(s, pp, clean.elided[n + 1])
    OBVIOUS
  <2>8. NestOK(n + 1, UpdateStack(up.stack, clean.elided, clean.raw_lines, n + 1).stack, up.pp)
    BY <2>1, <2>2, <2>3, <2>6, <2>7, LineFollows
  <2>9. /\ stack' = UpdateStack(up.stack, clean.elided, clean.raw_lines, n + 1).stack
        /\ pp_stack' = up.pp
    BY <2>1, <2>3, <2>4, <2>5, <2>7 DEF After, Updated
  <2>10. \A m, t, qq : m = linenum' - 1 /\ t = stack' /\ qq = pp_stack' => NestOK(m, t, qq)'
    <3> SUFFICES ASSUME NEW m, NEW t, NEW qq, m = linenum' - 1, t = stack', qq = pp_stack'
                 PROVE  NestOK(m, t, qq)'
      OBVIOUS
    <3>1. m = n + 1
      BY <2>1, <2>3
    <3>2. NestOK(m, t, qq)
      BY <2>8, <2>9, <3>1
    <3> QED BY <2>1, <3>2, ConditionalsKept
  <2>11. linenum' # 1
    BY <2>1, <2>3
  <2> QED BY <2>10, <2>11 DEF NestingInv
<1>2. CASE pc' \notin {"guard", "endif", "lines"}
  BY <1>2 DEF NestingInv
<1>3. CASE CleanseText
  <2>1. pc = "comments" /\ UNCHANGED <<linenum, stack, pp_stack>>
    BY <1>3 DEF CleanseText, componentVars, nestingVars
  <2>2. linenum = 1 /\ stack = <<>> /\ pp_stack = <<>>
    BY <2>1 DEF TextInv, TextOK, EarlyStages
  <2> QED BY <2>1, <2>2 DEF NestingInv
<1>4. CASE CheckHeaderGuardIfndef \/ CheckHeaderGuardEndif
  <2>1. pc \in {"guard", "endif"} /\ UNCHANGED <<linenum, stack, pp_stack>>
    BY <1>4 DEF CheckHeaderGuardIfndef, CheckHeaderGuardEndif, componentVars, nestingVars, fileVars
  <2>2. linenum = 1 /\ stack = <<>> /\ pp_stack = <<>>
    BY <2>1 DEF TextInv, TextOK, NestingInv
  <2> QED BY <2>1, <2>2 DEF NestingInv
<1>5. CASE UNCHANGED vars
  <2>1. UNCHANGED <<pc, linenum, stack, pp_stack, lines, clean>>
    BY <1>5 DEF vars, componentVars, nestingVars, fileVars
  <2>2. \A n, s, pp : NestOK(n, s, pp)' <=> NestOK(n, s, pp)
    BY <2>1, ConditionalsKept
  <2> QED BY <2>1, <2>2 DEF NestingInv
<1>6. CASE Step
  BY <1>2, <1>6 DEF Step, ParseArguments, RefuseArguments, StartFile, ReadConfig, SkipDirectory,
       IgnoreExcluded, ApplyFilters, RefuseFilters, SkipFile, BeginFileData, Finish, EndFile, Exit, GoUp
<1>7. CASE CheckForCopyright \/ ProcessGlobalSuppressions \/ EndFileData \/ FinishFile
  BY <1>2, <1>7 DEF CheckForCopyright, ProcessGlobalSuppressions, EndFileData, FinishFile, EndFile
<1> QED BY <1>1, <1>3, <1>4, <1>5, <1>6, <1>7 DEF Next, Done, TextStep

\* However deeply conditionals are nested and whatever blocks their branches open and close,
\* outside of other branches the open blocks are those of the text without these branches.
THEOREM LintNestingFollowsFirstBranch == Spec => []NestingFollowsFirstBranch
<1>1. Init => NestingInv
  BY DEF Init, NestingInv
<1>2. TextInv /\ NestingInv /\ [Next]_vars => NestingInv'
  BY NestingKept
<1>3. TextInv /\ NestingInv => NestingFollowsFirstBranch
  <2> SUFFICES ASSUME TextInv, NestingInv, pc = "lines", linenum > 1, ~InLaterBranch(linenum - 1)
               PROVE  stack = FirstBranchStack[linenum - 1]
    BY DEF NestingFollowsFirstBranch
  <2>1. PICK n \in Nat \ {0} : n = linenum - 1
    BY DEF TextInv, TextOK
  <2>2. PICK pp : pp = pp_stack
    OBVIOUS
  <2>3. NestOK(n, stack, pp) /\ Len(pp) \in Nat
    BY <2>1, <2>2 DEF NestingInv, TextInv, TextOK
  <2>4. NoElse(pp)
    BY <2>1, <2>3, LaterIs DEF NestOK
  <2> QED BY <2>1, <2>3, <2>4 DEF NestOK, Saves
<1> QED BY <1>1, <1>2, <1>3, FiltersInvariant, SearchInvariant, IncludeInvariant, TextInvariant, PTL DEF Spec

=============================================================================
