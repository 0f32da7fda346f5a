--------------------------- MODULE CleansedLines ---------------------------
(***************************************************************************)
(* How the linter (cpplint.py) takes comments and strings out of a text    *)
(* before it looks at the code.  A text is a sequence of lines and a line  *)
(* a sequence of tokens: a quote, a comment mark, R"( and )" which begin   *)
(* and end a raw string, or anything else.  Escaped characters and digit   *)
(* separators are part of the token they are in; all raw strings have the  *)
(* empty delimiter.  Line k of a text is the line the linter numbers k:    *)
(* the marker lines it adds before and after the text are left out.        *)
(***************************************************************************)
EXTENDS Naturals, Sequences, SequencesExt

Quote == "\""
RawBegin == "R\"("
RawEnd == ")\""

Words(line) == SelectSeq(line, LAMBDA t : t # " ")

Count(line, token) == Cardinality({i \in DOMAIN line : line[i] = token})

\* Where a token first is in a line, or from a position on; 0 for nowhere.
Find(line, token) == SelectInSeq(line, LAMBDA t : t = token)
FindFrom(line, token, from) == SelectInSubSeq(line, from, Len(line), LAMBDA t : t = token)

\* The first n tokens, and what follows them.
Head_(line, n) == SubSeq(line, 1, n)
Tail_(line, n) == SubSeq(line, n + 1, Len(line))

-----------------------------------------------------------------------------
(***************************************************************************)
(* C-style comments over several lines.  Only a comment that begins a line *)
(* and only an end that ends one are seen.                                 *)
(***************************************************************************)
StartsComment(line) ==
    LET w == Words(line)
    IN w # <<>> /\ w[1] = "/*" /\ FindFrom(w, "*/", 2) = 0

EndsComment(line) ==
    LET w == Words(line) IN w # <<>> /\ Last(w) = "*/"

FindNextMultiLineCommentStart(lines, from) ==
    SelectInSubSeq(lines, from, Len(lines), StartsComment)

FindNextMultiLineCommentEnd(lines, from) ==
    SelectInSubSeq(lines, from, Len(lines), EndsComment)

\* Comment lines become /**/, so that they are not blank.
RemoveMultiLineCommentsFromRange(lines, range) ==
    [n \in DOMAIN lines |-> IF n \in range THEN <<"/*", "*/">> ELSE lines[n]]

\* The text without such comments, and the line reported for one that does not end (or 0).
\* Each search goes on behind the last comment, so all of them can be removed in the end.
RemoveMultiLineComments(lines) ==
    LET found[from \in 1..(Len(lines) + 1)] ==
            LET begin == FindNextMultiLineCommentStart(lines, from)
                end   == FindNextMultiLineCommentEnd(lines, begin)
            IN CASE begin = 0             -> [range |-> {}, unterminated |-> 0]
                 [] begin > 0 /\ end = 0  -> [range |-> {}, unterminated |-> begin + 1]
                 [] OTHER -> [found[end + 1] EXCEPT !.range = @ \cup (begin..end)]
    IN [lines |-> RemoveMultiLineCommentsFromRange(lines, found[1].range),
        unterminated |-> found[1].unterminated]

-----------------------------------------------------------------------------
(***************************************************************************)
(* Raw strings, on one line or over several, become "".                    *)
(***************************************************************************)
\* The quote that the tokens leave open, or "none".
OpenQuote(tokens) ==
    FoldLeft(LAMBDA q, t :
                 CASE q = "none" /\ t \in {Quote, "'"}          -> t
                   [] q = "none" /\ t = RawEnd                  -> Quote
                   [] q = "'" /\ t = "'"                        -> "none"
                   [] q = Quote /\ t \in {Quote, RawEnd}        -> "none"
                   [] OTHER                                     -> q,
             "none", tokens)

InLineComment(tokens) ==
    \E i \in DOMAIN tokens : tokens[i] = "//" /\ OpenQuote(Head_(tokens, i - 1)) = "none"

\* Replaces the first raw string of a line; open says that it goes on.
ReplaceRawString(r) ==
    LET line   == r.line
        begin  == Find(line, RawBegin)
        before == Head_(line, begin - 1)
        end    == FindFrom(line, RawEnd, begin)
    IN CASE begin = 0               -> r
         [] begin > 0 /\ InLineComment(before)
                                    -> r
         [] begin > 0 /\ ~InLineComment(before) /\ end = 0
                                    -> [line |-> before \o <<Quote, Quote>>, open |-> TRUE]
         [] OTHER -> [r EXCEPT !.line = before \o <<Quote, Quote>> \o Tail_(line, end)]

\* Replaces all of them; there are no more than marks that begin one.
CleanseRawLine(line) ==
    LET replaced[k \in 0..Count(line, RawBegin)] ==
            IF k = 0 THEN [line |-> line, open |-> FALSE] ELSE ReplaceRawString(replaced[k - 1])
    IN replaced[Count(line, RawBegin)]

\* Variant: what follows the end of a raw string on its line is dropped.
Mutant_CleanseOpenRawLine(line) ==
    [line |-> <<Quote, Quote>>, open |-> RawEnd \notin ToSet(line)]

\* A line inside a raw string: what follows its end is code again.
CleanseOpenRawLine(line) ==
    LET end == Find(line, RawEnd)
    IN IF end = 0 THEN [line |-> <<Quote, Quote>>, open |-> TRUE]
       ELSE CleanseRawLine(<<Quote, Quote>> \o Tail_(line, end))

CleanseRawStrings(raw_lines) ==
    LET cleansed[n \in 0..Len(raw_lines)] ==
            IF n = 0 THEN [line |-> <<>>, open |-> FALSE]
            ELSE IF cleansed[n - 1].open THEN CleanseOpenRawLine(raw_lines[n])
            ELSE CleanseRawLine(raw_lines[n])
    IN [n \in DOMAIN raw_lines |-> cleansed[n].line]

-----------------------------------------------------------------------------
\* The quotes of a line, those of raw string marks that begin no raw string included.
QuoteCount(line) == Len(SelectSeq(line, LAMBDA t : t \in {Quote, RawBegin, RawEnd}))

\* How often '"' occurs, overlapping occurrences counted once.
QuotedQuotes(line) ==
    FoldLeftDomain(LAMBDA r, i : IF i >= r.next /\ i + 2 <= Len(line)
                                    /\ SubSeq(line, i, i + 2) = <<"'", Quote, "'">>
                                 THEN [n |-> r.n + 1, next |-> i + 3] ELSE r,
                   [n |-> 0, next |-> 1], line).n

IsCppString(line) == (QuoteCount(line) + QuotedQuotes(line)) % 2 = 1

\* Removes the first comment of a line.
RemoveCComment(line) ==
    LET begin == Find(line, "/*")
        end   == FindFrom(line, "*/", begin)
    IN IF begin = 0 \/ end = 0 THEN line ELSE Head_(line, begin - 1) \o Tail_(line, end)

\* Removes all of them; there are no more than marks that begin one.
RemoveCComments(line) ==
    LET removed[k \in 0..Count(line, "/*")] ==
            IF k = 0 THEN line ELSE RemoveCComment(removed[k - 1])
    IN removed[Count(line, "/*")]

\* Only the first // of the line is considered.
CleanseComments(line) ==
    LET comment == Find(line, "//")
    IN RemoveCComments(IF comment > 0 /\ ~IsCppString(Head_(line, comment - 1))
                       THEN Head_(line, comment - 1) ELSE line)

\* Collapses the first string or character of what is left of the line (elided).
CollapseQuote(r) ==
    LET first  == SelectInSeq(r.elided, LAMBDA t : t \in {Quote, "'"})
        second == FindFrom(r.elided, r.elided[first], first + 1)
    IN IF first = 0 \/ second = 0 THEN r
       ELSE [collapsed |-> r.collapsed \o Head_(r.elided, first) \o <<r.elided[first]>>,
             elided    |-> Tail_(r.elided, second)]

\* Collapses all of them; there are no more than the line has tokens.
CollapseQuotes(line) ==
    LET loop[k \in 0..Len(line)] ==
            IF k = 0 THEN [collapsed |-> <<>>, elided |-> line] ELSE CollapseQuote(loop[k - 1])
        end == loop[Len(line)]
    IN end.collapsed \o end.elided

\* Raw string marks that are left are ordinary tokens; #include "..." stays as it is.
CollapseStrings(line) ==
    IF line # <<>> /\ line[1] = "#include" THEN line
    ELSE CollapseQuotes(FlattenSeq([i \in DOMAIN line |->
             CASE line[i] = RawBegin -> <<"R", Quote, "(">>
               [] line[i] = RawEnd   -> <<")", Quote>>
               [] OTHER              -> <<line[i]>>]))

-----------------------------------------------------------------------------
\* The copies of the lines that the checks use; plain are the lines without raw strings.
CopiesOf(lines, plain) ==
    [raw_lines |-> lines,
     lines_without_raw_strings |-> plain,
     lines  |-> [n \in DOMAIN plain |-> CleanseComments(plain[n])],
     elided |-> [n \in DOMAIN plain |-> CleanseComments(CollapseStrings(plain[n]))]]

CleansedLines(lines) == CopiesOf(lines, CleanseRawStrings(lines))

\* What is warned about because the linter does not do well with it.
CheckForMultilineCommentsAndStrings(line) ==
    (IF Count(line, "/*") > Count(line, "*/") THEN {"readability/multiline_comment"} ELSE {})
    \cup (IF Count(line, Quote) % 2 = 1 THEN {"readability/multiline_string"} ELSE {})
=============================================================================
