------------------------------ MODULE LintText ------------------------------
(***************************************************************************)
(* The linter's reading of a text, checked on every text of bounded size   *)
(* against independent definitions of what C++ says.  A behaviour types a  *)
(* text token by token, over one of the given vocabularies; at every text  *)
(* the linter's bracket matching (Expressions) and its removal of comments *)
(* and strings (CleansedLines) are compared with the definitions below.    *)
(***************************************************************************)
EXTENDS Expressions, CleansedLines, FiniteSets

CONSTANTS
    Vocabularies,       \* the sets of tokens that texts are written in
    MaxTokens,          \* bound on the tokens of a text
    MaxLines            \* bound on its lines

VARIABLES
    vocabulary,
    text

vars == <<vocabulary, text>>

Init == vocabulary \in Vocabularies /\ text = << <<>> >>

TypeToken ==
    /\ Len(FlattenSeq(text)) < MaxTokens
    /\ \E t \in vocabulary : text' = [text EXCEPT ![Len(text)] = Append(@, t)]
    /\ UNCHANGED vocabulary

\* Blank lines are left out: both readings skip them.
TypeNewLine ==
    /\ Len(text) < MaxLines /\ Last(text) # <<>>
    /\ text' = Append(text, <<>>)
    /\ UNCHANGED vocabulary

Next == TypeToken \/ TypeNewLine

Spec == Init /\ [][Next]_vars

-----------------------------------------------------------------------------
(***************************************************************************)
(* Reference: a sequence of brackets is balanced when deleting neighbours  *)
(* that match, again and again, leaves nothing.                            *)
(***************************************************************************)
Brackets(tokens) == SelectSeq(tokens, LAMBDA t : t \in Openers \cup Closers)

RECURSIVE Reduces(_)
Reduces(b) ==
    \/ b = <<>>
    \/ \E i \in 1..(Len(b) - 1) :
          /\ Matches(b[i], b[i + 1])
          /\ \A j \in 1..(i - 1) : ~Matches(b[j], b[j + 1])
          /\ Reduces(SubSeq(b, 1, i - 1) \o SubSeq(b, i + 2, Len(b)))

\* The number of tokens of the text before line n.
Before(n) == Len(FlattenSeq(SubSeq(text, 1, n - 1)))

\* The places of the text, and the place after the closing bracket of the one at n, pos.
Places == {p \in [line : 1..MaxLines, pos : 1..MaxTokens] :
              p.line <= Len(text) /\ p.pos <= Len(text[p.line])}

Between(p, q) ==
    SubSeq(FlattenSeq(text), Before(p.line) + p.pos, Before(q.line) + q.pos)

IsMatch(p, q) ==
    /\ Between(p, q) # <<>>
    /\ text[q.line][q.pos] \in Closers
    /\ Reduces(Brackets(Between(p, q)))

\* A bracket is closed where the text between is balanced, whatever "<", ">" and ";" are in
\* between; when it is never closed, or closed by a bracket of another kind, nothing is
\* found (FindEndOfExpressionInLine, CloseExpression: the guesses about "<" must not leak).
CloseFindsTheMatch ==
    \A p \in Places : text[p.line][p.pos] \in Openers =>
        LET end     == CloseExpression(text, p.line, p.pos)
            matches == {q \in Places : IsMatch(p, q)}
        IN IF matches = {} THEN end = NotFound
           ELSE \E q \in matches :
                   /\ end = [line |-> q.line, pos |-> q.pos + 1]
                   /\ \A r \in matches : Len(Between(p, q)) <= Len(Between(p, r))

\* Going back from a closing bracket leads to the bracket it closes: the two searches, which
\* are separate code with separate guesses about angle brackets, agree.
ReverseIsInverse ==
    \A p \in Places :
        LET end == CloseExpression(text, p.line, p.pos)
        IN text[p.line][p.pos] \in Openers /\ end # NotFound =>
              ReverseCloseExpression(text, end.line, end.pos - 1) = p

\* _GetTextInside and CloseExpression, two implementations of the same search, agree on what
\* a bracket encloses on its line.
TextInsideAgrees ==
    \A p \in Places : text[p.line][p.pos] \in Openers =>
        LET inside == GetTextInside(text[p.line], p.pos)
            end    == CloseExpression(<<text[p.line]>>, 1, p.pos)
        IN /\ inside.found <=> end # NotFound
           /\ inside.found => inside.text = SubSeq(text[p.line], p.pos + 1, end.pos - 2)

-----------------------------------------------------------------------------
(***************************************************************************)
(* Reference: the lexical structure of C++.  mode is "code" or what the    *)
(* next token is part of; ok becomes FALSE for a text that is not C++, or  *)
(* that no token of this vocabulary can spell.  plain becomes FALSE where  *)
(* the linter is known to go wrong without a word: a quote mark in a       *)
(* comment, "/*" in a raw string, and code after the end of a comment that *)
(* began on an earlier line.                                               *)
(***************************************************************************)
QuoteMarks == {Quote, "'", RawBegin, RawEnd}

LexToken(s, t) ==
    CASE s.mode = "//"                             -> [s EXCEPT !.plain = @ /\ t \notin QuoteMarks]
      [] s.mode = "/*" /\ t = "*/"                 -> [s EXCEPT !.mode = "code"]
      [] s.mode = "/*"                             -> [s EXCEPT !.plain = @ /\ t \notin QuoteMarks]
      [] s.mode = RawBegin /\ t = RawEnd           -> [s EXCEPT !.mode = "code"]
      [] s.mode = RawBegin                         -> [s EXCEPT !.plain = @ /\ t # "/*"]
      [] s.mode = Quote /\ t \in {Quote, RawEnd}   -> [s EXCEPT !.mode = "code"]
      [] s.mode = "'" /\ t = "'"                   -> [s EXCEPT !.mode = "code"]
      [] s.mode \in {Quote, "'"}                   -> [s EXCEPT !.ok = @ /\ t # RawBegin]
      [] t \in {"//", "/*", Quote, "'", RawBegin}  -> [s EXCEPT !.mode = t]
      [] OTHER -> [s EXCEPT !.ok = @ /\ t \notin {"*/", RawEnd}, !.code = Append(@, t)]

LexLine(s, line) ==
    LET end == FoldLeft(LexToken, [s EXCEPT !.code = <<>>], line)
    IN [end EXCEPT !.lines = Append(@, end.code),
                   !.ok = @ /\ end.mode \notin {Quote, "'"},
                   !.plain = @ /\ (s.mode = "/*" /\ "*/" \in ToSet(line)
                              => SelectInSeq(line, LAMBDA t : t = "*/") = Len(line)),
                   !.mode = IF @ = "//" THEN "code" ELSE @]

Lex(lines) ==
    LET start == [mode |-> "code", ok |-> TRUE, plain |-> TRUE, code |-> <<>>, lines |-> <<>>]
        end   == FoldLeft(LexLine, start, lines)
    IN [end EXCEPT !.ok = @ /\ end.mode = "code"]

CodeTokens(line) == SelectSeq(line, LAMBDA t : t \notin {Quote, "'"})

Cleansed == CleansedLines(RemoveMultiLineComments(text).lines).elided

Complaints ==
    RemoveMultiLineComments(text).unterminated > 0
    \/ \E n \in DOMAIN text : CheckForMultilineCommentsAndStrings(Cleansed[n]) # {}

\* In a C++ text that is plain, the linter sees exactly the code of each line, or it complains
\* about a comment or string it does not do well with: the passes over raw strings, strings and
\* comments (CleanseRawStrings, _CollapseStrings, CleanseComments) do not mislead one another.
ElidedIsCode ==
    Lex(text).ok /\ Lex(text).plain =>
        Complaints \/ \A n \in DOMAIN text : CodeTokens(Cleansed[n]) = Lex(text).lines[n]
=============================================================================
