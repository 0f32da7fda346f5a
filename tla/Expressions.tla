---------------------------- MODULE Expressions ----------------------------
(***************************************************************************)
(* How the linter (cpplint.py) matches brackets.  A line is a sequence of  *)
(* tokens: a bracket, ";", "-", "=", " " (white space) or a word such as   *)
(* "operator".  A text is a sequence of lines without comments or strings  *)
(* (CleansedLines.elided).  Lines and positions start at 1.                *)
(*                                                                         *)
(* "<" and ">" are brackets or operators, and the linter guesses which.    *)
(***************************************************************************)
EXTENDS Naturals, Sequences, SequencesExt

Openers == {"(", "[", "{"}
Closers == {")", "]", "}"}

Matches(open, close) ==
    <<open, close>> \in {<<"(", ")">>, <<"[", "]">>, <<"{", "}">>}

NotFound == [line |-> 0, pos |-> 0]

IsTop(stack, token) == stack # <<>> /\ Last(stack) = token

\* The stack without the pending angle brackets at its top: they were operators.
DropAngles(stack, angle) ==
    SubSeq(stack, 1, SelectLastInSeq(stack, LAMBDA t : t # angle))

\* The regular expression \boperator\s*$ on the first n tokens.
EndsInOperator(line, n) ==
    LET word == SelectLastInSubSeq(line, 1, n, LAMBDA t : t # " ")
    IN word > 0 /\ line[word] = "operator"

-----------------------------------------------------------------------------
(***************************************************************************)
(* A scan is "open" while it looks for the bracket, "found" at position    *)
(* pos, or has "failed".  skip is set where the code steps over the next   *)
(* token.                                                                  *)
(***************************************************************************)
OpenScan(stack) == [state |-> "open", stack |-> stack, pos |-> 0, skip |-> FALSE]

Push(scan, token) == [scan EXCEPT !.stack = Append(@, token)]

\* Going on with the given stack; nothing is left to close when it is empty.
Continue(scan, stack) ==
    [scan EXCEPT !.stack = stack,
                 !.state = IF stack = <<>> THEN "failed" ELSE "open"]

\* Closing the bracket at the top of the stack; the scan ends with the last one.
Close(scan, stack, pos) ==
    [scan EXCEPT !.stack = Front(stack), !.pos = pos,
                 !.state = IF Len(stack) = 1 THEN "found" ELSE "open"]

Fail(scan) == [scan EXCEPT !.state = "failed"]

\* Variant: a pending "<" is left on the stack at a closing bracket.
Mutant_EndAtCloser(scan, line, i) ==
    IF Matches(Last(scan.stack), line[i])
    THEN Close(scan, scan.stack, i + 1) ELSE Fail(scan)

\* A closing bracket: pending "<" were operators.
EndAtCloser(scan, line, i) ==
    LET stack == DropAngles(scan.stack, "<")
    IN IF stack # <<>> /\ Matches(Last(stack), line[i])
       THEN Close(scan, stack, i + 1) ELSE Fail(scan)

\* "<": the second one of a left shift takes back the first one.
EndAtLess(scan, line, i) ==
    IF i > 1 /\ line[i - 1] = "<"
    THEN IF IsTop(scan.stack, "<") THEN Continue(scan, Front(scan.stack)) ELSE scan
    ELSE IF EndsInOperator(line, i - 1) THEN scan ELSE Push(scan, "<")

\* ">", unless it belongs to -> or to the name of an operator function.
EndAtGreater(scan, line, i) ==
    IF /\ i > 1 => line[i - 1] # "-" /\ ~EndsInOperator(line, i - 2)
       /\ IsTop(scan.stack, "<")
    THEN Close(scan, scan.stack, i + 1) ELSE scan

EndAtSemicolon(scan) == Continue(scan, DropAngles(scan.stack, "<"))

EndStep(scan, line, i) ==
    CASE scan.state # "open"    -> scan
      [] line[i] \in Openers    -> Push(scan, line[i])
      [] line[i] = "<"          -> EndAtLess(scan, line, i)
      [] line[i] \in Closers    -> EndAtCloser(scan, line, i)
      [] line[i] = ">"          -> EndAtGreater(scan, line, i)
      [] line[i] = ";"          -> EndAtSemicolon(scan)
      [] OTHER                  -> scan

FindEndOfExpressionInLine(line, startpos, stack) ==
    FoldLeftDomain(LAMBDA scan, i : IF i < startpos THEN scan ELSE EndStep(scan, line, i),
                   OpenScan(stack), line)

\* The lines after the first are searched while something is left to close.
EndInText(text, first, pos) ==
    FoldLeftDomain(
        LAMBDA r, n :
            IF n < first \/ r.scan.state # "open" \/ (n > first /\ r.scan.stack = <<>>) THEN r
            ELSE [line |-> n, scan |-> FindEndOfExpressionInLine(
                                           text[n], IF n = first THEN pos ELSE 1, r.scan.stack)],
        [line |-> first, scan |-> OpenScan(<<>>)], text)

CanOpen(line, pos) ==
    \/ line[pos] \in Openers
    \/ line[pos] = "<" /\ (pos < Len(line) => line[pos + 1] \notin {"<", "="})

\* The place just past the bracket that closes the one at pos, or NotFound.
CloseExpression(text, linenum, pos) ==
    LET end == EndInText(text, linenum, pos)
    IN IF CanOpen(text[linenum], pos) /\ end.scan.state = "found"
       THEN [line |-> end.line, pos |-> end.scan.pos] ELSE NotFound

-----------------------------------------------------------------------------
\* Variant: a pending ">" is left on the stack at an opening bracket.
Mutant_StartAtOpener(scan, line, i) ==
    IF Matches(line[i], Last(scan.stack)) THEN Close(scan, scan.stack, i) ELSE Fail(scan)

\* An opening bracket: pending ">" were operators.
StartAtOpener(scan, line, i) ==
    LET stack == DropAngles(scan.stack, ">")
    IN IF stack # <<>> /\ Matches(line[i], Last(stack))
       THEN Close(scan, stack, i) ELSE Fail(scan)

\* ">=" between spaces.
IsGreaterOrEqual(line, i) ==
    i + 2 <= Len(line) /\ SubSeq(line, i - 1, i + 2) = <<" ", ">", "=", " ">>

StartAtGreater(scan, line, i) ==
    IF i > 1 /\ (line[i - 1] = "-" \/ IsGreaterOrEqual(line, i) \/ EndsInOperator(line, i - 1))
    THEN [scan EXCEPT !.skip = TRUE] ELSE Push(scan, ">")

StartAtLess(scan, line, i) ==
    IF i > 1 /\ line[i - 1] = "<" THEN [scan EXCEPT !.skip = TRUE]
    ELSE IF IsTop(scan.stack, ">") THEN Close(scan, scan.stack, i) ELSE scan

StartStep(scan, line, i) ==
    CASE scan.state # "open"    -> scan
      [] scan.skip              -> [scan EXCEPT !.skip = FALSE]
      [] line[i] \in Closers    -> Push(scan, line[i])
      [] line[i] = ">"          -> StartAtGreater(scan, line, i)
      [] line[i] = "<"          -> StartAtLess(scan, line, i)
      [] line[i] \in Openers    -> StartAtOpener(scan, line, i)
      [] line[i] = ";"          -> Continue(scan, DropAngles(scan.stack, ">"))
      [] OTHER                  -> scan

FindStartOfExpressionInLine(line, endpos, stack) ==
    FoldRightDomain(LAMBDA i, scan : IF i > endpos THEN scan ELSE StartStep(scan, line, i),
                    line, OpenScan(stack))

StartInText(text, first, pos) ==
    FoldRightDomain(
        LAMBDA n, r :
            IF n > first \/ r.scan.state # "open" \/ (n < first /\ r.scan.stack = <<>>) THEN r
            ELSE [line |-> n,
                  scan |-> FindStartOfExpressionInLine(
                               text[n], IF n = first THEN pos ELSE Len(text[n]), r.scan.stack)],
        text, [line |-> first, scan |-> OpenScan(<<>>)])

\* The place of the bracket that the one at pos closes, or NotFound.
ReverseCloseExpression(text, linenum, pos) ==
    LET start == StartInText(text, linenum, pos)
    IN IF text[linenum][pos] \in Closers \cup {">"} /\ start.scan.state = "found"
       THEN [line |-> start.line, pos |-> start.scan.pos] ELSE NotFound

-----------------------------------------------------------------------------
\* Variant: any closing bracket closes.
Mutant_GetTextInside(line, pos) ==
    LET Step(scan, i) ==
            CASE scan.state # "open" \/ i < pos -> scan
              [] line[i] \in Openers            -> Push(scan, line[i])
              [] line[i] \in Closers            -> Close(scan, scan.stack, i)
              [] OTHER                          -> scan
        scan == FoldLeftDomain(Step, OpenScan(<<>>), line)
    IN [found |-> scan.state = "found",
        text  |-> IF scan.state = "found" THEN SubSeq(line, pos + 1, scan.pos - 1) ELSE <<>>]

\* _GetTextInside: what is between the bracket at pos and its closing bracket, in one
\* line; found is FALSE for None.  It knows nothing of "<" and ">".
GetTextInside(line, pos) ==
    LET Step(scan, i) ==
            CASE scan.state # "open" \/ i < pos                  -> scan
              [] line[i] \in Openers                             -> Push(scan, line[i])
              [] line[i] \in Closers /\ Matches(Last(scan.stack), line[i])
                                                                 -> Close(scan, scan.stack, i)
              [] line[i] \in Closers                             -> Fail(scan)
              [] OTHER                                           -> scan
        scan == FoldLeftDomain(Step, OpenScan(<<>>), line)
    IN [found |-> scan.state = "found",
        text  |-> IF scan.state = "found" THEN SubSeq(line, pos + 1, scan.pos - 1) ELSE <<>>]

-----------------------------------------------------------------------------
\* NestingState.InTemplateArgumentList: the first token from pos on that tells.
TellsTemplate == {"{", "}", ";", "=", "[", "]", ".", "<", ">"}

InTemplateArgumentList(text, linenum, pos) ==
    LET look[at \in (1..Len(text)) \X Nat] ==
            LET line == text[at[1]]
                tell == SelectInSubSeq(line, at[2], Len(line), LAMBDA t : t \in TellsTemplate)
                next == CloseExpression(text, at[1], tell)
            IN CASE at[2] > Len(line) \/ tell = 0
                                   -> at[1] < Len(text) /\ look[<<at[1] + 1, 1>>]
                 [] line[tell] \in {"{", "}", ";"} -> FALSE
                 [] line[tell] # "<"               -> TRUE
                 [] OTHER -> next # NotFound /\ look[<<next.line, next.pos>>]
    IN look[<<linenum, pos>>]
=============================================================================
