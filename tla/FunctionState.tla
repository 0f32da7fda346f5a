--------------------------- MODULE FunctionState ---------------------------
(***************************************************************************)
(* The linter's count of the lines of a function body (_FunctionState and  *)
(* CheckForFunctionLengths in cpplint.py).  It works on lines without      *)
(* comments; only unindented functions are followed.  The more lines, the  *)
(* higher the confidence of the error.                                     *)
(***************************************************************************)
EXTENDS Naturals, Sequences, SequencesExt, ErrorRecords

CONSTANTS
    NormalTrigger, TestTrigger,     \* _NORMAL_TRIGGER (250) and _TEST_TRIGGER (400)
    TestNames,                      \* TEST, TEST_F
    MacroNames                      \* other names in capitals, which are no functions

ASSUME TriggersAssumption == NormalTrigger \in Nat \ {0} /\ TestTrigger \in Nat \ {0}

VARIABLES in_a_function, lines_in_function, current_function

functionVars == <<in_a_function, lines_in_function, current_function>>

InitFunction == in_a_function = FALSE /\ lines_in_function = 0 /\ current_function = ""

-----------------------------------------------------------------------------
\* The position of the "(" after which a line may begin a function, or 0.
ParameterList(line) ==
    LET at == SelectInSeq(line, LAMBDA t : t \in {"(", ")", "{", "}", ";", ":", "<", ">", "=", ","})
    IN IF at > 1 /\ line[1] # " " /\ line[at] = "(" THEN at ELSE 0

FunctionName(line) == line[ParameterList(line) - 1]

StartsFunction(line) == ParameterList(line) > 0 /\ FunctionName(line) \notin MacroNames

\* The line, from n on, that decides whether the function has a body; 0 for none.
BodyLine(lines, n) ==
    SelectInSubSeq(lines, n, Len(lines), LAMBDA l : \E i \in DOMAIN l : l[i] \in {";", "}", "{"})

\* ";" and "}" are looked for first: declarations and trivial functions are ignored.
HasBody(lines, n) ==
    LET at == BodyLine(lines, n)
    IN at > 0 /\ \A i \in DOMAIN lines[at] : lines[at][i] \notin {";", "}"}

EndsFunction(line) == SelectSeq(line, LAMBDA t : t # " ") = <<"}">> /\ line[1] = "}"

BlankLine(line) == \A i \in DOMAIN line : line[i] = " "

-----------------------------------------------------------------------------
BaseTrigger == IF current_function \in TestNames THEN TestTrigger ELSE NormalTrigger

\* Variant: the confidence is computed from the number of lines over the normal trigger by
\* dividing what is above it.
Mutant_ErrorLevel(lines, base) ==
    LET levels == {k \in 0..5 : 2^k <= (lines - base) \div base}
    IN IF levels = {} THEN 0 ELSE CHOOSE k \in levels : \A j \in levels : j <= k

\* The logarithm of the quotient, at most 5.
ErrorLevel(lines, base) ==
    LET levels == {k \in 0..5 : 2^k <= lines \div base}
    IN CHOOSE k \in levels : \A j \in levels : j <= k

TooLong(verbosity) == lines_in_function > BaseTrigger * 2^verbosity

\* Check
LengthErrors(n, verbosity) ==
    IF in_a_function /\ TooLong(verbosity)
    THEN <<Err(n, "readability/fn_size", ErrorLevel(lines_in_function, BaseTrigger))>> ELSE <<>>

FunctionErrors(lines, n, verbosity) ==
    CASE StartsFunction(lines[n])  -> ErrIf(BodyLine(lines, n) = 0, n, "readability/fn_size", 5)
      [] ~StartsFunction(lines[n]) /\ EndsFunction(lines[n]) -> LengthErrors(n, verbosity)
      [] OTHER                     -> <<>>

Begin(name) == in_a_function' = TRUE /\ lines_in_function' = 0 /\ current_function' = name

CheckForFunctionLengths(lines, n) ==
    LET line == lines[n]
    IN \/ StartsFunction(line) /\ HasBody(lines, n) /\ Begin(FunctionName(line))
       \/ StartsFunction(line) /\ ~HasBody(lines, n) /\ UNCHANGED functionVars
       \/ /\ ~StartsFunction(line) /\ EndsFunction(line)
          /\ in_a_function' = FALSE /\ UNCHANGED <<lines_in_function, current_function>>
       \/ /\ ~StartsFunction(line) /\ ~EndsFunction(line)
          /\ lines_in_function' = IF in_a_function /\ ~BlankLine(line)
                                  THEN lines_in_function + 1 ELSE lines_in_function
          /\ UNCHANGED <<in_a_function, current_function>>
=============================================================================
