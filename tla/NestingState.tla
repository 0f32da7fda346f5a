---------------------------- MODULE NestingState ----------------------------
(***************************************************************************)
(* The linter's stack of open blocks (NestingState in cpplint.py), the     *)
(* stacks it saves at preprocessor conditionals, and the checks that use   *)
(* them.  A block is a record; parens counts its open parentheses, asm its *)
(* place in inline assembly, and seen says whether its "{" has been read.  *)
(*                                                                         *)
(* Everything works on the elided lines of a file (see CleansedLines);     *)
(* raw are its lines with the comments.  Update is split into pure steps   *)
(* on a stack, so that the effect of a text can also be written as a fold. *)
(***************************************************************************)
EXTENDS Integers, Sequences, SequencesExt, CleansedLines, Expressions, ErrorRecords

CONSTANT LongNamespace      \* lines from which a namespace needs a comment at its end (10)

VARIABLES
    stack,                  \* the open blocks
    pp_stack,               \* per open conditional, [before_if, before_else, seen_else]
    previous_stack_top      \* the innermost block before the line, and its depth

nestingVars == <<stack, pp_stack, previous_stack_top>>

Punctuation == {"(", ")", "[", "]", "{", "}", "<", ">", ";", ":", ",", "=", "-", ".",
                Quote, "'", " ", "//", "/*", "*/"}

IsWord(t) == t \notin Punctuation

NoAsm == "no"
InsideAsm == "inside"
EndAsm == "end"
BlockAsm == "block"

NewBlock(kind, linenum, seen) ==
    [kind |-> kind, line |-> linenum, seen |-> seen, parens |-> 0, asm |-> NoAsm,
     name |-> "", access |-> "", indent |-> 0]

NoBlock == NewBlock("none", 0, TRUE)

IsClass(block) == block.kind \in {"class", "struct"}

Top(s) == IF s = <<>> THEN NoBlock ELSE Last(s)

\* A block is told from one of the same line by its depth in the stack.
Innermost(s) == [block |-> Top(s), depth |-> Len(s)]

SetTop(s, block) == [s EXCEPT ![Len(s)] = block]

SeenOpenBrace(s) == Top(s).seen

InAsmBlock(s) == Top(s).asm # NoAsm

\* check_namespace_indentation
IndentChecked(block) == IsClass(block) \/ block.kind = "namespace"

\* The leading spaces of a line, and the line from token n on.
GetIndentLevel(line) ==
    LET i == SelectInSeq(line, LAMBDA t : t # " ") IN IF i = 0 THEN 0 ELSE i - 1

From(line, n) == SubSeq(line, n, Len(line))

IsBlank(line) == \A i \in DOMAIN line : line[i] = " "

\* The first token that is not a space.
FirstWord(line) == IF IsBlank(line) THEN "" ELSE line[GetIndentLevel(line) + 1]

InitNesting == stack = <<>> /\ pp_stack = <<>> /\ previous_stack_top = Innermost(<<>>)

-----------------------------------------------------------------------------
(***************************************************************************)
(* UpdatePreprocessor: the first branch of a conditional counts; the other *)
(* ones start from the stack before it and leave no trace.                 *)
(***************************************************************************)
\* Variant: the stack at the end of the last branch is kept.
Mutant_AfterEndif(s, pp) == [stack |-> s, pp |-> Front(pp)]

AfterEndif(s, pp) ==
    [stack |-> IF Last(pp).seen_else THEN Last(pp).before_else ELSE s, pp |-> Front(pp)]

AfterElse(s, pp) ==
    [stack |-> Last(pp).before_if,
     pp    |-> IF Last(pp).seen_else THEN pp
               ELSE [pp EXCEPT ![Len(pp)].seen_else = TRUE, ![Len(pp)].before_else = s]]

UpdatePreprocessor(s, pp, line) ==
    LET word == FirstWord(line)
    IN CASE word \in {"#if", "#ifdef", "#ifndef"} ->
              [stack |-> s,
               pp    |-> Append(pp, [before_if |-> s, before_else |-> <<>>, seen_else |-> FALSE])]
         [] word \in {"#else", "#elif"} /\ pp # <<>> -> AfterElse(s, pp)
         [] word = "#endif" /\ pp # <<>>             -> AfterEndif(s, pp)
         [] OTHER                                    -> [stack |-> s, pp |-> pp]

-----------------------------------------------------------------------------
(* The steps of Update *)

\* _MATCH_ASM
MatchAsm(line) ==
    LET i == GetIndentLevel(line) + 1
    IN FirstWord(line) = "asm" /\ i < Len(line) /\ line[i + 1] \in {"(", "{"}

Depth(line, open, close) == Count(line, open) - Count(line, close)

NextAsm(block, line, change) ==
    CASE block.asm \in {NoAsm, EndAsm} ->
            IF change # 0 /\ block.parens = 1 /\ MatchAsm(line) THEN InsideAsm ELSE NoAsm
      [] block.asm = InsideAsm /\ block.parens = 0 -> EndAsm
      [] OTHER -> block.asm

\* Counts the parentheses of the innermost block and follows its inline assembly.
CountParentheses(s, line) ==
    LET change == Depth(line, "(", ")")
        block  == [Top(s) EXCEPT !.parens = @ + change]
    IN IF s = <<>> THEN s ELSE SetTop(s, [block EXCEPT !.asm = NextAsm(block, line, change)])

(***************************************************************************)
(* The next steps hand on a record: the stack, the rest of the line that   *)
(* is still to be read, where in it the text of the next block begins, and *)
(* the errors so far.                                                      *)
(***************************************************************************)
\* A namespace at the beginning of the rest.
OpenNamespace(r, linenum) ==
    LET line  == r.rest
        at    == GetIndentLevel(line) + 1
        named == at < Len(line) /\ IsWord(line[at + 1])
        rest  == From(line, IF named THEN at + 2 ELSE at + 1)
        brace == Find(rest, "{")
        new   == [NewBlock("namespace", linenum, brace > 0)
                     EXCEPT !.name = IF named THEN line[at + 1] ELSE ""]
    IN IF FirstWord(line) # "namespace" THEN r
       ELSE [r EXCEPT !.stack = Append(@, new), !.rest = From(rest, brace + 1)]

\* All of them; there are no more than the line has tokens.
OpenNamespaces(s, line, linenum) ==
    LET opened[k \in 0..Len(line)] ==
            IF k = 0 THEN [stack |-> s, rest |-> line, from |-> 1, errors |-> <<>>]
            ELSE OpenNamespace(opened[k - 1], linenum)
    IN opened[Len(line)]

\* Where the line declares a class: the last "class" or "struct" that has a name and has
\* nothing or template <...> before it; 0 for none.
ClassKeyword(line) ==
    LET at == GetIndentLevel(line) + 1
        Declares(k) ==
            /\ line[k] \in {"class", "struct"} /\ k < Len(line) /\ IsWord(line[k + 1])
            /\ \/ k = at
               \/ /\ k > at + 2 /\ line[at] = "template" /\ line[at + 1] = "<" /\ line[k - 1] = ">"
                  /\ \A i \in (at + 1)..(k - 1) : IsWord(line[i]) \/ line[i] \in {"<", ">", ",", ":", " "}
        found == {k \in DOMAIN line : Declares(k)}
    IN IF found = {} THEN 0 ELSE CHOOSE k \in found : \A j \in found : j <= k

\* The position passed to InTemplateArgumentList counts from the rest of the line, although
\* it is looked up in the whole line.
OpenClassAt(at, r, elided, raw, n) ==
    LET new == [NewBlock(r.rest[at], n, FALSE)
                   EXCEPT !.name = r.rest[at + 1], !.indent = GetIndentLevel(raw[n]),
                          !.access = IF r.rest[at] = "struct" THEN "public" ELSE "private"]
    IN IF at > 0 /\ Top(r.stack).parens = 0 /\ ~InTemplateArgumentList(elided, n, at + 2)
       THEN [r EXCEPT !.stack = Append(@, new), !.rest = From(@, at + 2)]
       ELSE r

OpenClass(r, elided, raw, n) == OpenClassAt(ClassKeyword(r.rest), r, elided, raw, n)

\* public:, private: and protected: of the innermost class.
AccessAt(s, rest) ==
    IF ~IsClass(Top(s)) THEN 0
    ELSE Max({0} \cup {i \in 1..(Len(rest) - 1) :
                        rest[i] \in {"public", "private", "protected"} /\ rest[i + 1] = ":"})

AccessErrors(at, s, rest, n) ==
    ErrIf(IsBlank(SubSeq(rest, 1, at - 1)) /\ at - 1 # Top(s).indent + 1, n, "whitespace/indent", 3)

SetAccessAt(at, r, n) ==
    IF at = 0 THEN r
    ELSE [r EXCEPT !.stack = SetTop(@, [Top(@) EXCEPT !.access = r.rest[at]]),
                   !.errors = @ \o AccessErrors(at, r.stack, r.rest, n)]

SetAccess(r, n) == SetAccessAt(AccessAt(r.stack, r.rest), r, n)

\* CheckEnd of a class: a DISALLOW macro is the last thing in it, its brace is aligned.
ClassEndErrors(block, elided, n) ==
    LET body == SubSeq(elided, 1, n - 1)
        at   == SelectLastInSubSeq(body, block.line + 1, n - 1, LAMBDA l : "DISALLOW" \in ToSet(l))
    IN ErrIf(at > 0 /\ \E i \in (at + 1)..(n - 1) : ~IsBlank(elided[i]),
             at, "readability/constructors", 3)
       \o ErrIf(FirstWord(elided[n]) = "}" /\ GetIndentLevel(elided[n]) # block.indent,
                n, "whitespace/indent", 3)

\* CheckEnd of a namespace: a long one ends in } // namespace name, and a short one that has
\* a comment has the right one.
NamespaceEndErrors(block, raw, n) ==
    LET words   == SelectSeq(raw[n], LAMBDA t : t \notin {" ", ";"})
        comment == IF Len(words) > 1 /\ words[1] = "}" /\ words[2] \in {"//", "/*"}
                   THEN SelectSeq(From(words, 3), LAMBDA t : t # "*/") ELSE <<>>
        right   == IF block.name = "" THEN <<"namespace">> ELSE <<"namespace", block.name>>
    IN ErrIf(/\ n - block.line >= LongNamespace \/ "namespace" \in ToSet(comment)
             /\ ~IsSuffix(right, comment),
             n, "readability/namespace", 5)

EndErrors(block, elided, raw, n) ==
    CASE IsClass(block)           -> ClassEndErrors(block, elided, n)
      [] block.kind = "namespace" -> NamespaceEndErrors(block, raw, n)
      [] OTHER                    -> <<>>

\* The block that a "{" opens; text is the line since the last brace or semicolon.
BraceBlock(text, n) ==
    CASE SubSeq(text, 1, Len(text) - 1) = <<"extern", Quote, Quote>> -> NewBlock("extern", n, TRUE)
      [] MatchAsm(text) -> [NewBlock("block", n, TRUE) EXCEPT !.asm = BlockAsm]
      [] OTHER          -> NewBlock("block", n, TRUE)

\* A head without a body is a declaration or an argument.
AtSemicolon(s) == IF SeenOpenBrace(s) THEN s ELSE Front(s)

\* A brace, semicolon or closing parenthesis of what is left of the line.
ConsumeToken(r, i, elided, raw, n) ==
    CASE r.rest[i] = "{" ->
            [r EXCEPT !.from = i + 1,
                      !.stack = IF SeenOpenBrace(@)
                                THEN Append(@, BraceBlock(SubSeq(r.rest, r.from, i), n))
                                ELSE SetTop(@, [Top(@) EXCEPT !.seen = TRUE])]
      [] r.rest[i] \in {";", ")"} ->
            [r EXCEPT !.from = i + 1, !.stack = AtSemicolon(@)]
      [] r.rest[i] = "}" /\ r.stack # <<>> ->
            [r EXCEPT !.from = i + 1, !.stack = Front(@),
                      !.errors = @ \o EndErrors(Top(r.stack), elided, raw, n)]
      [] r.rest[i] = "}" /\ r.stack = <<>> -> [r EXCEPT !.from = i + 1]
      [] OTHER -> r

ConsumeBraces(start, elided, raw, n) ==
    LET consumed[i \in 0..Len(start.rest)] ==
            IF i = 0 THEN start ELSE ConsumeToken(consumed[i - 1], i, elided, raw, n)
    IN consumed[Len(start.rest)]

\* The whole of Update after the preprocessor: the new stack and the errors.
UpdateStack(s, elided, raw, n) ==
    ConsumeBraces(
        SetAccess(
            OpenClass(OpenNamespaces(CountParentheses(s, elided[n]), elided[n], n), elided, raw, n),
            n),
        elided, raw, n)

Updated(elided, raw, n) ==
    LET pp  == UpdatePreprocessor(stack, pp_stack, elided[n])
        new == UpdateStack(pp.stack, elided, raw, n)
    IN [stack |-> new.stack, pp |-> pp.pp, errors |-> new.errors]

UpdateNesting(updated) ==
    /\ stack' = updated.stack /\ pp_stack' = updated.pp
    /\ previous_stack_top' = Innermost(stack)

-----------------------------------------------------------------------------
(* Checks that read the stack s after the line and its innermost block before it *)

IsForwardClassDeclaration(line) ==
    LET words == SelectSeq(line, LAMBDA t : t # " ")
    IN Len(words) > 2 /\ Last(words) = ";" /\ words[Len(words) - 2] = "class"

IsMacroDefinition(line) == line # <<>> /\ line[1] = "#define"

\* A class or namespace that the line opened directly in a namespace.
IsNamespaceItem(s, before) ==
    /\ Len(s) > 1 /\ IndentChecked(Top(s)) /\ before.block.kind = "namespace"
    /\ before.depth = Len(s) - 1 /\ s[Len(s) - 1].line = before.block.line

IsBlockInNameSpace(s, forward) ==
    IF forward THEN Top(s).kind = "namespace"
    ELSE Len(s) > 1 /\ IndentChecked(Top(s)) /\ s[Len(s) - 1].kind = "namespace"

CheckForNamespaceIndentation(s, before, line, n) ==
    LET forward == IsForwardClassDeclaration(line)
    IN ErrIf(/\ IsNamespaceItem(s, before) \/ forward
             /\ ~IsMacroDefinition(line)
             /\ IsBlockInNameSpace(s, forward)
             /\ GetIndentLevel(line) > 0,
             n, "runtime/indentation_namespace", 4)

\* DISALLOW macros belong in the private section.
CheckAccess(s, line, n) ==
    ErrIf(FirstWord(line) = "DISALLOW" /\ IsClass(Top(s)) /\ Top(s).access # "private",
          n, "readability/constructors", 3)

\* CheckCompletedBlocks
IncompleteErrors ==
    FlattenSeq([i \in DOMAIN stack |->
        ErrIf(IsClass(stack[i]), stack[i].line, "build/class", 5)
        \o ErrIf(stack[i].kind = "namespace", stack[i].line, "build/namespaces", 5)])
=============================================================================
