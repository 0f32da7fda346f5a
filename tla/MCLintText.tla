----------------------------- MODULE MCLintText -----------------------------
(* Small texts over brackets, and over the marks of comments and strings. *)
EXTENDS LintText

BracketTokens == {"(", ")", "[", "]", "<", ">", ";"}
LexicalTokens == {"/*", "*/", "//", Quote, "'", RawBegin, RawEnd, "a"}

TheVocabularies == {BracketTokens, LexicalTokens}
=============================================================================
