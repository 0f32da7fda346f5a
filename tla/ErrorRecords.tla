---------------------------- MODULE ErrorRecords ----------------------------
(* The arguments a check of the linter passes to its error function. *)
EXTENDS Sequences

Err(line, category, confidence) ==
    [line |-> line, category |-> category, confidence |-> confidence]

ErrIf(cond, line, category, confidence) ==
    IF cond THEN <<Err(line, category, confidence)>> ELSE <<>>
=============================================================================
