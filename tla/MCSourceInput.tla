--------------------------- MODULE MCSourceInput ---------------------------
(***************************************************************************)
(* SourceInput with files of given lengths for TLC: a main file of one     *)
(* line, two files a program may include, one text it may evaluate.        *)
(***************************************************************************)
EXTENDS SourceInput

MCFile == {"long", "short"}
MCFileLen == [main |-> 1, long |-> 2, short |-> 1, nofile |-> 0]
MCString == {[file |-> "string", line |-> 0]}
=============================================================================
