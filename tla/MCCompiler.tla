----------------------------- MODULE MCCompiler -----------------------------
(***************************************************************************)
(* Compiler with its lessons for TLC: each sets the words of one kind of   *)
(* structure to work, in a first definition and in one that calls it.      *)
(***************************************************************************)
EXTENDS Compiler

Text(words, n) == [words |-> words, size |-> n]

Short == Text({"word", "CALL"}, 2)

MCLessons ==
  { <<Text({"word", "IF", "ELSE", "THEN", "EXIT"}, 4),
      Text({"word", "IF", "THEN", "CALL"}, 3)>>,
    <<Text({"word", "IF", "THEN", "RECURSE"}, 5), Short>>,
    <<Text({"word", "RECURSE", "EXIT", "BEGIN", "UNTIL"}, 4), Short>>,
    <<Text({"word", "IF", "THEN", "ELSE", "DOES>"}, 4), Short>>,
    <<Text({"word", "BEGIN", "WHILE", "REPEAT", "UNTIL", "AGAIN", "THEN", "ELSE"}, 6)>>,
    <<Text({"word", "IF", "BEGIN", "AGAIN", "UNTIL", "THEN", "1 CS-ROLL"}, 5)>>,
    <<Text({"word", "DO", "LOOP", "LEAVE", "IF", "THEN"}, 5)>>,
    <<Text({"DO", "?DO", "LOOP", "+LOOP", "LEAVE"}, 4)>>,
    <<Text({"CASE", "OF", "ENDOF", "ENDCASE"}, 6)>>,
    <<Text({"IF"}, 1), Text({"IF", "CASE", "OF", "ENDOF", "1 CS-ROLL"}, 5)>> }
=============================================================================
