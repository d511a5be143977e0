---------------------------- MODULE MCCellWords ----------------------------
(***************************************************************************)
(* Programs for CellWords: cells of four bits, all of them where a word    *)
(* takes up to four; eight bytes of data space and more.                   *)
(***************************************************************************)
EXTENDS CellPromises

Ramp == [a \in 0..(HeapSize - 1) |-> a % CharSize]
Unboxed == [slot \in 0..(HeapSize \div CellBytes) |-> None]

In(bases, codes, stacks) ==
  [codes |-> codes, stacks |-> stacks, bases |-> bases,
   memories |-> {[heap |-> Ramp, buf |-> Unboxed]}]
Family(codes, stacks) == In({Decimal}, codes, stacks)
Single(words) == {<<w>> : w \in words}
Bases == {2, Decimal, Hex}

Divisor == Cell \ {0}
Some == {-8, -1, 0, 7}
Edge == {-8, -7, -4, -3, -1, 0, 1, 3, 4, 7}

Numbers ==
  <<Family(Single({"D+", "D-"}), Cell \X Cell \X Cell \X Cell),
    Family(Single({"UM*", "M*", "D2/", "*"}), Cell \X Cell),
    Family(Single({"S>D"}), Cell \X Cell),
    Family(Single({"UM/MOD", "FM/MOD", "SM/REM", "*/", "*/MOD"}), Cell \X Cell \X Divisor),
    Family({<<"/MOD">>, Quotient}, Cell \X Divisor),
    Family(Single({"M*/"}), Edge \X Edge \X Edge \X (-4..4)),
    Family(NoOps \cup Truths, Some \X Some \X Some \X Some)>>

Texts ==
  <<In(Bases, {Picture}, {-1, 0} \X Cell \X Cell),
    In(Bases, {Point}, {5} \X Cell \X Cell),
    In(Bases, {<<"U.">>, <<"HEX", "U.">>, <<"DECIMAL", "U.">>, <<"BINARY", "U.">>},
       {<<n>> : n \in Cell}),
    Family({<<"D.">>}, Cell \X Cell),
    Family({<<"U.R">>}, Cell \X {-1, 0, 2, 6})>>

Memories ==
  <<Family(Single({"MOVE", "CMOVE", "CMOVE>"}), (0..5) \X (0..5) \X (-1..5)),
    Family({<<"FILL", "C@", "C,", "HERE", "C@">>}, {1} \X (0..2) \X (-1..3) \X {9}),
    Family({<<"C!", "ALLOT", "ALIGN", "HERE">>}, (0..5) \X {9} \X {1}),
    Family({<<"ALIGNED", "CHAR+", "CHARS", "CELLS", "CELL+">>}, {<<n>> : n \in -3..5})>>

\* Two strings of three chars, at 0 and 4, with or without boxed copies.
Three == {0, 1} \X {0, 1} \X {0, 1}
Beside(x, y) == [a \in 0..(HeapSize - 1) |->
  IF a \in 0..2 THEN x[a + 1] ELSE IF a \in 4..6 THEN y[a - 3] ELSE 0]
Strings ==
  [Family(Single({"COMPARE", "SEARCH"}),
          {<<a, u - a, 4, n>> : a \in 0..1, u \in 0..3, n \in -1..3}) EXCEPT
    !.memories = {[heap |-> Beside(x, y), buf |-> b] : x \in Three, y \in Three, b \in {Unboxed}}
      \cup {[heap |-> Beside(x, y), buf |-> [Unboxed EXCEPT ![0] = x, ![1] = y]] :
              x \in Three, y \in Three}]

MCPrograms == Numbers \o Texts \o Memories \o <<Strings>>
=============================================================================
