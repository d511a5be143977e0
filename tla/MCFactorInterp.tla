--------------------------- MODULE MCFactorInterp --------------------------
(***************************************************************************)
(* Programs for FactorInterp, and what is claimed of their runs.  With a   *)
(* frame of two cells the fifth value on the stack spills.                 *)
(***************************************************************************)
EXTENDS FactorInterp

CONSTANT Fuel  \* how deep a meaning is unfolded

M == INSTANCE FactorMeaning

I(n) == IntV(n)
W(w) == <<"word", w>>
L(ns) == ListV([k \in DOMAIN ns |-> I(ns[k])])

\* down: count down in tail position; sum: recurse, then add; quad: call twice;
\* nip has the name of a primitive.
MCDict ==
  [down |-> <<QuotV(<<W("dup"), I(0), W(">")>>),
              QuotV(<<W("pred"), W("down")>>), QuotV(<<W("drop")>>), W("if")>>,
   sum  |-> <<W("dup"), QuotV(<<W("dup"), W("pred"), W("sum"), W("+")>>), QuotV(<<>>),
              W("if")>>,
   quad |-> <<W("double"), W("double")>>,
   double |-> <<W("dup"), W("+")>>,
   none |-> <<>>,
   nip  |-> <<W("drop2")>>]

Bodies ==
  {<<>>, <<W("dup")>>, <<W("drop")>>, <<I(1)>>, <<W("pred")>>, <<W("rot"), W("+")>>,
   <<I(5), I(6), W("swap")>>, <<QuotV(<<W("succ")>>), W("dip")>>,
   <<QuotV(<<I(7)>>), W("call"), W("drop2")>>, <<W("quad")>>, <<W("none")>>}
Conds ==
  {<<W("dup"), I(0), W(">")>>, <<W("null")>>, <<W("dup"), W("pred")>>, <<I(0)>>,
   <<W("over"), W("over"), W(">")>>, <<W("drop2"), I(8), I(9), W("none"), W("quad")>>}
Under == {<<>>, <<I(5), I(4), I(3), I(2), I(1)>>}

Quots(bodies) == {<<QuotV(b)>> : b \in bodies}
Pairs(S, T) == {s \o t : s \in S, t \in T}
Ends4(us, qs, w) == {u \o q \o <<W(w)>> : u \in us, q \in qs}

Calls ==
  Ends4(Pairs(Under, {<<I(2)>>}), Pairs(Quots(Bodies), Quots(Bodies)), "call")
  \cup {u \o <<I(2), QuotV(b), W(w)>> \o e :
          u \in Under, b \in Bodies, w \in {"call", "x", "dip", "times"},
          e \in {<<>>, <<W("rot")>>}}
  \cup {<<I(n), W(w)>> \o e : n \in 0..3, w \in {"down", "sum", "quad"}, e \in {<<>>, <<I(9)>>}}
  \cup {<<I(3), <<"symbol", "double">>, W("body"), W("call")>>, <<I(1), W("body")>>,
        <<<<"symbol", "nowhere">>, W("body")>>, <<W("nowhere")>>,
        <<<<"bool", TRUE>>, I(1), W("and")>>, <<I(-1), QuotV(<<>>), W("times")>>,
        [k \in 1..14 |-> I(k)], <<I(1), I(12), QuotV(<<W("dup")>>), W("times")>>}

Branches ==
  Ends4(Under, Pairs(Quots(Conds), Pairs(Quots(Bodies), Quots(Bodies))), "if")
  \cup {u \o <<QuotV(b), QuotV(c), f, W("branch")>> :
          u \in Under, b \in Bodies, c \in Bodies, f \in {I(0), I(1), L(<<>>), L(<<1>>)}}
  \cup {u \o <<f, QuotV(b), QuotV(c), W("if")>> :
          u \in Under, b \in Bodies, c \in {<<>>, <<I(1)>>}, f \in {I(0), I(1), L(<<>>)}}

Folds ==
  {u \o <<l, QuotV(b), W(w)>> : u \in Under, l \in {L(<<>>), L(<<1>>), L(<<2, 0, 1>>), I(1)},
     b \in Bodies \cup {<<W("+")>>, <<I(0), W("=")>>}, w \in {"step", "map", "filter"}}
  \cup {u \o <<I(9), QuotV(b), l, W("fold")>> : u \in Under, b \in Bodies \cup {<<W("+")>>},
          l \in {L(<<>>), L(<<1, 2>>), I(1)}}
  \cup {u \o <<l, I(9), QuotV(b), W("reduce")>> : u \in Under, b \in Bodies \cup {<<W("-")>>},
          l \in {L(<<>>), L(<<1, 2>>)}}

Loops ==
  Ends4({<<I(4), I(3), I(2)>>, <<I(2)>>}, Pairs(Quots(Conds), Quots(Bodies)), "while")

Recursions ==
  {u \o <<QuotV(c), QuotV(t), QuotV(e1), QuotV(e2), W(w)>> :
     u \in {<<I(2)>>, <<I(5), I(4), I(3), I(2)>>},
     c \in {<<W("null")>>, <<W("dup"), I(2), W("<")>>, <<W("none"), W("null")>>},
     t \in {<<>>, <<W("drop"), I(1)>>, <<W("succ")>>},
     e1 \in {<<W("pred")>>, <<W("dup"), W("pred")>>, <<W("pred"), W("dup"), W("pred")>>},
     e2 \in {<<>>, <<W("+")>>, <<W("dup")>>, <<W("swap"), W("none")>>},
     w \in {"linrec", "binrec"}}
  \cup {u \o <<I(n), QuotV(t), QuotV(e), W("primrec")>> :
          u \in Under, n \in 0..3, t \in {<<>>, <<I(1)>>}, e \in {<<>>, <<W("+")>>, <<W("dup")>>}}

Plain ==
  {u \o <<W(w), W(v)>> : u \in {<<I(4), I(3), L(<<2>>), I(1)>>, <<I(1), I(0)>>, <<L(<<1, 2>>), L(<<>>)>>},
     w \in PrimitiveWords, v \in DOMAIN Shuffles \cup {"stack", "cons", "=", "or"}}
  \cup {<<I(4), I(n), W("<array>"), W("dup"), I(7), I(k), W("rot"), W("set-nth"),
          I(k), W("swap"), W("nth")>> : n \in -1..2, k \in -1..2}
  \cup {<<I(6), I(k), L(<<5>>), W("nth"), W(w), I(1)>> : k \in -1..1, w \in PrimitiveWords}
  \cup {<<I(a), I(b), W(w)>> : a \in {-3, 0, 3}, b \in {-2, 0, 2, 3},
          w \in Arithmetic \cup {"=", "!=", "and", "or", "not", "succ", "pred"}}
  \cup {<<I(1), L(<<7, 8, 9, 6>>), W("unstack"), W(w)>> : w \in DOMAIN Shuffles}

Finite(p) == M!Meaning(p, Fuel).st.err # "fuel"
MCPrograms ==
  {p \in Calls \cup Branches \cup Folds \cup Loops \cup Recursions \cup Plain : Finite(p)}

-----------------------------------------------------------------------------
\* At the limits of the stacks the code gives up, whatever the program means.
AtLimit == st.err \in {"overflow", "call stack overflow"}

Meant == M!Meaning(source, Fuel)
AsMeant ==
  IF Fine(st) THEN Fine(Meant.st) /\ Flat(st) = Meant.st.items /\ arrays = Meant.arrays
  ELSE ~Fine(Meant.st)

\* Whatever has been parked, kept in a frame, resumed or called in tail position:
\* a run ends with the stack its program means, in either build, and fails
\* only if the program does.  Left out are conditions that pop cells parked
\* below their snapshot.
ComputesMeaning == Over /\ ~AtLimit /\ ~dug => AsMeant

\* _execute comes to an end: with fair steps every program that has a meaning
\* is over at some time.
Finishes == <>Over
=============================================================================
