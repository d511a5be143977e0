---------------------------- MODULE FactorMeaning --------------------------
(***************************************************************************)
(* What a Factor program means, by its structure: each combinator by its   *)
(* stack effect, over plain sequences, the top last.  No frames, no return *)
(* places, no snapshots.  Recursion is cut off by fuel.                    *)
(***************************************************************************)
EXTENDS FactorPrims

CONSTANT Dict

\* The shuffle words by their effect on the cells under them, deepest first:
\* ( x y z -- y z x ) takes 3 cells and leaves <<2, 3, 1>>.
Effects ==
  [dup   |-> <<1, <<1, 1>>>>,        drop  |-> <<1, <<>>>>,
   swap  |-> <<2, <<2, 1>>>>,        nip   |-> <<2, <<2>>>>,
   over  |-> <<2, <<1, 2, 1>>>>,     pick  |-> <<3, <<1, 2, 3, 1>>>>,
   rot   |-> <<3, <<2, 3, 1>>>>,     rolldown |-> <<3, <<3, 1, 2>>>>,
   rollup |-> <<3, <<2, 1, 3>>>>,    swapd |-> <<3, <<2, 1, 3>>>>,
   dupd  |-> <<2, <<1, 1, 2>>>>,     drop2 |-> <<2, <<>>>>,
   dup2  |-> <<2, <<1, 2, 1, 2>>>>,  over2 |-> <<3, <<1, 2, 3, 1, 2>>>>,
   dup3  |-> <<3, <<1, 2, 3, 1, 2, 3>>>>]

\* A meaning is a memory over the naive stack.
Items(m) == m.st.items
With(m, vs) == [m EXCEPT !.st.items = vs]
Failed(m, e) == OnStack(m, Raise(m.st, e))

\* The value n under the top, and the rest when n values are taken off.
Nthv(m, n) == Items(m)[Len(Items(m)) - n]
Less(m, n) == With(m, SubSeq(Items(m), 1, Len(Items(m)) - n))
Plus(m, v) == With(m, Append(Items(m), v))
Has(m, n) == Len(Items(m)) >= n
Kinds(m, kinds) ==
  /\ Has(m, Len(kinds))
  /\ \A k \in 1..Len(kinds) :
       kinds[k] \in {"any", Nthv(m, Len(kinds) - k)[1]}
Body(m, n) == Nthv(m, n)[2]

Shuffled(w, m) ==
  LET take == Effects[w][1]
  IN  IF Has(m, take)
      THEN With(m, Items(Less(m, take)) \o
                   [k \in 1..Len(Effects[w][2]) |-> Nthv(m, take - Effects[w][2][k])])
      ELSE Failed(m, "underflow")

\* What each combinator takes, deepest first.
Takes ==
  [body |-> <<"symbol">>, call |-> <<"quot">>, x |-> <<"quot">>, dip |-> <<"any", "quot">>,
   branch |-> <<"quot", "quot", "any">>, times |-> <<"int", "quot">>,
   step |-> <<"list", "quot">>, map |-> <<"list", "quot">>,
   filter |-> <<"list", "quot">>, fold |-> <<"any", "quot", "list">>,
   reduce |-> <<"list", "any", "quot">>, while |-> <<"quot", "quot">>,
   linrec |-> <<"quot", "quot", "quot", "quot">>,
   binrec |-> <<"quot", "quot", "quot", "quot">>, primrec |-> <<"int", "quot", "quot">>]
  @@ ("if" :> <<"any", "quot", "quot">>)

TruthOf(m, n) == Truthy(Nthv(m, n), m.arrays)

RECURSIVE Eval(_, _, _), Word(_, _, _), Each(_, _, _, _, _, _), Loop(_, _, _, _),
          Linear(_, _, _), Binary2(_, _, _), Counted(_, _, _, _, _)

Eval(p, m, fuel) ==
  IF ~Fine(m.st) \/ p = <<>> THEN m
  ELSE IF fuel = 0 THEN Failed(m, "fuel")
  ELSE Eval(Tail(p),
            CASE Head(p)[1] = "word" -> Word(Head(p)[2], m, fuel - 1)
              [] Head(p)[1] = "bool" -> Plus(m, Bool(Head(p)[2]))
              [] OTHER -> Plus(m, Head(p)),
            fuel)

\* Run q, and then fail unless it has left a value.
Leaving(q, m, fuel) ==
  LET m1 == Eval(q, m, fuel)
  IN  IF Fine(m1.st) /\ ~Has(m1, 1) THEN Failed(m1, "underflow") ELSE m1

\* Run the condition q, and m1 with the stack as it was before.
Asked(q, m, fuel) == Leaving(q, m, fuel)
Before(m1, m) == IF Fine(m1.st) THEN With(m1, Items(m)) ELSE m1

\* kind over vs; out is what has been gathered.
Each(kind, vs, q, m, out, fuel) ==
  IF ~Fine(m.st) THEN m
  ELSE IF vs = <<>> THEN IF kind \in {"map", "filter"} THEN Plus(m, ListV(out)) ELSE m
  ELSE IF kind \in {"step", "fold"}
       THEN Each(kind, Tail(vs), q,
                 (IF kind = "step" THEN Eval(q, Plus(m, Head(vs)), fuel)
                                   ELSE Leaving(q, Plus(m, Head(vs)), fuel)), out, fuel)
  ELSE LET m1 == Leaving(q, Plus(m, Head(vs)), fuel)
           more == IF ~Fine(m1.st) THEN <<>>
                   ELSE IF kind = "map" THEN <<Nthv(m1, 0)>>
                   ELSE IF TruthOf(m1, 0) THEN <<Head(vs)>> ELSE <<>>
       IN  Each(kind, Tail(vs), q, (IF Fine(m1.st) THEN Less(m1, 1) ELSE m1),
                out \o more, fuel)

Loop(cond, q, m, fuel) ==
  LET m1 == Leaving(cond, m, fuel)
  IN  IF fuel = 0 THEN Failed(m, "fuel")
      ELSE IF ~Fine(m1.st) THEN m1
      ELSE IF TruthOf(m1, 0) THEN Loop(cond, q, Eval(q, Less(m1, 1), fuel), fuel - 1)
      ELSE Less(m1, 1)

\* qs is <<if, then, else1, else2>>.
Linear(qs, m, fuel) ==
  LET m1 == Asked(qs[1], m, fuel)
      m2 == Before(m1, m)
  IN  IF fuel = 0 THEN Failed(m, "fuel")
      ELSE IF ~Fine(m1.st) THEN m1
      ELSE IF TruthOf(m1, 0) THEN Eval(qs[2], m2, fuel)
      ELSE Eval(qs[4], Linear(qs, Eval(qs[3], m2, fuel), fuel - 1), fuel)

Binary2(qs, m, fuel) ==
  LET m1 == Asked(qs[1], m, fuel)
      m2 == Before(m1, m)
      m3 == Eval(qs[3], m2, fuel)
      up == Binary2(qs, Plus(Less(m3, 2), Nthv(m3, 0)), fuel - 1)
      lo == Binary2(qs, Plus(Less(up, 1), Nthv(m3, 1)), fuel - 1)
  IN  IF ~Fine(m.st) THEN m
      ELSE IF fuel = 0 THEN Failed(m, "fuel")
      ELSE IF ~Fine(m1.st) THEN m1
      ELSE IF TruthOf(m1, 0) THEN Eval(qs[2], m2, fuel)
      ELSE IF ~Fine(m3.st) THEN m3
      ELSE IF ~Has(m3, 2) THEN Failed(m3, "underflow")
      ELSE IF ~Fine(up.st) THEN up
      ELSE IF ~Has(up, 1) THEN Failed(up, "underflow")
      ELSE IF ~Fine(lo.st) THEN lo
      ELSE IF ~Has(lo, 1) THEN Failed(lo, "underflow")
      ELSE Eval(qs[4], Plus(Plus(Less(lo, 1), Nthv(up, 0)), Nthv(lo, 0)), fuel)

\* n times q; kind primrec leaves n, n-1, .., 1 first.
Counted(kind, n, q, m, fuel) ==
  IF n < 0 THEN Failed(m, "negative")
  ELSE IF n = 0 \/ ~Fine(m.st) THEN m
  ELSE Counted(kind, n - 1, q, Eval(q, m, fuel), fuel)

CountDown(n, m) == With(m, Items(m) \o [k \in 1..n |-> IntV(n - k + 1)])

Word(w, m, fuel) ==
  IF w \in DOMAIN Effects THEN Shuffled(w, m)
  ELSE IF w \in PrimitiveWords THEN Primitive(w, m)
  ELSE IF w \in DOMAIN Dict THEN Eval(Dict[w], m, fuel)
  ELSE IF w \notin DOMAIN Takes THEN Failed(m, "unknown word")
  ELSE IF ~Kinds(m, Takes[w]) THEN Failed(m, "type or underflow")
  ELSE LET rest == Less(m, Len(Takes[w]))
       IN CASE w = "body" -> IF Body(m, 0) \in DOMAIN Dict THEN Plus(rest, QuotV(Dict[Body(m, 0)]))
                             ELSE Failed(m, "unknown word")
            [] w = "call" -> Eval(Body(m, 0), rest, fuel)
            [] w = "x" -> Eval(Body(m, 0), m, fuel)
            [] w = "dip" -> LET m1 == Eval(Body(m, 0), rest, fuel)
                            IN  IF Fine(m1.st) THEN Plus(m1, Nthv(m, 1)) ELSE m1
            [] w = "branch" -> Eval(IF TruthOf(m, 0) THEN Body(m, 2) ELSE Body(m, 1), rest, fuel)
            [] w = "if" ->
                 LET m1 == IF IsQuot(Nthv(m, 2)) THEN Asked(Body(m, 2), rest, fuel)
                           ELSE Plus(rest, Nthv(m, 2))
                 IN  IF ~Fine(m1.st) THEN m1
                     ELSE Eval(IF TruthOf(m1, 0) THEN Body(m, 1) ELSE Body(m, 0),
                               Before(m1, rest), fuel)
            [] w = "times" -> Counted(w, Body(m, 1), Body(m, 0), rest, fuel)
            [] w \in {"step", "map", "filter"} ->
                 Each(w, Body(m, 1), Body(m, 0), rest, <<>>, fuel)
            [] w = "fold" -> Each(w, Body(m, 0), Body(m, 1), Plus(rest, Nthv(m, 2)), <<>>, fuel)
            [] w = "reduce" ->
                 Each("fold", Body(m, 2), Body(m, 0), Plus(rest, Nthv(m, 1)), <<>>, fuel)
            [] w = "while" -> Loop(Body(m, 1), Body(m, 0), rest, fuel)
            [] w \in {"linrec", "binrec"} ->
                 LET qs == <<Body(m, 3), Body(m, 2), Body(m, 1), Body(m, 0)>>
                 IN  IF w = "linrec" THEN Linear(qs, rest, fuel) ELSE Binary2(qs, rest, fuel)
            [] w = "primrec" ->
                 IF Body(m, 2) < 0 THEN Failed(m, "fuel")
                 ELSE Counted(w, Body(m, 2), Body(m, 0),
                              Eval(Body(m, 1), CountDown(Body(m, 2), rest), fuel), fuel)

Meaning(p, fuel) == Eval(p, [st |-> Naive, arrays |-> <<>>], fuel)
=============================================================================
