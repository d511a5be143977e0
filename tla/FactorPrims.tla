---------------------------- MODULE FactorPrims ----------------------------
(***************************************************************************)
(* The primitives of rpyfactor (primitives.py) that work on the stack, on  *)
(* lists and on arrays, as operators on a memory m: a stack of FactorStack *)
(* and the arrays made so far.  Printing, strings, symbols and clock are   *)
(* left out.                                                               *)
(***************************************************************************)
EXTENDS FactorStack, SequencesExt

IsList(v) == v[1] = "list"
IsArray(v) == v[1] = "array"
IsQuot(v) == v[1] = "quot"
ListV(vs) == <<"list", vs>>
QuotV(p) == <<"quot", p>>

OnStack(m, s) == [m EXCEPT !.st = s]
Bool(b) == IntV(IF b THEN 1 ELSE 0)

\* Take off the top, or fail when it does not satisfy Expected.
Expect(s, Expected(_), e) ==
  IF Fine(s) /\ Size(s) > 0 /\ ~Expected(Top(s)) THEN Raise(Pop(s), e) ELSE Pop(s)

PopInt(s) == Expect(s, IsInt, "expected integer")
PopList(s) == Expect(s, IsList, "expected list")
PopQuot(s) == Expect(s, IsQuot, "expected quotation")

\* truthy; a list or an array is true unless it is empty.
Truthy(v, arrays) ==
  CASE IsInt(v)   -> v[2] # 0
    [] IsList(v)  -> v[2] # <<>>
    [] IsArray(v) -> arrays[v[2]] # <<>>
    [] OTHER      -> TRUE

\* pop_truthy first asks for the tag of the top.
TopTruthy(m) ==
  IF TopIsInt(m.st) THEN Top(m.st)[2] # 0 ELSE Truthy(Top(m.st), m.arrays)

-----------------------------------------------------------------------------
\* The shuffle words: pop this many cells one by one, having read each, then
\* push the cells read, by their number.  A word that pops nothing reads at a
\* depth.
Shuffles ==
  [dup   |-> <<0, <<0>>>>,          drop  |-> <<1, <<>>>>,
   swap  |-> <<2, <<0, 1>>>>,       nip   |-> <<2, <<0>>>>,
   over  |-> <<0, <<1>>>>,          pick  |-> <<0, <<2>>>>,
   rot   |-> <<3, <<1, 0, 2>>>>,    rolldown |-> <<3, <<0, 2, 1>>>>,
   rollup |-> <<3, <<1, 2, 0>>>>,   swapd |-> <<3, <<1, 2, 0>>>>,
   dupd  |-> <<1, <<1, 0>>>>,       drop2 |-> <<2, <<>>>>,
   dup2  |-> <<0, <<1, 0>>>>,       over2 |-> <<0, <<2, 1>>>>,
   dup3  |-> <<0, <<2, 1, 0>>>>]

MaxPut(xs) == Max({-1} \cup Range(xs))

Shuffle(w, s) ==
  LET pops == Shuffles[w][1]
      put  == Shuffles[w][2]
      left[k \in 0..pops] == IF k = 0 THEN s ELSE Pop(left[k - 1])
      reads == Need(left[pops], MaxPut(put) + 1 - pops)
      read(k) == IF k < pops THEN CellAt(left[k], 0) ELSE CellAt(left[pops], k - pops)
      done[k \in 0..Len(put)] ==
        IF k = 0 THEN reads ELSE PushCell(done[k - 1], read(put[k]))
  IN  IF Fine(reads) THEN done[Len(put)] ELSE reads

-----------------------------------------------------------------------------
FloorDiv(a, b) == IF b > 0 THEN a \div b ELSE (-a) \div (-b)

Arithmetic == {"+", "-", "*", "/", "rem", "<", "<=", ">", ">="}

Computed(w, a, b) ==
  CASE w = "+"   -> IntV(a + b)
    [] w = "-"   -> IntV(a - b)
    [] w = "*"   -> IntV(a * b)
    [] w = "/"   -> IntV(FloorDiv(a, b))
    [] w = "rem" -> IntV(a - b * FloorDiv(a, b))
    [] w = "<"   -> Bool(a < b)
    [] w = "<="  -> Bool(a <= b)
    [] w = ">"   -> Bool(a > b)
    [] w = ">="  -> Bool(a >= b)

Binary(w, s) ==
  LET s1 == PopInt(s)
      s2 == PopInt(s1)
  IN  IF ~Fine(s2) THEN s2
      ELSE IF w \in {"/", "rem"} /\ Top(s)[2] = 0 THEN Raise(s2, "division by zero")
      ELSE Push(s2, Computed(w, Top(s1)[2], Top(s)[2]))

\* pred stops at zero.
Unary(w, s) ==
  LET s1 == PopInt(s)
      n  == Top(s)[2]
  IN  IF ~Fine(s1) THEN s1
      ELSE PushInt(s1, IF w = "succ" THEN n + 1 ELSE IF n > 0 THEN n - 1 ELSE n)

\* _values_equal: no array is equal to anything, not to itself either; lists are
\* compared element by element (arrays inside lists are left out).  Quotations are
\* equal there when their programs are lists of the same items, by identity: of two
\* written alike this says nothing, and no program may compare quotations.
Comparable(v) == ~IsArray(v)

\* prim_eq has a way of its own for two integers.
Equal(w, s) ==
  LET s1 == Pop(s)
      s2 == Pop(s1)
      a  == Top(s1)
      b  == Top(s)
      same == IF TopIsInt(s) /\ TopIsInt(s1) THEN a[2] = b[2]
              ELSE Comparable(a) /\ a = b
  IN  IF ~Fine(s2) THEN s2 ELSE Push(s2, Bool((w = "=") = same))

Logic(w, m) ==
  LET s1 == Pop(m.st)
      s2 == Pop(s1)
      b  == TopTruthy(m)
      a  == TopTruthy(OnStack(m, s1))
  IN  IF w = "not"
      THEN IF Fine(s1) THEN Push(s1, Bool(~b)) ELSE s1
      ELSE IF ~Fine(s2) THEN s2
           ELSE Push(s2, Bool(IF w = "and" THEN a /\ b ELSE a \/ b))

-----------------------------------------------------------------------------
\* The words on one list.
ListWords == {"uncons", "first", "rest", "small", "reverse"}

OnList(w, s) ==
  LET s1 == PopList(s)
      vs == Top(s)[2]
  IN  IF ~Fine(s1) THEN s1
      ELSE IF w = "small" THEN Push(s1, Bool(Len(vs) <= 1))
      ELSE IF w = "reverse" THEN Push(s1, ListV(Reverse(vs)))
      ELSE IF vs = <<>> THEN Raise(s1, "empty list")
      ELSE CASE w = "first"  -> Push(s1, Head(vs))
             [] w = "rest"   -> Push(s1, ListV(Tail(vs)))
             [] w = "uncons" -> Push(Push(s1, ListV(Tail(vs))), Head(vs))

ConsTop(s) ==
  LET s1 == PopList(s)
      s2 == Pop(s1)
  IN  IF Fine(s2) THEN Push(s2, ListV(<<Top(s1)>> \o Top(s)[2])) ELSE s2

Concat(s) ==
  LET s1 == PopList(s)
      s2 == PopList(s1)
  IN  IF Fine(s2) THEN Push(s2, ListV(Top(s1)[2] \o Top(s)[2])) ELSE s2

SizeOf(m) ==
  LET v  == Top(m.st)
      s1 == Expect(m.st, LAMBDA x : IsList(x) \/ IsArray(x), "expected list or array")
  IN  IF ~Fine(s1) THEN s1
      ELSE PushInt(s1, Len(IF IsList(v) THEN v[2] ELSE m.arrays[v[2]]))

Null(s) ==
  LET v == Top(s)
      s1 == Pop(s)
  IN  IF ~Fine(s1) THEN s1
      ELSE Push(s1, Bool(IF TopIsInt(s) THEN v[2] = 0 ELSE IsList(v) /\ v[2] = <<>>))

\* nth tests a list's index by walking down it, an array's against its length.
Nth(m) ==
  LET v   == Top(m.st)
      s1  == Pop(m.st)
      s2  == PopInt(s1)
      n   == Top(s1)[2]
      vs  == IF IsArray(v) THEN m.arrays[v[2]] ELSE v[2]
  IN  IF ~Fine(s2) THEN s2
      ELSE IF ~(IsArray(v) \/ IsList(v)) THEN Raise(s2, "nth expects array or list")
      ELSE IF n < 0 \/ n >= Len(vs) THEN Raise(s2, "index out of range")
      ELSE Push(s2, vs[n + 1])

\* An array is shared by all who hold it: set-nth changes it in place.
NewArray(m) ==
  LET s1 == PopInt(m.st)
      n  == Top(m.st)[2]
  IN  IF ~Fine(s1) THEN OnStack(m, s1)
      ELSE IF n < 0 THEN OnStack(m, Raise(s1, "expected non-negative"))
      ELSE [st |-> Push(s1, <<"array", Len(m.arrays) + 1>>),
            arrays |-> Append(m.arrays, [k \in 1..n |-> IntV(0)])]

SetNth(m) ==
  LET v  == Top(m.st)
      s1 == Expect(m.st, IsArray, "set-nth expects array")
      s2 == PopInt(s1)
      n  == Top(s1)[2]
      s3 == Pop(s2)
  IN  IF ~Fine(s3) THEN OnStack(m, s3)
      ELSE IF n < 0 \/ n >= Len(m.arrays[v[2]])
           THEN OnStack(m, Raise(s3, "index out of range"))
      ELSE [st |-> s3, arrays |-> [m.arrays EXCEPT ![v[2]][n + 1] = Top(s2)]]

\* unstack makes the elements of a list the whole stack.
Unstack(s) ==
  LET s1 == PopList(s)
  IN  IF Fine(s1) THEN ReplaceItems(s1, Top(s)[2]) ELSE s1

-----------------------------------------------------------------------------
PrimitiveWords ==
  DOMAIN Shuffles \cup Arithmetic \cup ListWords \cup
  {"=", "!=", "and", "or", "not", "succ", "pred", "cons", "swons", "concat",
   "size", "null", "nil", "stack", "unstack", "<array>", "nth", "set-nth"}

\* _dispatch_prim
Primitive(w, m) ==
  CASE w \in DOMAIN Shuffles -> OnStack(m, Shuffle(w, m.st))
    [] w \in Arithmetic -> OnStack(m, Binary(w, m.st))
    [] w \in {"=", "!="} -> OnStack(m, Equal(w, m.st))
    [] w \in {"and", "or", "not"} -> OnStack(m, Logic(w, m))
    [] w \in {"succ", "pred"} -> OnStack(m, Unary(w, m.st))
    [] w \in ListWords -> OnStack(m, OnList(w, m.st))
    [] w = "cons" -> OnStack(m, ConsTop(m.st))
    [] w = "swons" -> OnStack(m, ConsTop(Shuffle("swap", m.st)))
    [] w = "concat" -> OnStack(m, Concat(m.st))
    [] w = "size" -> OnStack(m, SizeOf(m))
    [] w = "null" -> OnStack(m, Null(m.st))
    [] w = "nil" -> OnStack(m, Push(m.st, ListV(<<>>)))
    [] w = "stack" -> OnStack(m, Push(m.st, ListV(Flat(m.st))))
    [] w = "unstack" -> OnStack(m, Unstack(m.st))
    [] w = "<array>" -> NewArray(m)
    [] w = "nth" -> OnStack(m, Nth(m))
    [] w = "set-nth" -> SetNth(m)
=============================================================================
