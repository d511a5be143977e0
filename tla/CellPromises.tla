---------------------------- MODULE CellPromises ----------------------------
(***************************************************************************)
(* What the comments of primitives.py promise of its words, over integers  *)
(* of any size, and the programs of CellWords that show whether they do.   *)
(***************************************************************************)
EXTENDS CellWords

At(s, k) == s[Len(s) - k]
DoubleAt(s, k) == At(s, k) * WORD + U(At(s, k + 1))
UDoubleAt(s, k) == U(At(s, k)) * WORD + U(At(s, k + 1))
Half2 == WORD * (WORD \div 2)
WrapDouble(n) == ((n + Half2) % (2 * Half2)) - Half2
Smallest == -(WORD \div 2)  \* abs() gives it back
TruncDiv(a, b) == IF (a < 0) = (b < 0) THEN FloorDiv(a, b) ELSE -FloorDiv(-a, b)
Small(n) == n # 0 /\ n \in -HALF..HALF  \* a divisor of the two-halves division

Numeric == {"DUP", "2DUP", "?DUP", "DROP", "2DROP", "3DROP", "NIP", "OVER", "2OVER", "DEPTH",
  "SWAP", "2SWAP", "ROT", "-ROT", "PICK", "ROLL", ">R", "R>", "R@", "2>R", "2R>", "2R@",
  "0=", "0<", "0>", "0<>", "=", "<>", "<", ">", "<=", ">=", "U<", "MAX", "MIN",
  "+", "-", "*", "ABS", "NEGATE", "INVERT", "1+", "1-", "2*", "2/", "LSHIFT", "RSHIFT",
  "S>D", "D+", "D-", "D2/", "UM*", "M*", "UM/MOD", "FM/MOD", "SM/REM",
  "/", "MOD", "/MOD", "*/", "*/MOD", "M*/"}

\* Every number that arithmetic leaves is a cell, and data space holds chars.
TypeOK ==
  /\ code \in Seq(STRING)
  /\ ds \in Seq(Int) /\ rs \in Seq(Cell)
  /\ Range(start.code) \subseteq Numeric => ds \in Seq(Cell)
  /\ base \in {2, Decimal, Hex} \cup {start.base}
  /\ pno_active \in BOOLEAN /\ pno_buf \in Seq(Chars)
  /\ heap \in [0..(HeapSize - 1) -> Chars] /\ here \in Nat
  /\ \A slot \in DOMAIN buf : buf[slot] = None \/ buf[slot] \in Seq(Chars)

\* What the word that runs leaves, t, of what it finds, s: sums wrap at two
\* cells, a product fills them.
SumOf(s, t) ==
  CASE Head(code) = "D+" -> DoubleAt(t, 0) = WrapDouble(DoubleAt(s, 2) + DoubleAt(s, 0))
    [] Head(code) = "D-" -> DoubleAt(t, 0) = WrapDouble(DoubleAt(s, 2) - DoubleAt(s, 0))
    [] Head(code) = "D2/" -> DoubleAt(t, 0) = DoubleAt(s, 0) \div 2
    [] Head(code) = "S>D" -> DoubleAt(t, 0) = At(s, 0)
    [] Head(code) = "UM*" -> UDoubleAt(t, 0) = U(At(s, 1)) * U(At(s, 0))
    [] Head(code) = "M*" -> DoubleAt(t, 0) = At(s, 1) * At(s, 0)
    [] OTHER -> TRUE

\* q and r are left for n by d, q over r.
Divided(t, q, r) == At(t, 0) = q /\ At(t, 1) = r
Floored(t, n, d) ==
  LET q == FloorDiv(n, d) IN q \in Cell => Divided(t, q, n - q * d)
\* What any rounding leaves: n can be put together again, and the rest is less
\* than d.
Absolute(n) == IF n < 0 THEN -n ELSE n
Restored(t, n, d) ==
  FloorDiv(n, d) \in Cell =>
    At(t, 0) * d + At(t, 1) = n /\ Absolute(At(t, 1)) < Absolute(d)

\* Floored, symmetric and unsigned division, for divisors the halves can take
\* and quotients that fit; the words of one cell when the product fits.
QuotientOf(s, t) ==
  LET n == At(s, 0)
      product == At(s, 1) * At(s, 2)
  IN  CASE Head(code) = "UM/MOD" ->
             U(n) <= HALF /\ UDoubleAt(s, 1) < U(n) * WORD =>
               /\ U(At(t, 0)) = UDoubleAt(s, 1) \div U(n)
               /\ U(At(t, 1)) = UDoubleAt(s, 1) % U(n)
        [] Head(code) = "FM/MOD" -> Small(n) => Floored(t, DoubleAt(s, 1), n)
        [] Head(code) = "SM/REM" ->
             LET d == DoubleAt(s, 1)
                 q == TruncDiv(d, n)
             IN  d \in Cell /\ d # Smallest /\ n # Smallest => Divided(t, q, d - q * n)
        [] Head(code) = "/MOD" -> Restored(t, At(s, 1), n)
        [] Head(code) = "*/MOD" -> product \in Cell => Floored(t, product, n)
        [] Head(code) = "*/" ->
             product \in Cell /\ FloorDiv(product, n) \in Cell => At(t, 0) = FloorDiv(product, n)
        [] Head(code) = "M*/" ->
             Small(n) => DoubleAt(t, 0) = WrapDouble(FloorDiv(DoubleAt(s, 2) * At(s, 1), n))
        [] OTHER -> TRUE

\* The double-cell words compute what their comments say of integers: no carry,
\* borrow or sign between the half-cells is lost (primitives.py prim_D_PLUS to
\* prim_D2SLASH, prim_MUL_STAR, prim_U_MUL_STAR).
SumsExact == [][code # <<>> => SumOf(ds, ds')]_vars

\* Division gives quotient and remainder: floored by FM/MOD and the triple-cell
\* M*/, symmetric by SM/REM, of numbers without sign by UM/MOD, as their comments
\* name it (primitives.py prim_FM_DIV_MOD, prim_UM_DIV_MOD, prim_SM_DIV_REM,
\* prim_MSTARSLASH, _ud_divmod_base); floored by */ and */MOD, whose comments name
\* no rounding and whose int(a / b) floors.  Of /MOD only what any rounding keeps:
\* it floors too, as its test wants, while the comment in prim_DIVMOD says that
\* its quotient rounds toward zero.
QuotientsExact == [][code # <<>> => QuotientOf(ds, ds')]_vars

\* A number as text, highest digit first.
Spelled[n \in Nat, b \in Nat] ==
  IF n < b THEN <<n>> ELSE Spelled[n \div b, b] \o <<n % b>>
Minus(n) == IF n < 0 THEN <<Dash>> ELSE <<>>

Picture == <<"<#", "#S", "ROT", "SIGN", "#>">>
Point == <<"<#", "#", "ROT", "HOLD", "#S", "#>">>
Stray == <<"#", "#S", "HOLD", "SIGN", "#>">>

ShownBy(p) ==
  LET s == p.ds
      b == p.base
  IN  CASE p.code = Picture -> Minus(s[1]) \o Spelled[UDoubleAt(s, 0), b]
        [] p.code = Point -> Spelled[UDoubleAt(s, 0) \div b, b] \o <<s[1], UDoubleAt(s, 0) % b>>
        [] p.code = <<"U.">> -> Spelled[U(s[1]), b]
        [] p.code = <<"HEX", "U.">> -> Spelled[U(s[1]), Hex]
        [] p.code = <<"U.R">> ->
             LET text == Spelled[U(s[1]), Decimal]
             IN  [k \in 1..(s[2] - Len(text)) |-> Blank] \o text
        [] p.code = <<"D.">> -> Minus(s[2]) \o Spelled[Absolute(DoubleAt(s, 0)), Decimal]
        [] OTHER -> <<>>

\* What is shown of a number is its digits, however many half-cells they come
\* from: in data space after #>, on the output after U. U.R and D.
\* (primitives.py prim_NUMSIGN to prim_NUMGREATER, prim_UDOT, prim_D_DOT).
NumberShown ==
  code = <<>> /\ ShownBy(start) # <<>> =>
    IF Last(start.code) = "#>" THEN Bytes(X(1), X(0)) = ShownBy(start)
    ELSE out = ShownBy(start)

\* Programs that undo what they do; the last is outside <# #>.
NoOps ==
  {<<"DUP", "DROP">>, <<"DUP", "NIP">>, <<"OVER", "DROP">>, <<"2DUP", "2DROP">>,
   <<"2OVER", "2DROP">>, <<"DUP", "2DUP", "3DROP">>, <<"DEPTH", "DROP">>, <<"0", "?DUP", "DROP">>,
   <<"SWAP", "SWAP">>, <<"2SWAP", "2SWAP">>, <<"ROT", "-ROT">>, <<"ROT", "ROT", "ROT">>,
   <<"1", "?DUP", "2DROP">>,
   <<"0", "ROLL">>, <<"1", "ROLL", "SWAP">>, <<"2", "ROLL", "-ROT">>,
   <<"3", "ROLL", "3", "ROLL", "2SWAP">>,
   <<"0", "PICK", "DROP">>, <<"1", "PICK", "-ROT", "NIP">>,
   <<"2", "PICK", ">R", "ROT", "DROP", "R>", "-ROT">>,
   <<">R", "R@", "DROP", "R>">>, <<"2>R", "2R@", "2DROP", "2R>">>, <<"2>R", "R>", "R>", "SWAP">>,
   <<"2OVER", "D+", "2OVER", "D-">>, <<"2OVER", "D-", "2OVER", "D+">>,
   <<"NEGATE", "NEGATE">>, <<"INVERT", "1+", "NEGATE">>, <<"1+", "1-">>,
   <<"OVER", "+", "OVER", "-">>,
   <<"DUP", "2/", "2*", "OVER", "3", "LSHIFT", "3", "RSHIFT", "+", "NIP">>,
   <<"DUP", "ABS", "SWAP", "0<", "DUP", "+", "1+", "*">>,
   <<"S>D", "DROP">>, Stray}

\* Programs that end with a true flag over what they found.
Truths ==
  {<<"2DUP", "2DUP", "MIN", "-ROT", "MAX", "+", ">R", "2DUP", "+", "R>", "=">>,
   <<"2DUP", "<", ">R", "2DUP", ">=", "R>", "<>">>,
   <<"2DUP", ">", ">R", "2DUP", "<=", "R>", "<>">>,
   <<"2DUP", "=", ">R", "2DUP", "<>", "R>", "<>">>,
   <<"DUP", "0=", ">R", "DUP", "0<>", "R>", "<>">>,
   <<"DUP", "0<", ">R", "DUP", "0>", "R>", "+", "OVER", "0<>", "=">>,
   <<"2DUP", "U<", ">R", "2DUP", "SWAP", "U<", "R>", "+", ">R", "2DUP", "<>", "R>", "=">>,
   <<"DUP", "1", "LSHIFT", "OVER", "2*", "=">>,
   <<"DUP", "2", "LSHIFT", "OVER", "1", "LSHIFT", "1", "LSHIFT", "=">>,
   <<"DUP", "1", "RSHIFT", "1", "RSHIFT", "OVER", "2", "RSHIFT", "=">>,
   <<"DUP", "1", "RSHIFT", "1", "LSHIFT", "OVER", "1", "RSHIFT", "DUP", "+", "=">>}
Quotient == <<"2DUP", "/", "OVER", "*", ">R", "2DUP", "MOD", "R>", "+", ">R", "OVER", "R>", "=">>

\* What the comments say of words in terms of others: 2 ROLL is ROT, 0 PICK is
\* DUP, -ROT undoes ROT, D- undoes D+, a / b * b + a MOD b is a
\* (primitives.py prim_DUP to prim_LSHIFT, prim_PICK, prim_ROLL).
Identities ==
  code = <<>> =>
    /\ start.code \in NoOps => ds = start.ds /\ rs = <<>>
    /\ start.code \in Truths \cup {Quotient} => ds = Append(start.ds, -1)

-----------------------------------------------------------------------------
\* The block of u bytes at src, read before anything is written, at dst.
Block(h, src, dst, u) ==
  [a \in DOMAIN h |-> IF a \in dst..(dst + u - 1) THEN h[a - dst + src] ELSE h[a]]

\* From the low end into an overlapping higher place the first dst - src bytes
\* are repeated; from the high end into a lower one, the last.
Repeated(h, src, dst, u) ==
  [a \in DOMAIN h |->
    IF a \notin dst..(dst + u - 1) THEN h[a]
    ELSE IF dst > src THEN h[src + ((a - dst) % (dst - src))]
    ELSE h[src + u - 1 - ((dst + u - 1 - a) % (src - dst))]]

Overlaps(src, dst, u) == src < dst + u /\ dst < src + u

\* MOVE copies the block that was there, overlap or not; CMOVE and CMOVE> do so
\* in the direction each is for, and in the other repeat a pattern; nothing
\* else changes (primitives.py prim_MOVE to prim_CMOVE_UP, heap.py move_bytes).
BlocksMoved ==
  [][code # <<>> /\ Head(code) \in {"MOVE", "CMOVE", "CMOVE>"} =>
       LET src == X(2)
           dst == X(1)
           u == X(0)
           repeats == Overlaps(src, dst, u) /\ (\/ Head(code) = "CMOVE" /\ src < dst
                                                \/ Head(code) = "CMOVE>" /\ dst < src)
       IN  heap' = IF repeats THEN Repeated(heap, src, dst, u) ELSE Block(heap, src, dst, u)]_vars

\* The string at an address is one: no boxed string, or its own boxed string.
OwnString(addr, u) ==
  buf[Slot(addr)] # None => addr % CellBytes = 0 /\ buf[Slot(addr)] = Bytes(addr, Len(buf[Slot(addr)]))

LexLess(s, t) ==
  \/ IsStrictPrefix(s, t)
  \/ \E k \in DOMAIN s \cap DOMAIN t :
       s[k] < t[k] /\ SubSeq(s, 1, k - 1) = SubSeq(t, 1, k - 1)

\* COMPARE orders strings as a dictionary does; SEARCH gives the rest of the
\* first from the first place the second is found at, provided each string is
\* read from where it was put (primitives.py prim_COMPARE, prim_SEARCH).
StringsCompared ==
  [][code # <<>> /\ Head(code) \in {"COMPARE", "SEARCH"} =>
       LET s == Bytes(X(3), AtLeast0(X(2)))
           t == Bytes(X(1), AtLeast0(X(0)))
           occurs == {k \in 0..Len(s) : IsPrefix(t, SubSeq(s, k + 1, Len(s)))}
           place == CHOOSE k \in occurs : \A j \in occurs : k <= j
       IN  IF Head(code) = "COMPARE"
           THEN Last(ds') = IF LexLess(s, t) THEN -1 ELSE One(LexLess(t, s))
           ELSE OwnString(X(3), Len(s)) /\ OwnString(X(1), Len(t)) =>
                ds' = Under(4) \o IF occurs = {} THEN <<X(3), Len(s), 0>>
                                  ELSE <<X(3) + place, Len(s) - place, -1>>]_vars
=============================================================================
