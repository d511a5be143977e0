------------------------------ MODULE CellWords ------------------------------
(***************************************************************************)
(* The primitives of primitives.py that compute on the data stack and on   *)
(* bytes of data space, run one after the other: code holds the words      *)
(* still to run.  The data stack is a sequence, top last (MetaStack and    *)
(* MetaStackN show how it is kept); a program's words find their cells on  *)
(* it.  Numbers have the width of a cell; addresses and lengths are kept   *)
(* whole, for the cells of a run are narrower than its data space.         *)
(***************************************************************************)
EXTENDS CellArithmetic

CONSTANTS
  Decimal,    \* the base of DECIMAL, D. and U.R: 10 in the source
  Hex,        \* the base of HEX: 16
  CharSize,   \* chars are numbers below it, 256 in the source
  Dash,       \* the char '-'
  Blank,      \* the char ' '
  CellBytes,  \* address units of a cell
  HeapSize,
  Programs    \* families of programs: records of the sets of codes, of stacks,
              \* of bases and of memories [heap, buf] they begin with

ASSUME CellWordsAssumption ==
  /\ Half > 1 /\ Decimal \in 2..HALF /\ Hex \in 2..HALF
  /\ CharSize \in Nat /\ Dash \in HALF..(CharSize - 1) /\ Blank \in HALF..(CharSize - 1)
  /\ CellBytes \in Nat \ {0} /\ HeapSize \in Nat

VARIABLES
  code,
  ds, rs,
  base,
  pno_active, pno_buf,  \* pictured numeric output
  heap, here,
  buf,                  \* strings kept beside their bytes, by slot of a cell
  out,                  \* what the program wrote
  start                 \* history: the program

memory == <<heap, here, buf>>
numbers == <<base, pno_active, pno_buf, out>>
vars == <<code, ds, rs, numbers, memory, start>>

None == <<-1>>
Chars == 0..(CharSize - 1)
Slot(addr) == addr \div CellBytes

Init ==
  \E i \in DOMAIN Programs :
    /\ code \in Programs[i].codes
    /\ ds \in Programs[i].stacks
    /\ base \in Programs[i].bases
    /\ \E m \in Programs[i].memories : heap = m.heap /\ buf = m.buf
    /\ start = [code |-> code, ds |-> ds, base |-> base]
    /\ rs = <<>> /\ here = 0
    /\ pno_active = FALSE /\ pno_buf = <<>>
    /\ out = <<>>

-----------------------------------------------------------------------------
(* The words.                                                              *)

Runs(w) == code # <<>> /\ Head(code) = w /\ code' = Tail(code) /\ UNCHANGED start

AtLeast0(n) == IF n < 0 THEN 0 ELSE n
Least(a, b) == IF a <= b THEN a ELSE b
X(k) == ds[Len(ds) - k]                      \* peek_ds_int(k)
Under(n) == SubSeq(ds, 1, Len(ds) - n)
Flag(cond) == IF cond THEN -1 ELSE 0
Magnitude(n) == U(IF n < 0 THEN -n ELSE n)

\* A word that takes n cells and leaves others, and touches nothing else.
Leaves(n, cells) == ds' = Under(n) \o cells /\ UNCHANGED <<rs, numbers, memory>>
Leave(w, n, cells) == Runs(w) /\ Leaves(n, cells)

\* LIT, with the literals a program here may hold.
Literal == [w \in {"0", "1", "2", "3"} |->
  CASE w = "0" -> 0 [] w = "1" -> 1 [] w = "2" -> 2 [] w = "3" -> 3]
Lit == \E w \in DOMAIN Literal : Leave(w, 0, <<Literal[w]>>)

Shuffle ==
  \/ Leave("DUP", 0, <<X(0)>>)
  \/ Leave("2DUP", 0, <<X(1), X(0)>>)
  \/ Leave("?DUP", 0, IF X(0) # 0 THEN <<X(0)>> ELSE <<>>)
  \/ Leave("DROP", 1, <<>>)
  \/ Leave("NIP", 2, <<X(0)>>)
  \/ Leave("2DROP", 2, <<>>)
  \/ Leave("3DROP", 3, <<>>)

Exchange ==
  \/ Leave("SWAP", 2, <<X(0), X(1)>>)
  \/ Leave("2SWAP", 4, <<X(1), X(0), X(3), X(2)>>)
  \/ Leave("OVER", 0, <<X(1)>>)
  \/ Leave("2OVER", 0, <<X(3), X(2)>>)
  \/ Leave("ROT", 3, <<X(1), X(0), X(2)>>)
  \/ Leave("-ROT", 3, <<X(0), X(2), X(1)>>)

Depth == Leave("DEPTH", 0, <<Len(ds)>>)

Pick == Runs("PICK") /\ Leaves(1, <<X(X(0) + 1)>>)

\* Mutant of Rolled: the count is still on the stack when the item is found.
RolledShort(u) == LET k == Len(ds) - 1 - u + 1
                  IN  Append(RemoveAt(Front(ds), k), ds[k])

\* The items above the u-th move down one, and it comes on top.
Rolled(u) == LET k == Len(ds) - 1 - u
             IN  Append(RemoveAt(Front(ds), k), ds[k])
Roll ==
  /\ Runs("ROLL")
  /\ ds' = IF X(0) <= 0 THEN Front(ds) ELSE Rolled(X(0))
  /\ UNCHANGED <<rs, numbers, memory>>

R(k) == rs[Len(rs) - k]

\* >R R> R@ 2>R 2R> 2R@
ReturnStack ==
  /\ \/ Runs(">R") /\ rs' = Append(rs, X(0)) /\ ds' = Under(1)
     \/ Runs("R>") /\ rs' = Front(rs) /\ ds' = Append(ds, R(0))
     \/ Runs("R@") /\ rs' = rs /\ ds' = Append(ds, R(0))
     \/ Runs("2>R") /\ rs' = rs \o <<X(1), X(0)>> /\ ds' = Under(2)
     \/ Runs("2R>") /\ rs' = Front(Front(rs)) /\ ds' = ds \o <<R(1), R(0)>>
     \/ Runs("2R@") /\ rs' = rs /\ ds' = ds \o <<R(1), R(0)>>
  /\ UNCHANGED <<numbers, memory>>

Relation ==
  \/ Leave("0=", 1, <<Flag(X(0) = 0)>>)
  \/ Leave("0<", 1, <<Flag(X(0) < 0)>>)
  \/ Leave("0>", 1, <<Flag(X(0) > 0)>>)
  \/ Leave("0<>", 1, <<Flag(X(0) # 0)>>)
  \/ Leave(">", 2, <<Flag(X(1) > X(0))>>)
  \/ Leave("<", 2, <<Flag(X(1) < X(0))>>)
ULess == Leave("U<", 2, <<Flag(U(X(1)) < U(X(0)))>>)
Equal == Leave("=", 2, <<Flag(X(1) = X(0))>>)
OtherRelation ==
  \/ Leave("<=", 2, <<Flag(X(1) <= X(0))>>)
  \/ Leave(">=", 2, <<Flag(X(1) >= X(0))>>)
  \/ Leave("<>", 2, <<Flag(X(1) # X(0))>>)
Choice ==
  \/ Leave("MAX", 2, <<IF X(1) < X(0) THEN X(0) ELSE X(1)>>)
  \/ Leave("MIN", 2, <<IF X(1) < X(0) THEN X(1) ELSE X(0)>>)

Plus ==
  \/ Leave("+", 2, <<Wrap(X(1) + X(0))>>)
  \/ Leave("-", 2, <<Wrap(X(1) - X(0))>>)
  \/ Leave("*", 2, <<Wrap(X(1) * X(0))>>)
Negation ==
  \/ Leave("ABS", 1, <<Wrap(IF X(0) < 0 THEN -X(0) ELSE X(0))>>)
  \/ Leave("NEGATE", 1, <<Wrap(-X(0))>>)
Invert == Leave("INVERT", 1, <<-X(0) - 1>>)
Step ==
  \/ Leave("1+", 1, <<Wrap(X(0) + 1)>>)
  \/ Leave("1-", 1, <<Wrap(X(0) - 1)>>)
Twice ==
  \/ Leave("2*", 1, <<Wrap(2 * X(0))>>)
  \/ Leave("2/", 1, <<X(0) \div 2>>)

\* A count that is negative or a whole word or more gives 0.
Shift ==
  LET n == X(0)
      no == n >= 2 * Half \/ n < 0
  IN  \/ Leave("LSHIFT", 2, <<IF no THEN 0 ELSE Wrap(U(X(1)) * 2 ^ n)>>)
      \/ Leave("RSHIFT", 2, <<IF no THEN 0 ELSE Wrap(U(X(1)) \div 2 ^ n)>>)

-----------------------------------------------------------------------------
(* Doubles: two cells, the high one on top.                                *)

SToD == Leave("S>D", 1, <<X(0), IF X(0) >= 0 THEN 0 ELSE -1>>)

DPlus ==
  LET sum == U(U(X(3)) + U(X(1)))
  IN  Leave("D+", 4, <<Wrap(sum), Wrap(X(2) + X(0) + One(sum < U(X(3))))>>)

DMinus ==
  LET borrow == One(U(X(1)) > U(X(3)))
  IN  Leave("D-", 4, <<Wrap(U(X(3)) - U(X(1))), Wrap(X(2) - X(0) - borrow)>>)

\* Mutant of DHalf: the new low word is not made a cell again.
DHalfUnwrapped ==
  Leave("D2/", 2, <<(U(X(1)) \div 2) + (U(X(0)) % 2) * (WORD \div 2), X(0) \div 2>>)

DHalf ==
  Leave("D2/", 2, <<Wrap((U(X(1)) \div 2) + (U(X(0)) % 2) * (WORD \div 2)), X(0) \div 2>>)

\* UM* and M*: a negative factor counts WORD too much in the unsigned product.
UMStar ==
  LET p == MulUnsigned(U(X(1)), U(X(0)))
  IN  Leave("UM*", 2, <<Wrap(p.lo), Wrap(p.hi)>>)
MStar ==
  LET a == X(1)
      b == X(0)
      p == MulUnsigned(U(a), U(b))
  IN  Leave("M*", 2, <<Wrap(p.lo), Wrap(p.hi - One(a < 0) * U(b) - One(b < 0) * U(a))>>)

\* The division words assert that the divisor is not 0.
Divides(w) == Runs(w) /\ X(0) # 0

UMDivMod ==
  LET d == UdDivMod(U(X(2)), U(X(1)), U(X(0)))
  IN  Divides("UM/MOD") /\ Leaves(3, <<d.rem, d.lo>>)

FMDivMod ==
  LET n == X(0)
      negative == X(1) < 0
      differ == negative # (n < 0)
      ud == IF negative THEN NegateDouble(X(2), X(1)) ELSE [lo |-> U(X(2)), hi |-> X(1)]
      d == UdDivMod(ud.lo, ud.hi, Magnitude(n))
      rem == Wrap(IF negative THEN -d.rem ELSE d.rem)
      quot == Wrap(IF differ THEN -d.lo ELSE d.lo)
  IN  /\ Divides("FM/MOD")
      /\ Leaves(3, IF rem # 0 /\ differ THEN <<Wrap(rem + n), Wrap(quot - 1)>>
                                         ELSE <<rem, quot>>)

\* The high cell is not looked at.  abs() of the smallest cell is itself.
SMDivRem ==
  LET a == Wrap(Magnitude(X(0)))
      d == Wrap(Magnitude(X(2)))
      q == FloorDiv(d, a)
      r == d - q * a
  IN  /\ Divides("SM/REM")
      /\ Leaves(3, <<Wrap(IF X(2) < 0 THEN -r ELSE r),
                     Wrap(IF (X(2) < 0) # (X(0) < 0) THEN -q ELSE q)>>)

Divide == Divides("/") /\ Leaves(2, <<Wrap(FloorDiv(X(1), X(0)))>>)

\* int(a / b) is a // b on machine words; the product is one word.
SingleDivide ==
  LET Q(n) == FloorDiv(n, X(0))
      Rem(n) == Wrap(n - Wrap(Q(n)) * X(0))
      product == Wrap(X(2) * X(1))
  IN  \/ Divides("MOD") /\ Leaves(2, <<Rem(X(1))>>)
      \/ Divides("/MOD") /\ Leaves(2, <<Rem(X(1)), Wrap(Q(X(1)))>>)
      \/ Divides("*/") /\ Leaves(3, <<Wrap(Q(product))>>)
      \/ Divides("*/MOD") /\ Leaves(3, <<Rem(product), Wrap(Q(product))>>)

\* Mutant of Rounded: a negative quotient is cut toward zero.
RoundedToZero(n, r) == n

\* A negated quotient is one less when there was a rest.
Rounded(n, r) ==
  IF r = 0 THEN n ELSE [lo |-> U(n.lo - 1), hi |-> U(n.hi - One(n.lo = 0))]

\* Magnitudes are multiplied to three cells and divided.
Scaled(lo, hi, n1, n2) ==
  LET d == IF hi < 0 THEN NegateDouble(lo, hi) ELSE [lo |-> U(lo), hi |-> U(hi)]
      un1 == Magnitude(n1)
      quotient == DivHalves(MulHalves(<<Low(d.lo), High(d.lo), Low(d.hi), High(d.hi)>>,
                                      <<Low(un1), High(un1)>>), Magnitude(n2))
      q == [lo |-> quotient.q[1] + quotient.q[2] * HALF,
            hi |-> quotient.q[3] + quotient.q[4] * HALF]
  IN  IF (hi < 0) = ((n1 < 0) # (n2 < 0)) THEN q
      ELSE Rounded(NegateDouble(q.lo, q.hi), quotient.r)

MStarSlash ==
  LET q == Scaled(X(3), X(2), X(1), X(0))
  IN  Leave("M*/", 4, IF X(0) = 0 THEN <<0, 0>> ELSE <<Wrap(q.lo), Wrap(q.hi)>>)

-----------------------------------------------------------------------------
(* Numbers as text.                                                        *)

Base(w, n) == Runs(w) /\ base' = n /\ UNCHANGED <<ds, rs, pno_active, pno_buf, out, memory>>
SetBase == Base("HEX", Hex) \/ Base("DECIMAL", Decimal) \/ Base("BINARY", 2)

LessNumber ==
  /\ Runs("<#")
  /\ pno_active' = TRUE /\ pno_buf' = <<>>
  /\ UNCHANGED <<ds, rs, base, out, memory>>

\* Outside <# #> the other words print what they are and do nothing.
Pictured(w, n, cells, text) ==
  /\ Runs(w)
  /\ IF pno_active
     THEN ds' = Under(n) \o cells /\ pno_buf' = text /\ out' = out
     ELSE ds' = ds /\ pno_buf' = pno_buf /\ out' = Append(out, w)
  /\ UNCHANGED <<rs, base, pno_active, memory>>

NumberSign ==
  LET d == UdDivMod(U(X(1)), U(X(0)), U(base))
  IN  Pictured("#", 2, <<d.lo, d.hi>>, <<d.rem>> \o pno_buf)

\* Highest first; at least one.
Numeral(lo, hi, b) ==
  IF lo = 0 /\ hi = 0 THEN <<0>> ELSE Reverse(Digits[lo, hi, b])
NumberSignS == Pictured("#S", 2, <<0, 0>>, Numeral(U(X(1)), U(X(0)), U(base)) \o pno_buf)
Hold == Pictured("HOLD", 1, <<>>, <<X(0)>> \o pno_buf)
Sign == Pictured("SIGN", 1, <<>>, IF X(0) < 0 THEN <<Dash>> \o pno_buf ELSE pno_buf)

AlignUp(n) == ((n + CellBytes - 1) \div CellBytes) * CellBytes

\* alloc_buf: a string in its own slot, and its bytes in data space.
AllocBuf(addr, text) ==
  /\ heap' = [a \in DOMAIN heap |-> IF a - addr + 1 \in DOMAIN text THEN text[a - addr + 1]
                                                                ELSE heap[a]]
  /\ buf' = [buf EXCEPT ![Slot(addr)] = text]
  /\ here' = Slot(addr + Len(text) + CellBytes) * CellBytes

NumberGreater ==
  /\ Runs("#>")
  /\ IF pno_active
     THEN /\ AllocBuf(AlignUp(here), pno_buf)
          /\ ds' = Under(2) \o <<AlignUp(here), Len(pno_buf)>>
          /\ pno_active' = FALSE /\ out' = out
     ELSE out' = Append(out, "#>") /\ UNCHANGED <<ds, pno_active, memory>>
  /\ UNCHANGED <<rs, base, pno_buf>>

Writes(w, n, text) ==
  /\ Runs(w)
  /\ ds' = Under(n)
  /\ out' = out \o text
  /\ UNCHANGED <<rs, base, pno_active, pno_buf, memory>>
Padded(n, text) == [k \in 1..(n - Len(text)) |-> Blank] \o text
UDot == Writes("U.", 1, Numeral(U(X(0)), 0, U(base)))
UDotR == Writes("U.R", 2, Padded(X(0), Numeral(U(X(1)), 0, Decimal)))
DDot ==
  LET d == IF X(0) < 0 THEN NegateDouble(X(1), X(0)) ELSE [lo |-> U(X(1)), hi |-> U(X(0))]
  IN  Writes("D.", 2, (IF X(0) < 0 THEN <<Dash>> ELSE <<>>) \o Numeral(d.lo, d.hi, Decimal))

-----------------------------------------------------------------------------
(* Bytes of data space.  An address outside it is an assertion's business. *)

Inside(addr, n) == addr >= 0 /\ addr + n <= HeapSize
Touches(addr, n) == n <= 0 \/ Inside(addr, n)

Store(n, h) == ds' = Under(n) /\ heap' = h /\ UNCHANGED <<rs, numbers, here, buf>>

Filled(addr, u, char) ==
  [a \in DOMAIN heap |-> IF a \in addr..(addr + u - 1) THEN char % CharSize ELSE heap[a]]
Fill == Runs("FILL") /\ Touches(X(2), X(1)) /\ Store(3, Filled(X(2), X(1), X(0)))

\* Copies the bytes at the offsets of a sequence, one after the other.
Copied(src, dst, offsets) ==
  FoldLeft(LAMBDA h, i : [h EXCEPT ![dst + i] = h[src + i]], heap, offsets)
Ascending(u) == [k \in 1..AtLeast0(u) |-> k - 1]
Descending(u) == Reverse(Ascending(u))

\* Mutant of Moved: always from the low end.
MovedUp(src, dst, u) == Copied(src, dst, Ascending(u))

\* move_bytes: from the end that is not overwritten first.
Moved(src, dst, u) ==
  IF src = dst THEN heap
  ELSE Copied(src, dst, IF dst < src THEN Ascending(u) ELSE Descending(u))

Move ==
  /\ \/ Runs("MOVE") /\ Store(3, Moved(X(2), X(1), X(0)))
     \/ Runs("CMOVE") /\ Store(3, Copied(X(2), X(1), Ascending(X(0))))
     \/ Runs("CMOVE>") /\ Store(3, Copied(X(2), X(1), Descending(X(0))))
  /\ Touches(X(2), X(0)) /\ Touches(X(1), X(0))

CStore ==
  Runs("C!") /\ Inside(X(0), 1) /\ Store(2, [heap EXCEPT ![X(0)] = X(1) % CharSize])
CFetch == Runs("C@") /\ Inside(X(0), 1) /\ Leaves(1, <<heap[X(0)]>>)

Alignment ==
  \/ Leave("ALIGNED", 1, <<AlignUp(X(0))>>)
  \/ /\ Runs("ALIGN")
     /\ here' = AlignUp(here)
     /\ UNCHANGED <<ds, rs, numbers, heap, buf>>
CharAddress ==
  \/ Leave("CHAR+", 1, <<X(0) + 1>>)
  \/ Leave("CHARS", 1, <<X(0)>>)
CellAddress ==
  \/ Leave("CELL+", 1, <<X(0) + CellBytes>>)
  \/ Leave("CELLS", 1, <<X(0) * CellBytes>>)

Here == Leave("HERE", 0, <<here>>)
DataSpace ==
  /\ \/ Runs("ALLOT") /\ here' = here + X(0) /\ heap' = heap
     \/ /\ Runs("C,") /\ Inside(here, 1)
        /\ heap' = [heap EXCEPT ![here] = X(0) % CharSize]
        /\ here' = here + 1
  /\ ds' = Under(1)
  /\ UNCHANGED <<rs, numbers, buf>>

-----------------------------------------------------------------------------
(* Strings: an address and a length.                                       *)

Bytes(addr, u) == [k \in 1..u |-> heap[addr + k - 1]]

\* _read_cstr: the boxed string of the slot, if it has one, else the bytes.
ReadString(addr, u) ==
  LET boxed == buf[Slot(addr)]
  IN  IF boxed = None THEN Bytes(addr, u)
      ELSE IF u < Len(boxed) THEN SubSeq(boxed, 1, u) ELSE boxed

\* Mutant of Compared: a prefix is taken for the same string.
ComparedPrefix(s, t) ==
  LET differ == {k \in 1..Least(Len(s), Len(t)) : s[k] # t[k]}
      k == CHOOSE i \in differ : \A j \in differ : i <= j
  IN  IF differ = {} THEN 0 ELSE IF s[k] < t[k] THEN -1 ELSE 1

\* The first char that differs decides, else the lengths.
Compared(s, t) ==
  LET differ == {k \in 1..Least(Len(s), Len(t)) : s[k] # t[k]}
      k == CHOOSE i \in differ : \A j \in differ : i <= j
  IN  IF differ # {} THEN IF s[k] < t[k] THEN -1 ELSE 1
      ELSE IF Len(s) < Len(t) THEN -1 ELSE One(Len(s) > Len(t))

\* COMPARE reads the bytes.
Compare ==
  LET u1 == AtLeast0(X(2))
      u2 == AtLeast0(X(0))
  IN  /\ Runs("COMPARE")
      /\ Touches(X(3), u1) /\ Touches(X(1), u2)
      /\ Leaves(4, <<Compared(Bytes(X(3), u1), Bytes(X(1), u2))>>)

MatchesAt(s, t, i) == \A k \in DOMAIN t : s[i + k] = t[k]

\* The first place of t in s, or -1.
FirstMatch(s, t, u1, u2) ==
  LET places == {i \in 0..(u1 - u2) : MatchesAt(s, t, i)}
  IN  IF places = {} THEN -1 ELSE CHOOSE i \in places : \A j \in places : i <= j

\* Reading past a string that is shorter than its length says is undefined,
\* and no program here does it.
Search ==
  LET u1 == AtLeast0(X(2))
      u2 == AtLeast0(X(0))
      s == ReadString(X(3), u1)
      t == ReadString(X(1), u2)
      found == FirstMatch(s, t, u1, u2)
  IN  /\ Runs("SEARCH")
      /\ Touches(X(3), u1) /\ Touches(X(1), u2) /\ Len(s) >= u1 /\ Len(t) >= u2
      /\ Leaves(4, IF found >= 0 THEN <<X(3) + found, u1 - found, -1>>
                                ELSE <<X(3), u1, 0>>)

-----------------------------------------------------------------------------
\* A program that has run stays; one that cannot go on is a deadlock.
Done == code = <<>> /\ UNCHANGED vars

Next ==
  \/ Done
  \/ Lit \/ Shuffle \/ Exchange \/ Depth \/ Pick \/ Roll \/ ReturnStack
  \/ Relation \/ ULess \/ Equal \/ OtherRelation \/ Choice
  \/ Plus \/ Negation \/ Invert \/ Step \/ Twice \/ Shift
  \/ SToD \/ DPlus \/ DMinus \/ DHalf \/ UMStar \/ MStar
  \/ UMDivMod \/ FMDivMod \/ SMDivRem \/ Divide \/ SingleDivide \/ MStarSlash
  \/ SetBase \/ LessNumber \/ NumberSign \/ NumberSignS \/ Hold \/ Sign \/ NumberGreater
  \/ UDot \/ UDotR \/ DDot
  \/ Fill \/ Move \/ CStore \/ CFetch
  \/ Alignment \/ CharAddress \/ CellAddress \/ Here \/ DataSpace
  \/ Compare \/ Search

Spec == Init /\ [][Next]_vars
=============================================================================
