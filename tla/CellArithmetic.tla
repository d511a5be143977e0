--------------------------- MODULE CellArithmetic ---------------------------
(***************************************************************************)
(* Cells and doubles in machine words of LONG_BIT = 2 * Half bits, and the *)
(* double-cell algorithms of primitives.py, which avoid shifts by a whole  *)
(* word: carries are read off unsigned comparisons, and products and       *)
(* quotients are built from half-cells (the source writes 32 for Half).    *)
(***************************************************************************)
EXTENDS Integers, Sequences, SequencesExt

CONSTANT Half  \* bits in half a cell

ASSUME HalfAssumption == Half \in Nat \ {0}

HALF == 2 ^ Half
WORD == HALF * HALF
Cell == -(WORD \div 2) .. (WORD \div 2 - 1)

U(n) == n % WORD                                       \* r_uint
Wrap(n) == ((n + WORD \div 2) % WORD) - WORD \div 2      \* intmask
High(u) == u \div HALF
Low(u) == u % HALF
One(cond) == IF cond THEN 1 ELSE 0

\* Division as RPython does it: toward minus infinity.
FloorDiv(a, b) == IF b > 0 THEN a \div b ELSE (-a) \div (-b)

\* A double's two's complement, in unsigned words; the carry into the high
\* word is that of the low word.
NegateDouble(lo, hi) ==
  LET tlo == U(-lo - 1)
  IN  [lo |-> U(tlo + 1), hi |-> U((-hi - 1) + One(tlo = WORD - 1))]

\* Mutant of UdDivMod: the second half divides without the first's remainder.
UdDivModNoCarry(lo, hi, base) ==
  LET t1 == ((hi % base) * HALF) + High(lo)
      t2 == Low(lo)
  IN  [lo  |-> Wrap((t1 \div base) * HALF + t2 \div base),
       hi  |-> Wrap(hi \div base),
       rem |-> Wrap(t2 % base)]

\* The unsigned double (lo, hi) by base, in two halves.  What a remainder
\* above HALF holds beyond a word is shifted out.
UdDivMod(lo, hi, base) ==
  LET t1 == U((hi % base) * HALF) + High(lo)
      t2 == U((t1 % base) * HALF) + Low(lo)
  IN  [lo  |-> Wrap((t1 \div base) * HALF + t2 \div base),
       hi  |-> Wrap(hi \div base),
       rem |-> Wrap(t2 % base)]

\* Mutant of MulUnsigned: the carry of the sum of the middle products is lost.
MulUnsignedNoMidCarry(ua, ub) ==
  LET lh == Low(ua) * High(ub)
      mid == U(lh + High(ua) * Low(ub))
      lo == U(Low(ua) * Low(ub) + U(mid * HALF))
  IN  [lo |-> lo,
       hi |-> U(High(ua) * High(ub) + High(mid) + One(lo < Low(ua) * Low(ub)))]

\* The unsigned product of two words as two words.
MulUnsigned(ua, ub) ==
  LET ll == Low(ua) * Low(ub)
      lh == Low(ua) * High(ub)
      mid == U(lh + High(ua) * Low(ub))
      lo == U(ll + U(mid * HALF))
  IN  [lo |-> lo,
       hi |-> U(High(ua) * High(ub) + High(mid) + One(mid < lh) * HALF + One(lo < ll))]

\* Schoolbook product of the half-cells of a double and of a word, lowest first.
MulHalves(aa, bb) ==
  LET Row(p, i) ==
        LET first == p[i] + aa[i] * bb[1]
            second == p[i + 1] + aa[i] * bb[2] + High(first)
        IN  [p EXCEPT ![i] = Low(first), ![i + 1] = Low(second),
                      ![i + 2] = @ + High(second)]
  IN  FoldLeft(Row, [k \in 1..6 |-> 0], <<1, 2, 3, 4>>)

\* Six half-cells, lowest first, by a word: the quotient's half-cells and the rest.
DivHalves(p, u) ==
  LET Digit(acc, k) ==
        LET t == U(acc.r * HALF) + p[k]
        IN  [q |-> [acc.q EXCEPT ![k] = t \div u], r |-> t % u]
  IN  FoldLeft(Digit, [q |-> [k \in 1..6 |-> 0], r |-> 0], <<6, 5, 4, 3, 2, 1>>)

\* The digits of an unsigned double, lowest first; no digit for zero.
Digits[lo \in 0..(WORD - 1), hi \in 0..(WORD - 1), base \in 2..HALF] ==
  IF lo = 0 /\ hi = 0 THEN <<>>
  ELSE LET d == UdDivMod(lo, hi, base)
       IN  <<d.rem>> \o Digits[U(d.lo), U(d.hi), base]
=============================================================================
