------------------------- MODULE FactorInterpProofs -------------------------
(***************************************************************************)
(* The frames and fragments of rpyfactor, for every program: pointers stay *)
(* in their arrays, every frame that waits has a place that names it, and  *)
(* there are as many fragments as frames that run a program.               *)
(***************************************************************************)
EXTENDS FactorInterp, FiniteSetTheorems, SequenceTheorems, WellFoundedInduction, TLAPS

-----------------------------------------------------------------------------
(* The values of a run.  Values nest (a list has values, a quotation items, *)
(* and an item may be a literal list), so the sets of values and items are  *)
(* parameters, of which only what builds and takes apart a value is said.   *)

\* V has the values there are with n arrays, and I the items of programs.
Values(V, n, I) ==
  /\ None \in V
  /\ \A x \in Int : IntV(x) \in V
  /\ \A vs \in Seq(V) : ListV(vs) \in V
  /\ \A p \in Seq(I) : QuotV(p) \in V
  /\ \A k \in 1..n : <<"array", k>> \in V
  /\ \A item \in I : item[1] \notin {"word", "bool"} => item \in V
  /\ \A v \in V :
       /\ IsInt(v) => v[2] \in Int /\ v = IntV(v[2])
       /\ IsList(v) => v[2] \in Seq(V)
       /\ IsQuot(v) => v[2] \in Seq(I)
       /\ IsArray(v) => v[2] \in 1..n

\* The values and items a run works with: there are more values when there
\* are more arrays, and the programs there are have items of I.  Of any programs
\* the lexer makes it holds with I the items it can make, and with U[n] the least
\* set with the integers, None, the literals of I, the n arrays, and the lists and
\* quotations of its members and of I: no value is left out, and none is let in
\* that is not a number, a list, a quotation, an array or another literal.
World(U, I) ==
  /\ \A n \in Nat : Values(U[n], n, I) /\ U[n] \subseteq U[n + 1]
  /\ None \notin I
  /\ Programs \subseteq Seq(I)
  /\ \A w \in DOMAIN Dict : Dict[w] \in Seq(I)

Cells(V) == {Parts(v) : v \in V}
Frame0 == 0..(FrameSize - 1)
Spill0 == 0..(SpillSize - 1)

Errors ==
  {Ok, "overflow", "underflow", "fragment underflow", "expected integer",
   "expected list", "expected quotation", "division by zero", "empty list",
   "expected list or array", "nth expects array or list", "index out of range",
   "expected non-negative", "set-nth expects array", "call stack overflow",
   "non-negative", "expected symbol", "unknown word"}

NaiveStacks(V) == [layout : {"naive"}, items : Seq(V), err : Errors]
CacheStacks(V, f) ==
  [layout : {"fragment"}, t0 : Cells(V), t1 : Cells(V), d : 0..ActiveMax,
   frame : [Frame0 -> Cells(V)], frag : {f}, spill : [Spill0 -> Cells(V)],
   sp : 0..SpillSize, err : Errors]

\* The stacks of a layout with f open fragments.
Stacks(l, V, f) == IF l = "naive" THEN NaiveStacks(V) ELSE CacheStacks(V, f)

Snapshots(l, V) ==
  IF l = "naive" THEN [items : Seq(V)]
  ELSE [t0 : Cells(V), t1 : Cells(V), d : 0..ActiveMax, frame : [Frame0 -> Cells(V)],
        frag : Nat, sp : 0..SpillSize]

-----------------------------------------------------------------------------
(* Cells and stacks *)

LEMMA Sizes == /\ FrameSize \in Nat /\ FrameSize > 0 /\ SpillSize \in Nat
               /\ ActiveMax = FrameSize + 2 /\ NTOP = 2
<1>1. FrameSize \in Nat /\ FrameSize > 0 /\ SpillSize \in Nat
  BY FactorSizes
<1> QED BY <1>1 DEF ActiveMax, NTOP

\* The places that name a frame lie below 0, those of one kind apart from those
\* of the next.
LEMMA Bases ==
  /\ IP_RESUME_PRIMREC \in Int /\ IP_RESUME_LINREC \in Int /\ IP_RESUME_BINREC \in Int
  /\ CsDepth \in Nat /\ IP_RESUME_PRIMREC < 0
  /\ IP_RESUME_PRIMREC - CsDepth >= IP_RESUME_LINREC
  /\ IP_RESUME_LINREC - CsDepth >= IP_RESUME_BINREC
  /\ IP_RESUME_BINREC - CsDepth >= 2 * IP_RESUME_BINREC
<1>1. CsDepth \in 0..(IP_RESUME_PRIMREC - IP_RESUME_LINREC)
  BY DepthAssumption
<1>2. IP_RESUME_PRIMREC \in Int /\ IP_RESUME_LINREC \in Int /\ IP_RESUME_BINREC \in Int
  BY SMT DEF IP_RESUME_PRIMREC, IP_RESUME_LINREC, IP_RESUME_BINREC
<1>3. /\ IP_RESUME_PRIMREC < 0
      /\ IP_RESUME_PRIMREC - IP_RESUME_LINREC = IP_RESUME_LINREC - IP_RESUME_BINREC
      /\ IP_RESUME_LINREC < IP_RESUME_PRIMREC
      /\ 3 * IP_RESUME_LINREC = 2 * IP_RESUME_BINREC
  BY SMT DEF IP_RESUME_PRIMREC, IP_RESUME_LINREC, IP_RESUME_BINREC
<1> QED BY <1>1, <1>2, <1>3, SMT

LEMMA ErrorsAre ==
  /\ Ok \in Errors /\ "overflow" \in Errors /\ "underflow" \in Errors
  /\ "fragment underflow" \in Errors /\ "expected integer" \in Errors
  /\ "expected list" \in Errors /\ "expected quotation" \in Errors
  /\ "division by zero" \in Errors /\ "empty list" \in Errors
  /\ "expected list or array" \in Errors /\ "nth expects array or list" \in Errors
  /\ "index out of range" \in Errors /\ "expected non-negative" \in Errors
  /\ "set-nth expects array" \in Errors /\ "call stack overflow" \in Errors
  /\ "non-negative" \in Errors /\ "expected symbol" \in Errors
  /\ "unknown word" \in Errors
BY DEF Errors

\* A cell is the value it was made from.
LEMMA CellIsValue ==
  ASSUME NEW V, NEW n, NEW I, Values(V, n, I), NEW v \in V
  PROVE  Parts(v) \in Cells(V) /\ CellValue(Parts(v)) = v
<1>1. Parts(v) \in Cells(V)
  BY DEF Cells
<1>2. CASE IsInt(v)
  <2>1. v = IntV(v[2]) /\ Parts(v).t = "int" /\ Parts(v).i = v[2]
    BY <1>2 DEF Values, Parts
  <2> QED BY <1>1, <2>1 DEF CellValue
<1>3. CASE ~IsInt(v)
  <2>1. Parts(v).t = "obj" /\ Parts(v).o = v
    BY <1>3 DEF Parts
  <2> QED BY <1>1, <2>1 DEF CellValue
<1> QED BY <1>2, <1>3

LEMMA CellTyped ==
  ASSUME NEW V, NEW n, NEW I, Values(V, n, I), NEW c \in Cells(V)
  PROVE  CellValue(c) \in V /\ (c.t = "int" => c.o = None)
<1>1. PICK v \in V : c = Parts(v)
  BY DEF Cells
<1>2. CellValue(c) \in V
  BY <1>1, CellIsValue
<1>3. c.t = "int" => c.o = None
  BY <1>1 DEF Parts
<1> QED BY <1>2, <1>3

LEMMA BlankIsCell ==
  ASSUME NEW V, NEW n, NEW I, Values(V, n, I)
  PROVE  Blank \in Cells(V)
<1>1. None \in V /\ ~IsInt(None)
  BY DEF Values, None, IsInt
<1>2. Parts(None) = Blank
  BY <1>1 DEF Parts, Blank
<1> QED BY <1>1, <1>2 DEF Cells

\* An exception is all that Raise changes.
LEMMA RaiseStays ==
  ASSUME NEW l, NEW V, NEW f, NEW s \in Stacks(l, V, f), NEW e \in Errors
  PROVE  Raise(s, e) \in Stacks(l, V, f)
<1>1. CASE l = "naive"
  BY <1>1 DEF Stacks, NaiveStacks, Raise
<1>2. CASE l # "naive"
  BY <1>2 DEF Stacks, CacheStacks, Raise
<1> QED BY <1>1, <1>2

LEMMA RaiseFine ==
  ASSUME NEW l, NEW V, NEW f, NEW s \in Stacks(l, V, f), NEW e \in Errors, e # Ok
  PROVE  ~Fine(Raise(s, e))
<1>1. CASE l = "naive"
  BY <1>1 DEF Stacks, NaiveStacks, Raise, Fine
<1>2. CASE l # "naive"
  BY <1>2 DEF Stacks, CacheStacks, Raise, Fine
<1> QED BY <1>1, <1>2

\* One field of a stack of the cache at a time.
LEMMA CacheSet ==
  ASSUME NEW V, NEW f, NEW s \in CacheStacks(V, f)
  PROVE  /\ \A x \in Cells(V) : [s EXCEPT !.t0 = x] \in CacheStacks(V, f)
         /\ \A x \in Cells(V) : [s EXCEPT !.t1 = x] \in CacheStacks(V, f)
         /\ \A x \in 0..ActiveMax : [s EXCEPT !.d = x] \in CacheStacks(V, f)
         /\ \A x \in [Frame0 -> Cells(V)] : [s EXCEPT !.frame = x] \in CacheStacks(V, f)
         /\ \A x : [s EXCEPT !.frag = x] \in CacheStacks(V, x)
         /\ \A x \in [Spill0 -> Cells(V)] : [s EXCEPT !.spill = x] \in CacheStacks(V, f)
         /\ \A x \in 0..SpillSize : [s EXCEPT !.sp = x] \in CacheStacks(V, f)
         /\ \A x \in Errors : [s EXCEPT !.err = x] \in CacheStacks(V, f)
<1>1. ASSUME NEW x \in Cells(V)
      PROVE  [s EXCEPT !.t0 = x] \in CacheStacks(V, f) /\ [s EXCEPT !.t1 = x] \in CacheStacks(V, f)
  BY DEF CacheStacks
<1>2. ASSUME NEW x \in 0..ActiveMax PROVE [s EXCEPT !.d = x] \in CacheStacks(V, f)
  BY DEF CacheStacks
<1>3. ASSUME NEW x \in [Frame0 -> Cells(V)] PROVE [s EXCEPT !.frame = x] \in CacheStacks(V, f)
  BY DEF CacheStacks
<1>4. ASSUME NEW x PROVE [s EXCEPT !.frag = x] \in CacheStacks(V, x)
  BY DEF CacheStacks
<1>5. ASSUME NEW x \in [Spill0 -> Cells(V)] PROVE [s EXCEPT !.spill = x] \in CacheStacks(V, f)
  BY DEF CacheStacks
<1>6. ASSUME NEW x \in 0..SpillSize PROVE [s EXCEPT !.sp = x] \in CacheStacks(V, f)
  BY DEF CacheStacks
<1>7. ASSUME NEW x \in Errors PROVE [s EXCEPT !.err = x] \in CacheStacks(V, f)
  BY DEF CacheStacks
<1> QED BY <1>1, <1>2, <1>3, <1>4, <1>5, <1>6, <1>7

\* The fields of a stack of the cache.
LEMMA CacheFields ==
  ASSUME NEW V, NEW f, NEW s \in CacheStacks(V, f)
  PROVE  /\ s.layout = "fragment" /\ ~IsNaive(s) /\ s.frag = f /\ s.err \in Errors
         /\ s.t0 \in Cells(V) /\ s.t1 \in Cells(V)
         /\ s.d \in 0..ActiveMax /\ s.d \in Nat /\ s.sp \in 0..SpillSize /\ s.sp \in Nat
         /\ s.frame \in [Frame0 -> Cells(V)] /\ s.spill \in [Spill0 -> Cells(V)]
BY Sizes DEF CacheStacks, IsNaive

LEMMA SpillBottomStays ==
  ASSUME NEW V, NEW f, NEW s \in CacheStacks(V, f), s.d > 0
  PROVE  /\ SpillBottom(s) \in CacheStacks(V, f)
         /\ Fine(SpillBottom(s)) => SpillBottom(s).d = s.d - 1
<1> DEFINE sp2 == [s.spill EXCEPT ![s.sp] = s.frame[0]]
           fr2 == [k \in DOMAIN s.frame |->
                     IF k < FrameSize - 1 THEN s.frame[k + 1] ELSE s.frame[k]]
<1>0. /\ s.spill \in [Spill0 -> Cells(V)] /\ s.frame \in [Frame0 -> Cells(V)]
      /\ s.sp \in 0..SpillSize /\ s.d \in 0..ActiveMax
  BY CacheFields
<1>1. CASE s.sp >= SpillSize
  <2>1. SpillBottom(s) = Raise(s, "overflow")
    BY <1>1, SMT DEF SpillBottom
  <2>2. Raise(s, "overflow") \in CacheStacks(V, f)
    BY ErrorsAre, CacheSet DEF Raise
  <2>3. ~Fine(Raise(s, "overflow"))
    BY DEF Raise, Fine, Ok, CacheStacks
  <2> QED BY <2>1, <2>2, <2>3
<1>2. CASE ~(s.sp >= SpillSize)
  <2>1. fr2 \in [Frame0 -> Cells(V)]
    BY <1>0, Sizes DEF Frame0
  <2>2. sp2 \in [Spill0 -> Cells(V)]
    <3>1. s.frame[0] \in Cells(V)
      BY <1>0, Sizes DEF Frame0
    <3> QED BY <1>0, <3>1
  <2>3. SpillBottom(s) = [s EXCEPT !.spill = sp2, !.sp = s.sp + 1, !.frame = fr2, !.d = s.d - 1]
    BY <1>2, SMT DEF SpillBottom
  <2>4. s.sp + 1 \in 0..SpillSize /\ s.d - 1 \in 0..ActiveMax
    BY <1>0, <1>2, Sizes
  <2> HIDE DEF fr2, sp2
  <2> DEFINE r1 == [s EXCEPT !.spill = sp2]
             r2 == [r1 EXCEPT !.sp = s.sp + 1]
             r3 == [r2 EXCEPT !.frame = fr2]
             r4 == [r3 EXCEPT !.d = s.d - 1]
  <2>5. r1 \in CacheStacks(V, f)
    BY <2>2, CacheSet
  <2> HIDE DEF r1
  <2>6. r2 \in CacheStacks(V, f)
    BY <2>4, <2>5, CacheSet
  <2> HIDE DEF r2
  <2>7. r3 \in CacheStacks(V, f)
    BY <2>1, <2>6, CacheSet
  <2> HIDE DEF r3
  <2>8. r4 \in CacheStacks(V, f) /\ r4.d = s.d - 1
    <3>1. r4 \in CacheStacks(V, f)
      BY <2>4, <2>7, CacheSet
    <3>2. r4.d = s.d - 1
      BY <2>7 DEF CacheStacks
    <3> QED BY <3>1, <3>2
  <2>9. SpillBottom(s) = r4
    BY <2>3 DEF r1, r2, r3
  <2> QED BY <2>8, <2>9
<1> QED BY <1>1, <1>2

LEMMA NaiveFields ==
  ASSUME NEW V, NEW s \in NaiveStacks(V)
  PROVE  /\ IsNaive(s) /\ s.layout = "naive" /\ s.items \in Seq(V) /\ Len(s.items) \in Nat
         /\ s.err \in Errors
         /\ \A x \in Seq(V) : [s EXCEPT !.items = x] \in NaiveStacks(V)
         /\ \A x \in Errors : [s EXCEPT !.err = x] \in NaiveStacks(V)
<1>1. IsNaive(s) /\ s.layout = "naive" /\ s.items \in Seq(V) /\ s.err \in Errors
  BY DEF NaiveStacks, IsNaive
<1>2. Len(s.items) \in Nat
  BY <1>1, LenProperties
<1>3. ASSUME NEW x \in Seq(V) PROVE [s EXCEPT !.items = x] \in NaiveStacks(V)
  BY DEF NaiveStacks
<1>4. ASSUME NEW x \in Errors PROVE [s EXCEPT !.err = x] \in NaiveStacks(V)
  BY DEF NaiveStacks
<1> QED BY <1>1, <1>2, <1>3, <1>4

LEMMA PushCachedStays ==
  ASSUME NEW V, NEW f, NEW s \in CacheStacks(V, f), s.d < ActiveMax, NEW c \in Cells(V)
  PROVE  PushCached(s, c) \in CacheStacks(V, f)
<1> DEFINE fr2 == IF s.d >= NTOP THEN [s.frame EXCEPT ![s.d - NTOP] = s.t1] ELSE s.frame
           r1 == [s EXCEPT !.frame = fr2]
           r2 == [r1 EXCEPT !.t1 = s.t0]
           r3 == [r2 EXCEPT !.t0 = c]
           r4 == [r3 EXCEPT !.d = s.d + 1]
<1>1. fr2 \in [Frame0 -> Cells(V)]
  BY CacheFields, Sizes DEF Frame0
<1>2. s.d + 1 \in 0..ActiveMax /\ s.t0 \in Cells(V)
  BY CacheFields, Sizes
<1>3. PushCached(s, c) = r4
  BY DEF PushCached
<1> HIDE DEF fr2
<1>4. r1 \in CacheStacks(V, f)
  BY <1>1, CacheSet
<1> HIDE DEF r1
<1>5. r2 \in CacheStacks(V, f)
  BY <1>2, <1>4, CacheSet
<1> HIDE DEF r2
<1>6. r3 \in CacheStacks(V, f)
  BY <1>5, CacheSet
<1> HIDE DEF r3
<1>7. r4 \in CacheStacks(V, f)
  BY <1>2, <1>6, CacheSet
<1> QED BY <1>3, <1>7

LEMMA PushCellStays ==
  ASSUME NEW V, NEW n, NEW I, Values(V, n, I), NEW l, NEW f,
         NEW s \in Stacks(l, V, f), NEW c \in Cells(V)
  PROVE  PushCell(s, c) \in Stacks(l, V, f)
<1>1. CASE ~Fine(s)
  BY <1>1 DEF PushCell
<1>2. CASE Fine(s) /\ l = "naive"
  <2>1. s \in NaiveStacks(V)
    BY <1>2 DEF Stacks
  <2>2. CellValue(c) \in V
    BY CellTyped
  <2>3. PushCell(s, c) = [s EXCEPT !.items = Append(s.items, CellValue(c))]
    BY <1>2, <2>1, NaiveFields DEF PushCell
  <2>4. Append(s.items, CellValue(c)) \in Seq(V)
    BY <2>1, <2>2, NaiveFields, AppendProperties
  <2>5. PushCell(s, c) \in NaiveStacks(V)
    BY <2>1, <2>3, <2>4, NaiveFields
  <2> QED BY <1>2, <2>5 DEF Stacks
<1>3. CASE Fine(s) /\ l # "naive"
  <2> DEFINE room == IF s.d >= ActiveMax THEN SpillBottom(s) ELSE s
  <2>1. s \in CacheStacks(V, f)
    BY <1>3 DEF Stacks
  <2>2. room \in CacheStacks(V, f) /\ (Fine(room) => room.d < ActiveMax)
    <3>1. CASE s.d >= ActiveMax
      <4>1. s.d > 0 /\ s.d = ActiveMax
        BY <2>1, <3>1, CacheFields, Sizes
      <4>2. SpillBottom(s) \in CacheStacks(V, f)
        BY <2>1, <4>1, SpillBottomStays
      <4>3. Fine(SpillBottom(s)) => SpillBottom(s).d = s.d - 1
        BY <2>1, <4>1, SpillBottomStays
      <4>4. s.d - 1 < ActiveMax
        BY <4>1, Sizes
      <4> QED BY <3>1, <4>2, <4>3, <4>4
    <3>2. CASE ~(s.d >= ActiveMax)
      <4>1. s.d < ActiveMax
        BY <2>1, <3>2, CacheFields, Sizes
      <4> QED BY <2>1, <3>2, <4>1
    <3> QED BY <3>1, <3>2
  <2>3. PushCell(s, c) = IF Fine(room) THEN PushCached(room, c) ELSE room
    BY <1>3, <2>1, CacheFields DEF PushCell
  <2> HIDE DEF room
  <2>4. Fine(room) => PushCached(room, c) \in CacheStacks(V, f)
    BY <2>2, PushCachedStays
  <2> QED BY <1>3, <2>2, <2>3, <2>4 DEF Stacks
<1> QED BY <1>1, <1>2, <1>3

LEMMA PushStays ==
  ASSUME NEW V, NEW n, NEW I, Values(V, n, I), NEW l, NEW f,
         NEW s \in Stacks(l, V, f), NEW v \in V
  PROVE  Push(s, v) \in Stacks(l, V, f)
BY CellIsValue, PushCellStays DEF Push

LEMMA SizeIs ==
  ASSUME NEW V, NEW l, NEW f, NEW s \in Stacks(l, V, f)
  PROVE  Size(s) \in Nat
<1>1. CASE l = "naive"
  BY <1>1, NaiveFields DEF Stacks, Size
<1>2. CASE l # "naive"
  BY <1>2, CacheFields DEF Stacks, Size
<1> QED BY <1>1, <1>2

\* The cell at a depth the stack has.
LEMMA CellAtTyped ==
  ASSUME NEW V, NEW n, NEW I, Values(V, n, I), NEW l, NEW f,
         NEW s \in Stacks(l, V, f), NEW k \in Nat, k < Size(s)
  PROVE  CellAt(s, k) \in Cells(V)
<1>1. CASE l = "naive"
  <2>1. IsNaive(s) /\ s.items \in Seq(V) /\ Len(s.items) \in Nat /\ Size(s) = Len(s.items)
    BY <1>1, NaiveFields DEF Stacks, Size
  <2>2. Len(s.items) - k \in 1..Len(s.items)
    BY <2>1
  <2>3. s.items[Len(s.items) - k] \in V
    BY <2>1, <2>2, ElementOfSeq
  <2> QED BY <2>1, <2>3, CellIsValue DEF CellAt
<1>2. CASE l # "naive"
  <2>1. s \in CacheStacks(V, f)
    BY <1>2 DEF Stacks
  <2>2. ~IsNaive(s) /\ Size(s) = s.d + s.sp /\ s.d \in 0..ActiveMax /\ s.sp \in 0..SpillSize
    BY <2>1, CacheFields DEF Size
  <2>3. s.frame \in [Frame0 -> Cells(V)] /\ s.spill \in [Spill0 -> Cells(V)]
    BY <2>1, CacheFields
  <2>4. CASE k >= s.d
    <3>1. s.sp - 1 - (k - s.d) \in Spill0
      BY <2>2, <2>4, Sizes DEF Spill0
    <3>2. CellAt(s, k) = s.spill[s.sp - 1 - (k - s.d)]
      BY <2>2, <2>4 DEF CellAt
    <3> QED BY <2>3, <3>1, <3>2
  <2>5. CASE k < s.d /\ k \in {0, 1}
    <3>1. CellAt(s, k) \in {s.t0, s.t1}
      BY <2>2, <2>5 DEF CellAt
    <3> QED BY <2>1, <3>1, CacheFields
  <2>6. CASE k < s.d /\ k \notin {0, 1}
    <3>1. s.d - 1 - k \in Frame0
      BY <2>2, <2>6, Sizes DEF Frame0
    <3>2. CellAt(s, k) = s.frame[s.d - 1 - k]
      BY <2>2, <2>6 DEF CellAt
    <3> QED BY <2>3, <3>1, <3>2
  <2> QED BY <2>2, <2>4, <2>5, <2>6
<1> QED BY <1>1, <1>2

LEMMA TopTyped ==
  ASSUME NEW V, NEW n, NEW I, Values(V, n, I), NEW l, NEW f, NEW s \in Stacks(l, V, f)
  PROVE  Top(s) \in V
<1>1. CASE Size(s) > 0
  <2>1. CellAt(s, 0) \in Cells(V)
    BY <1>1, SizeIs, CellAtTyped
  <2> QED BY <1>1, <2>1, CellTyped DEF Top
<1>2. CASE ~(Size(s) > 0)
  BY <1>2 DEF Top, Values
<1> QED BY <1>1, <1>2

LEMMA PopCachedStays ==
  ASSUME NEW V, NEW f, NEW s \in CacheStacks(V, f), s.d > 0
  PROVE  PopCached(s) \in CacheStacks(V, f)
<1> DEFINE x == IF s.d > NTOP THEN s.frame[s.d - NTOP - 1] ELSE s.t1
           r1 == [s EXCEPT !.t0 = s.t1]
           r2 == [r1 EXCEPT !.t1 = x]
           r3 == [r2 EXCEPT !.d = s.d - 1]
<1>1. x \in Cells(V)
  BY CacheFields, Sizes DEF Frame0
<1>2. s.d - 1 \in 0..ActiveMax /\ s.t1 \in Cells(V)
  BY CacheFields, Sizes
<1>3. PopCached(s) = r3
  BY DEF PopCached
<1> HIDE DEF x
<1>4. r1 \in CacheStacks(V, f)
  BY <1>2, CacheSet
<1> HIDE DEF r1
<1>5. r2 \in CacheStacks(V, f)
  BY <1>1, <1>4, CacheSet
<1> HIDE DEF r2
<1>6. r3 \in CacheStacks(V, f)
  BY <1>2, <1>5, CacheSet
<1> QED BY <1>3, <1>6

LEMMA PopStays ==
  ASSUME NEW V, NEW n, NEW I, Values(V, n, I), NEW l, NEW f, NEW s \in Stacks(l, V, f)
  PROVE  /\ Pop(s) \in Stacks(l, V, f)
         /\ Fine(Pop(s)) => Fine(s) /\ Size(s) > 0
<1>1. CASE ~Fine(s)
  BY <1>1 DEF Pop
<1>2. CASE Fine(s) /\ Size(s) = 0
  <2>1. Pop(s) = Raise(s, "underflow")
    BY <1>2 DEF Pop
  <2> QED BY <2>1, ErrorsAre, RaiseStays, RaiseFine DEF Ok
<1>3. CASE Fine(s) /\ Size(s) # 0 /\ l = "naive"
  <2>1. s \in NaiveStacks(V)
    BY <1>3 DEF Stacks
  <2>2. Pop(s) = [s EXCEPT !.items = SubSeq(s.items, 1, Len(s.items) - 1)]
    BY <1>3, <2>1, NaiveFields DEF Pop
  <2>3. SubSeq(s.items, 1, Len(s.items) - 1) \in Seq(V)
    BY <2>1, NaiveFields
  <2>4. Pop(s) \in NaiveStacks(V)
    BY <2>1, <2>2, <2>3, NaiveFields
  <2> QED BY <1>3, <2>4, SizeIs DEF Stacks
<1>4. CASE Fine(s) /\ Size(s) # 0 /\ l # "naive"
  <2>1. s \in CacheStacks(V, f)
    BY <1>4 DEF Stacks
  <2>2. Pop(s) = IF s.d > 0 THEN PopCached(s) ELSE [s EXCEPT !.sp = s.sp - 1]
    BY <1>4, <2>1, CacheFields DEF Pop
  <2>3. CASE s.d > 0
    <3>1. Pop(s) \in CacheStacks(V, f)
      BY <2>1, <2>2, <2>3, PopCachedStays
    <3> QED BY <1>4, <3>1, SizeIs DEF Stacks
  <2>4. CASE ~(s.d > 0)
    <3>1. s.sp - 1 \in 0..SpillSize
      BY <1>4, <2>1, <2>4, CacheFields, Sizes DEF Size
    <3>2. Pop(s) \in CacheStacks(V, f)
      BY <2>1, <2>2, <2>4, <3>1, CacheSet
    <3> QED BY <1>4, <3>2, SizeIs DEF Stacks
  <2> QED BY <2>3, <2>4
<1> QED BY <1>1, <1>2, <1>3, <1>4

LEMMA NeedStays ==
  ASSUME NEW V, NEW l, NEW f, NEW s \in Stacks(l, V, f), NEW k \in Int
  PROVE  /\ Need(s, k) \in Stacks(l, V, f)
         /\ Fine(Need(s, k)) => Need(s, k) = s /\ Fine(s) /\ Size(s) >= k
<1>1. CASE Size(s) < k
  <2>1. Need(s, k) = Raise(s, "underflow")
    BY <1>1 DEF Need
  <2> QED BY <2>1, ErrorsAre, RaiseStays, RaiseFine DEF Ok
<1>2. CASE ~(Size(s) < k)
  BY <1>2, SizeIs DEF Need
<1> QED BY <1>1, <1>2

\* What Pop leaves, or the exception e.
LEMMA PopOrRaise ==
  ASSUME NEW V, NEW n, NEW I, Values(V, n, I), NEW l, NEW f,
         NEW s \in Stacks(l, V, f), NEW e \in Errors, e # Ok
  PROVE  /\ Raise(Pop(s), e) \in Stacks(l, V, f)
         /\ ~Fine(Raise(Pop(s), e))
BY PopStays, RaiseStays, RaiseFine

LEMMA PopIntStays ==
  ASSUME NEW V, NEW n, NEW I, Values(V, n, I), NEW l, NEW f, NEW s \in Stacks(l, V, f)
  PROVE  /\ PopInt(s) \in Stacks(l, V, f)
         /\ Fine(PopInt(s)) => /\ Fine(s) /\ Size(s) > 0 /\ PopInt(s) = Pop(s)
                               /\ Top(s) \in V /\ Top(s)[2] \in Int
<1>1. PopInt(s) = IF Fine(s) /\ Size(s) > 0 /\ ~IsInt(Top(s))
                  THEN Raise(Pop(s), "expected integer") ELSE Pop(s)
  BY DEF PopInt, Expect
<1>2. CASE Fine(s) /\ Size(s) > 0 /\ ~IsInt(Top(s))
  BY <1>1, <1>2, ErrorsAre, PopOrRaise DEF Ok
<1>3. CASE ~(Fine(s) /\ Size(s) > 0 /\ ~IsInt(Top(s)))
  <2>1. PopInt(s) = Pop(s)
    BY <1>1, <1>3
  <2>2. Top(s) \in V /\ (IsInt(Top(s)) => Top(s)[2] \in Int)
    BY TopTyped DEF Values
  <2> QED BY <1>3, <2>1, <2>2, PopStays
<1> QED BY <1>2, <1>3

LEMMA PopListStays ==
  ASSUME NEW V, NEW n, NEW I, Values(V, n, I), NEW l, NEW f, NEW s \in Stacks(l, V, f)
  PROVE  /\ PopList(s) \in Stacks(l, V, f)
         /\ Fine(PopList(s)) => /\ Fine(s) /\ Size(s) > 0 /\ PopList(s) = Pop(s)
                                /\ Top(s) \in V /\ Top(s)[2] \in Seq(V)
<1>1. PopList(s) = IF Fine(s) /\ Size(s) > 0 /\ ~IsList(Top(s))
                   THEN Raise(Pop(s), "expected list") ELSE Pop(s)
  BY DEF PopList, Expect
<1>2. CASE Fine(s) /\ Size(s) > 0 /\ ~IsList(Top(s))
  BY <1>1, <1>2, ErrorsAre, PopOrRaise DEF Ok
<1>3. CASE ~(Fine(s) /\ Size(s) > 0 /\ ~IsList(Top(s)))
  <2>1. PopList(s) = Pop(s)
    BY <1>1, <1>3
  <2>2. Top(s) \in V /\ (IsList(Top(s)) => Top(s)[2] \in Seq(V))
    BY TopTyped DEF Values
  <2> QED BY <1>3, <2>1, <2>2, PopStays
<1> QED BY <1>2, <1>3

LEMMA PopQuotStays ==
  ASSUME NEW V, NEW n, NEW I, Values(V, n, I), NEW l, NEW f, NEW s \in Stacks(l, V, f)
  PROVE  /\ PopQuot(s) \in Stacks(l, V, f)
         /\ Fine(PopQuot(s)) => /\ Fine(s) /\ Size(s) > 0 /\ PopQuot(s) = Pop(s)
                                /\ Top(s) \in V /\ Quot(s) \in Seq(I)
<1>1. PopQuot(s) = IF Fine(s) /\ Size(s) > 0 /\ ~IsQuot(Top(s))
                   THEN Raise(Pop(s), "expected quotation") ELSE Pop(s)
  BY DEF PopQuot, Expect
<1>2. CASE Fine(s) /\ Size(s) > 0 /\ ~IsQuot(Top(s))
  BY <1>1, <1>2, ErrorsAre, PopOrRaise DEF Ok
<1>3. CASE ~(Fine(s) /\ Size(s) > 0 /\ ~IsQuot(Top(s)))
  <2>1. PopQuot(s) = Pop(s)
    BY <1>1, <1>3
  <2>2. Top(s) \in V /\ (IsQuot(Top(s)) => Quot(s) \in Seq(I))
    BY TopTyped DEF Values, Quot
  <2> QED BY <1>3, <2>1, <2>2, PopStays
<1> QED BY <1>2, <1>3

-----------------------------------------------------------------------------
(* Fragments and snapshots *)

LEMMA PushFragmentStays ==
  ASSUME NEW V, NEW l, NEW f \in Nat, NEW s \in Stacks(l, V, f), Fine(s)
  PROVE  PushFragment(s) \in Stacks(l, V, f + 1)
<1>1. CASE l = "naive"
  BY <1>1, NaiveFields DEF Stacks, PushFragment
<1>2. CASE l # "naive"
  <2> DEFINE m == s.d - NTOP
  <2>1. s \in CacheStacks(V, f)
    BY <1>2 DEF Stacks
  <2>2. [s EXCEPT !.frag = s.frag + 1] \in CacheStacks(V, f + 1)
    BY <2>1, CacheSet, CacheFields
  <2>3. CASE m <= 0
    <3>1. PushFragment(s) = [s EXCEPT !.frag = s.frag + 1]
      BY <2>1, <2>3, CacheFields, SMT DEF PushFragment
    <3> QED BY <1>2, <2>2, <3>1 DEF Stacks
  <2>4. CASE ~(m <= 0) /\ s.sp + m > SpillSize
    <3>1. PushFragment(s) = Raise([s EXCEPT !.frag = s.frag + 1], "overflow")
      BY <2>1, <2>4, CacheFields, SMT DEF PushFragment
    <3>2. [s EXCEPT !.frag = s.frag + 1] \in Stacks(l, V, f + 1)
      BY <1>2, <2>2 DEF Stacks
    <3> QED BY <3>1, <3>2, ErrorsAre, RaiseStays
  <2>5. CASE ~(m <= 0) /\ ~(s.sp + m > SpillSize)
    <3> DEFINE sp2 == [k \in DOMAIN s.spill |->
                         IF k \in s.sp..(s.sp + m - 1) THEN s.frame[k - s.sp] ELSE s.spill[k]]
               r1 == [s EXCEPT !.frag = s.frag + 1]
               r2 == [r1 EXCEPT !.spill = sp2]
               r3 == [r2 EXCEPT !.sp = s.sp + m]
               r4 == [r3 EXCEPT !.d = NTOP]
    <3>1. s.frame \in [Frame0 -> Cells(V)] /\ s.spill \in [Spill0 -> Cells(V)]
          /\ s.sp \in Nat /\ s.d \in 0..ActiveMax /\ m \in 1..FrameSize
      BY <2>1, <2>5, CacheFields, Sizes
    <3>2. sp2 \in [Spill0 -> Cells(V)]
      <4>1. ASSUME NEW k \in Spill0 PROVE sp2[k] \in Cells(V)
        <5>1. CASE k \in s.sp..(s.sp + m - 1)
          <6>1. k - s.sp \in Frame0
            BY <3>1, <5>1, Sizes, SMTT(30) DEF Frame0
          <6> QED BY <3>1, <5>1, <6>1
        <5>2. CASE k \notin s.sp..(s.sp + m - 1)
          BY <3>1, <5>2
        <5> QED BY <5>1, <5>2
      <4> QED BY <3>1, <4>1
    <3>3. s.sp + m \in 0..SpillSize /\ NTOP \in 0..ActiveMax
      BY <3>1, <2>5, Sizes
    <3>4. PushFragment(s) = r4
      <4>1. ~IsNaive(s) /\ ~(s.d - NTOP <= 0) /\ ~(s.sp + (s.d - NTOP) > SpillSize)
        BY <2>1, <2>5, CacheFields
      <4> QED BY <4>1, SMT DEF PushFragment
    <3> HIDE DEF sp2, m
    <3>5. r1 \in CacheStacks(V, f + 1)
      BY <2>2
    <3> HIDE DEF r1
    <3>6. r2 \in CacheStacks(V, f + 1)
      BY <3>2, <3>5, CacheSet
    <3> HIDE DEF r2
    <3>7. r3 \in CacheStacks(V, f + 1)
      BY <3>3, <3>6, CacheSet
    <3> HIDE DEF r3
    <3>8. r4 \in CacheStacks(V, f + 1)
      BY <3>3, <3>7, CacheSet
    <3> QED BY <1>2, <3>4, <3>8 DEF Stacks
  <2> QED BY <2>3, <2>4, <2>5
<1> QED BY <1>1, <1>2

\* The fragment that a commit takes is there.
LEMMA CommitStays ==
  ASSUME NEW V, NEW l, NEW f \in Nat, NEW s \in Stacks(l, V, f + 1), Fine(s)
  PROVE  CommitFragment(s) \in Stacks(l, V, f) /\ Fine(CommitFragment(s))
<1>1. CASE l = "naive"
  BY <1>1, NaiveFields DEF Stacks, CommitFragment
<1>2. CASE l # "naive"
  <2>1. s \in CacheStacks(V, f + 1)
    BY <1>2 DEF Stacks
  <2>2. ~IsNaive(s) /\ s.frag = f + 1 /\ s.frag # 0
    BY <2>1, CacheFields
  <2>3. CommitFragment(s) = [s EXCEPT !.frag = s.frag - 1]
    BY <2>2 DEF CommitFragment
  <2>4. s.frag - 1 = f
    BY <2>2
  <2>5. CommitFragment(s) = [s EXCEPT !.frag = f]
    BY <2>3, <2>4
  <2>6. CommitFragment(s) \in CacheStacks(V, f)
    BY <2>1, <2>5, CacheSet
  <2>7. Fine(CommitFragment(s))
    BY <2>1, <2>5 DEF CacheStacks, Fine
  <2> QED BY <1>2, <2>6, <2>7 DEF Stacks
<1> QED BY <1>1, <1>2

LEMMA SnapshotTyped ==
  ASSUME NEW V, NEW l, NEW f \in Nat, NEW s \in Stacks(l, V, f)
  PROVE  /\ SnapshotCache(s) \in Snapshots(l, V)
         /\ l # "naive" => SnapshotCache(s).frag = f
<1>1. CASE l = "naive"
  <2>1. IsNaive(s) /\ s.items \in Seq(V)
    BY <1>1, NaiveFields DEF Stacks
  <2>2. SnapshotCache(s) = [items |-> s.items]
    BY <2>1 DEF SnapshotCache
  <2> QED BY <1>1, <2>1, <2>2 DEF Snapshots
<1>2. CASE l # "naive"
  <2>1. s \in CacheStacks(V, f)
    BY <1>2 DEF Stacks
  <2>2. SnapshotCache(s) = [t0 |-> s.t0, t1 |-> s.t1, d |-> s.d, frame |-> s.frame,
                            frag |-> s.frag, sp |-> s.sp]
    BY <2>1, CacheFields DEF SnapshotCache
  <2> QED BY <1>2, <2>1, <2>2, CacheFields DEF Snapshots
<1> QED BY <1>1, <1>2

\* A snapshot with f fragments is restored to a stack with f.
LEMMA RestoreStays ==
  ASSUME NEW V, NEW l, NEW f \in Nat, NEW s \in Stacks(l, V, f), NEW x \in Snapshots(l, V),
         l # "naive" => x.frag = f
  PROVE  /\ RestoreCache(s, x) \in Stacks(l, V, f)
         /\ Fine(RestoreCache(s, x)) => Fine(s)
<1>1. CASE ~Fine(s)
  BY <1>1 DEF RestoreCache
<1>2. CASE Fine(s) /\ l = "naive"
  <2>1. IsNaive(s) /\ s \in NaiveStacks(V)
    BY <1>2, NaiveFields DEF Stacks
  <2>2. x.items \in Seq(V)
    BY <1>2 DEF Snapshots
  <2>3. RestoreCache(s, x) = [s EXCEPT !.items = x.items]
    BY <1>2, <2>1 DEF RestoreCache
  <2> QED BY <1>2, <2>1, <2>2, <2>3, NaiveFields DEF Stacks
<1>3. CASE Fine(s) /\ l # "naive"
  <2> DEFINE r1 == [s EXCEPT !.t0 = x.t0]
             r2 == [r1 EXCEPT !.t1 = x.t1]
             r3 == [r2 EXCEPT !.d = x.d]
             r4 == [r3 EXCEPT !.frame = x.frame]
             r5 == [r4 EXCEPT !.frag = x.frag]
             r6 == [r5 EXCEPT !.sp = x.sp]
  <2>1. ~IsNaive(s) /\ s \in CacheStacks(V, f)
    BY <1>3, CacheFields DEF Stacks
  <2>2. /\ x.t0 \in Cells(V) /\ x.t1 \in Cells(V) /\ x.d \in 0..ActiveMax
        /\ x.frame \in [Frame0 -> Cells(V)] /\ x.frag = f /\ x.sp \in 0..SpillSize
    BY <1>3 DEF Snapshots
  <2>3. RestoreCache(s, x) = r6
    BY <1>3, <2>1 DEF RestoreCache
  <2>4. r1 \in CacheStacks(V, f)
    BY <2>1, <2>2, CacheSet
  <2> HIDE DEF r1
  <2>5. r2 \in CacheStacks(V, f)
    BY <2>2, <2>4, CacheSet
  <2> HIDE DEF r2
  <2>6. r3 \in CacheStacks(V, f)
    BY <2>2, <2>5, CacheSet
  <2> HIDE DEF r3
  <2>7. r4 \in CacheStacks(V, f)
    BY <2>2, <2>6, CacheSet
  <2> HIDE DEF r4
  <2>8. r5 \in CacheStacks(V, f)
    BY <2>2, <2>7, CacheSet
  <2> HIDE DEF r5
  <2>9. r6 \in CacheStacks(V, f)
    BY <2>2, <2>8, CacheSet
  <2> QED BY <1>3, <2>3, <2>9 DEF Stacks
<1> QED BY <1>1, <1>2, <1>3

-----------------------------------------------------------------------------
(* What is done cell by cell *)

LEMMA LeastIn ==
  ASSUME NEW S \in SUBSET Nat, S # {}
  PROVE  \E m \in S : \A k \in S : m <= k
<1>1. PICK m \in S : \A k \in S : ~ (<<k, m>> \in OpToRel(<, Nat))
  BY NatLessThanWellFounded, WFMin
<1>2. \A k \in S : ~ (k < m)
  BY <1>1 DEF OpToRel
<1> QED BY <1>2

\* What holds at 0 and is handed on holds at each step.
LEMMA HandedOn ==
  ASSUME NEW n \in Nat, NEW G, 0 \in G,
         \A k \in 1..n : k - 1 \in G => k \in G
  PROVE  0..n \subseteq G
<1> DEFINE bad == (0..n) \ G
<1> SUFFICES ASSUME bad # {} PROVE FALSE
  OBVIOUS
<1>1. PICK m \in bad : \A k \in bad : m <= k
  <2>1. bad \in SUBSET Nat
    OBVIOUS
  <2> QED BY <2>1, LeastIn
<1>2. m \in 1..n /\ m \notin G
  <2>1. m \in 0..n /\ m \notin G
    BY <1>1
  <2> QED BY <2>1
<1>3. m - 1 \in G
  <2>1. m - 1 \in 0..n /\ ~(m <= m - 1)
    BY <1>2
  <2> QED BY <1>1, <2>1
<1> QED BY <1>2, <1>3

\* n steps from s by the functions of F.
Steps(g, s, F, n) ==
  /\ DOMAIN g = 0..n
  /\ g[0] = s
  /\ \A k \in 1..n : g[k] = F[k][g[k - 1]]

LEMMA StepsExist ==
  ASSUME NEW S, NEW s \in S, NEW n \in Nat, NEW F \in [1..n -> [S -> S]]
  PROVE  \E g \in [0..n -> S] : Steps(g, s, F, n)
<1> DEFINE G == {m \in 0..n : \E g \in [0..m -> S] : Steps(g, s, F, m)}
<1>1. 0 \in G
  <2> DEFINE g == [k \in 0..0 |-> s]
  <2>1. g \in [0..0 -> S] /\ Steps(g, s, F, 0)
    BY DEF Steps
  <2> QED BY <2>1
<1>2. ASSUME NEW m \in 1..n, m - 1 \in G PROVE m \in G
  <2>1. PICK g \in [0..(m - 1) -> S] : Steps(g, s, F, m - 1)
    BY <1>2
  <2> DEFINE h == [k \in 0..m |-> IF k = m THEN F[m][g[m - 1]] ELSE g[k]]
  <2>2. g[m - 1] \in S
    BY <2>1
  <2>3. F[m][g[m - 1]] \in S
    BY <2>2
  <2>4. h \in [0..m -> S]
    BY <2>1, <2>3
  <2>5. h[0] = s
    BY <2>1 DEF Steps
  <2>6. ASSUME NEW k \in 1..m PROVE h[k] = F[k][h[k - 1]]
    <3>1. CASE k = m
      BY <3>1
    <3>2. CASE k # m
      <4>1. k \in 1..(m - 1) /\ k - 1 # m /\ k \in 0..m /\ k - 1 \in 0..m
        BY <3>2
      <4>2. g[k] = F[k][g[k - 1]]
        BY <2>1, <4>1 DEF Steps
      <4> QED BY <3>2, <4>1, <4>2
    <3> QED BY <3>1, <3>2
  <2> HIDE DEF h
  <2>7. DOMAIN h = 0..m
    BY <2>4
  <2>8. Steps(h, s, F, m)
    BY <2>5, <2>6, <2>7 DEF Steps
  <2> QED BY <2>4, <2>8
<1> HIDE DEF G
<1>3. 0..n \subseteq G
  BY <1>1, <1>2, HandedOn
<1>4. n \in G
  BY <1>3
<1> QED BY <1>4 DEF G

\* The stacks on the way as cells are popped.
Popping(g, s, n) == g = [k \in 0..n |-> IF k = 0 THEN s ELSE Pop(g[k - 1])]

LEMMA PoppingExists ==
  ASSUME NEW V, NEW n, NEW I, Values(V, n, I), NEW l, NEW f,
         NEW s \in Stacks(l, V, f), NEW m \in Nat
  PROVE  \E g \in [0..m -> Stacks(l, V, f)] : Popping(g, s, m)
<1> DEFINE S == Stacks(l, V, f)
           pop == [x \in S |-> Pop(x)]
           F == [k \in 1..m |-> pop]
<1>1. pop \in [S -> S]
  BY PopStays
<1>2. F \in [1..m -> [S -> S]]
  BY <1>1
<1> HIDE DEF F
<1>3. PICK g \in [0..m -> S] : Steps(g, s, F, m)
  BY <1>2, StepsExist
<1>4. ASSUME NEW k \in 0..m PROVE g[k] = IF k = 0 THEN s ELSE Pop(g[k - 1])
  <2>1. CASE k = 0
    BY <1>3, <2>1 DEF Steps
  <2>2. CASE k # 0
    <3>1. k \in 1..m /\ k - 1 \in 0..m
      BY <2>2
    <3>2. g[k] = F[k][g[k - 1]] /\ g[k - 1] \in S
      BY <1>3, <3>1 DEF Steps
    <3> QED BY <2>2, <3>1, <3>2 DEF F
  <2> QED BY <2>1, <2>2
<1>5. g = [k \in 0..m |-> IF k = 0 THEN s ELSE Pop(g[k - 1])]
  BY <1>3, <1>4
<1>6. Popping(g, s, m)
  BY <1>5 DEF Popping
<1> QED BY <1>3, <1>6

LEMMA PoppingStep ==
  ASSUME NEW s, NEW m \in Nat, NEW g, Popping(g, s, m)
  PROVE  g[0] = s /\ \A k \in 1..m : g[k] = Pop(g[k - 1])
<1>1. \A k \in 0..m : g[k] = IF k = 0 THEN s ELSE Pop(g[k - 1])
  BY DEF Popping
<1>2. 0 \in 0..m
  OBVIOUS
<1>3. \A k \in 1..m : k \in 0..m /\ k # 0
  OBVIOUS
<1> QED BY <1>1, <1>2, <1>3

\* However many are to be popped, the first ones go the same way.
LEMMA PoppingSame ==
  ASSUME NEW s, NEW m \in Nat, NEW g, Popping(g, s, m),
         NEW j \in Nat, NEW h, Popping(h, s, j), j <= m
  PROVE  \A k \in 0..j : g[k] = h[k]
<1> DEFINE G == {k \in 0..j : g[k] = h[k]}
<1>1. 0 \in G
  BY PoppingStep
<1>2. ASSUME NEW k \in 1..j, k - 1 \in G PROVE k \in G
  <2>1. g[k - 1] = h[k - 1] /\ k \in 1..m
    BY <1>2
  <2>2. g[k] = Pop(g[k - 1])
    BY <2>1, PoppingStep
  <2>3. h[k] = Pop(h[k - 1])
    <3>1. \A i \in 1..j : h[i] = Pop(h[i - 1])
      BY PoppingStep
    <3> QED BY <3>1
  <2> QED BY <2>1, <2>2, <2>3
<1> HIDE DEF G
<1>3. 0..j \subseteq G
  BY <1>1, <1>2, HandedOn
<1> QED BY <1>3 DEF G

LEMMA PoppedIs ==
  ASSUME NEW V, NEW n, NEW I, Values(V, n, I), NEW l, NEW f,
         NEW s \in Stacks(l, V, f), NEW m \in Nat, NEW g, Popping(g, s, m)
  PROVE  \A k \in 0..m : Popped(s, k) = g[k]
<1> SUFFICES ASSUME NEW k \in 0..m PROVE Popped(s, k) = g[k]
  OBVIOUS
<1> DEFINE h == CHOOSE q : q = [i \in 0..k |-> IF i = 0 THEN s ELSE Pop(q[i - 1])]
<1>1. \E q : q = [i \in 0..k |-> IF i = 0 THEN s ELSE Pop(q[i - 1])]
  <2>1. k \in Nat
    OBVIOUS
  <2>2. PICK q \in [0..k -> Stacks(l, V, f)] : Popping(q, s, k)
    BY <2>1, PoppingExists
  <2> QED BY <2>2 DEF Popping
<1>2. Popping(h, s, k)
  BY <1>1 DEF Popping
<1>3. Popped(s, k) = h[k]
  BY DEF Popped
<1> HIDE DEF h
<1>4. k \in Nat /\ k <= m
  OBVIOUS
<1>5. g[k] = h[k]
  BY <1>2, <1>4, PoppingSame
<1> QED BY <1>3, <1>5

LEMMA PoppedSteps ==
  ASSUME NEW V, NEW n, NEW I, Values(V, n, I), NEW l, NEW f, NEW s \in Stacks(l, V, f)
  PROVE  /\ Popped(s, 0) = s
         /\ \A k \in Nat : /\ Popped(s, k) \in Stacks(l, V, f)
                           /\ Popped(s, k + 1) = Pop(Popped(s, k))
<1>1. ASSUME NEW k \in Nat
      PROVE  /\ Popped(s, 0) = s /\ Popped(s, k) \in Stacks(l, V, f)
             /\ Popped(s, k + 1) = Pop(Popped(s, k))
  <2>0. PICK m \in Nat : m = k + 1
    OBVIOUS
  <2>1. PICK g \in [0..m -> Stacks(l, V, f)] : Popping(g, s, m)
    BY PoppingExists
  <2>2. \A j \in 0..m : Popped(s, j) = g[j]
    BY <2>1, PoppedIs
  <2>3. g[0] = s /\ \A i \in 1..m : g[i] = Pop(g[i - 1])
    <3>1. \A i \in 0..m : g[i] = IF i = 0 THEN s ELSE Pop(g[i - 1])
      BY <2>1 DEF Popping
    <3> QED BY <3>1
  <2>4. m \in 1..m /\ m - 1 = k /\ k \in 0..m /\ 0 \in 0..m /\ m \in 0..m
    BY <2>0
  <2>5. g[m] = Pop(g[k])
    BY <2>3, <2>4
  <2>6. Popped(s, 0) = s /\ Popped(s, k) = g[k] /\ Popped(s, m) = g[m]
    BY <2>2, <2>3, <2>4
  <2>7. g[k] \in Stacks(l, V, f)
    BY <2>1, <2>4
  <2> QED BY <2>0, <2>5, <2>6, <2>7
<1> QED BY <1>1

\* Quotations popped one by one are what was on the stack.
LEMMA PoppedQuotsStay ==
  ASSUME NEW V, NEW n, NEW I, Values(V, n, I), NEW l, NEW f,
         st \in Stacks(l, V, f), NEW m \in Nat
  PROVE  /\ PoppedQuots(m) \in Stacks(l, V, f)
         /\ Fine(PoppedQuots(m)) => /\ PoppedQuots(m) = Popped(st, m) /\ Fine(st)
                                    /\ \A k \in 0..(m - 1) : QuotAt(k) \in Seq(I)
<1> DEFINE S == Stacks(l, V, f)
           pop == [x \in S |-> PopQuot(x)]
           F == [k \in 1..m |-> pop]
           g == CHOOSE q : q = [k \in 0..m |-> IF k = 0 THEN st ELSE PopQuot(q[k - 1])]
<1>1. pop \in [S -> S]
  BY PopQuotStays
<1>2. F \in [1..m -> [S -> S]]
  BY <1>1
<1>3. \E q : q = [k \in 0..m |-> IF k = 0 THEN st ELSE PopQuot(q[k - 1])]
  <2> HIDE DEF F
  <2>1. PICK q \in [0..m -> S] : Steps(q, st, F, m)
    BY <1>2, StepsExist
  <2>2. ASSUME NEW k \in 0..m PROVE q[k] = IF k = 0 THEN st ELSE PopQuot(q[k - 1])
    <3>1. CASE k = 0
      BY <2>1, <3>1 DEF Steps
    <3>2. CASE k # 0
      <4>1. k \in 1..m /\ k - 1 \in 0..m
        BY <3>2
      <4>2. q[k] = F[k][q[k - 1]] /\ q[k - 1] \in S
        BY <2>1, <4>1 DEF Steps
      <4> QED BY <3>2, <4>1, <4>2 DEF F
    <3> QED BY <3>1, <3>2
  <2>3. q = [k \in 0..m |-> IF k = 0 THEN st ELSE PopQuot(q[k - 1])]
    BY <2>1, <2>2
  <2> QED BY <2>3
<1>4. g = [k \in 0..m |-> IF k = 0 THEN st ELSE PopQuot(g[k - 1])]
  BY <1>3
<1>5. PoppedQuots(m) = g[m]
  BY DEF PoppedQuots
<1> HIDE DEF g, F, pop
<1>6. g[0] = st /\ \A k \in 1..m : g[k] = PopQuot(g[k - 1])
  <2>1. \A k \in 0..m : g[k] = IF k = 0 THEN st ELSE PopQuot(g[k - 1])
    BY <1>4
  <2>2. 0 \in 0..m /\ \A k \in 1..m : k \in 0..m /\ k # 0
    OBVIOUS
  <2> QED BY <2>1, <2>2
<1> DEFINE Right(k) == /\ g[k] \in S
                       /\ Fine(g[k]) => /\ g[k] = Popped(st, k) /\ Fine(st)
                                        /\ \A j \in 0..(k - 1) : Quot(Popped(st, j)) \in Seq(I)
           G == {k \in 0..m : Right(k)}
<1>7. 0 \in G
  <2>1. Right(0)
    BY <1>6, PoppedSteps
  <2> QED BY <2>1
<1>8. ASSUME NEW k \in 1..m, k - 1 \in G PROVE k \in G
  <2>1. PICK i \in Nat : i = k - 1
    OBVIOUS
  <2>2. Right(i) /\ k = i + 1 /\ k \in 0..m
    BY <1>8, <2>1
  <2>3. g[k] = PopQuot(g[i])
    BY <1>6, <2>1
  <2>4. /\ PopQuot(g[i]) \in S
        /\ Fine(PopQuot(g[i])) => Fine(g[i]) /\ PopQuot(g[i]) = Pop(g[i]) /\ Quot(g[i]) \in Seq(I)
    BY <2>2, PopQuotStays
  <2>5. ASSUME Fine(g[k])
        PROVE  /\ g[k] = Popped(st, k) /\ Fine(st)
               /\ \A j \in 0..(k - 1) : Quot(Popped(st, j)) \in Seq(I)
    <3>1. Fine(g[i]) /\ g[k] = Pop(g[i]) /\ Quot(g[i]) \in Seq(I)
      BY <2>3, <2>4, <2>5
    <3>2. /\ g[i] = Popped(st, i) /\ Fine(st)
          /\ \A j \in 0..(i - 1) : Quot(Popped(st, j)) \in Seq(I)
      BY <2>2, <3>1
    <3>3. Popped(st, i + 1) = Pop(Popped(st, i))
      BY PoppedSteps
    <3>4. \A j \in 0..(k - 1) : j \in 0..(i - 1) \/ j = i
      BY <2>2
    <3> QED BY <2>2, <3>1, <3>2, <3>3, <3>4
  <2>6. Right(k)
    BY <2>3, <2>4, <2>5
  <2> QED BY <2>2, <2>6
<1> HIDE DEF G
<1>9. 0..m \subseteq G
  BY <1>7, <1>8, HandedOn
<1>10. Right(m)
  BY <1>9 DEF G
<1> QED BY <1>5, <1>10 DEF QuotAt

-----------------------------------------------------------------------------
(* The primitives *)

LEMMA FragmentsTyped ==
  ASSUME NEW V, NEW n, NEW I, Values(V, n, I)
  PROVE  Fragments \in CacheStacks(V, 0) /\ Naive \in NaiveStacks(V)
<1>1. Blank \in Cells(V) /\ Ok \in Errors
  BY BlankIsCell, ErrorsAre
<1>2. /\ [k \in 0..(FrameSize - 1) |-> Blank] \in [Frame0 -> Cells(V)]
      /\ [k \in 0..(SpillSize - 1) |-> Blank] \in [Spill0 -> Cells(V)]
  BY <1>1 DEF Frame0, Spill0
<1>3. 0 \in 0..ActiveMax /\ 0 \in 0..SpillSize
  BY Sizes
<1>4. Fragments \in CacheStacks(V, 0)
  BY <1>1, <1>2, <1>3 DEF Fragments, CacheStacks
<1>5. Naive \in NaiveStacks(V)
  BY <1>1 DEF Naive, NaiveStacks
<1> QED BY <1>4, <1>5

\* The whole stack anew, with its fragments.
LEMMA ReplaceStays ==
  ASSUME NEW V, NEW n, NEW I, Values(V, n, I), NEW l, NEW f,
         NEW s \in Stacks(l, V, f), NEW vs \in Seq(V)
  PROVE  ReplaceItems(s, vs) \in Stacks(l, V, f)
<1> SUFFICES ASSUME Fine(s) PROVE ReplaceItems(s, vs) \in Stacks(l, V, f)
  BY DEF ReplaceItems
<1> DEFINE S == Stacks(l, V, f)
           m == Len(vs)
           empty == IF IsNaive(s) THEN Reset(s) ELSE [Reset(s) EXCEPT !.frag = s.frag]
           g == CHOOSE q : q = [k \in 0..m |-> IF k = 0 THEN empty ELSE Push(q[k - 1], vs[k])]
           F == [k \in 1..m |-> [x \in S |-> Push(x, vs[k])]]
<1>1. m \in Nat /\ \A k \in 1..m : vs[k] \in V
  BY LenProperties, ElementOfSeq
<1>2. empty \in S
  <2>1. CASE l = "naive"
    <3>1. s \in NaiveStacks(V) /\ IsNaive(s)
      BY <2>1, NaiveFields DEF Stacks
    <3>2. empty = [s EXCEPT !.items = <<>>] /\ <<>> \in Seq(V)
      BY <3>1 DEF Reset
    <3> HIDE DEF empty
    <3>3. [s EXCEPT !.items = <<>>] \in NaiveStacks(V)
      BY <3>1, <3>2, NaiveFields
    <3> QED BY <2>1, <3>2, <3>3 DEF Stacks
  <2>2. CASE l # "naive"
    <3> DEFINE r == [Fragments EXCEPT !.spill = s.spill]
    <3>1. s \in CacheStacks(V, f) /\ ~IsNaive(s) /\ s.frag = f
      BY <2>2, CacheFields DEF Stacks
    <3>2. Fragments \in CacheStacks(V, 0)
      BY FragmentsTyped
    <3>3. r \in CacheStacks(V, 0)
      BY <3>1, <3>2, CacheSet, CacheFields
    <3>4. empty = [r EXCEPT !.frag = f]
      BY <3>1 DEF Reset
    <3> HIDE DEF r, empty
    <3>5. empty \in CacheStacks(V, f)
      BY <3>3, <3>4, CacheSet
    <3> QED BY <2>2, <3>5 DEF Stacks
  <2> QED BY <2>1, <2>2
<1>3. ReplaceItems(s, vs) = g[m]
  BY DEF ReplaceItems
<1> HIDE DEF empty, m
<1>4. F \in [1..m -> [S -> S]]
  <2>1. ASSUME NEW k \in 1..m PROVE [x \in S |-> Push(x, vs[k])] \in [S -> S]
    BY <1>1, PushStays
  <2> QED BY <2>1
<1> HIDE DEF F, S
<1>5. PICK h \in [0..m -> S] : Steps(h, empty, F, m)
  BY <1>1, <1>2, <1>4, StepsExist
<1>6. ASSUME NEW k \in 0..m PROVE h[k] = IF k = 0 THEN empty ELSE Push(h[k - 1], vs[k])
  <2>1. CASE k = 0
    BY <1>5, <2>1 DEF Steps
  <2>2. CASE k # 0
    <3>1. k \in 1..m /\ k - 1 \in 0..m
      BY <1>1, <2>2
    <3>2. h[k] = F[k][h[k - 1]] /\ h[k - 1] \in S
      BY <1>5, <3>1 DEF Steps
    <3> QED BY <2>2, <3>1, <3>2 DEF F
  <2> QED BY <2>1, <2>2
<1>7. \E q : q = [k \in 0..m |-> IF k = 0 THEN empty ELSE Push(q[k - 1], vs[k])]
  <2>1. h = [k \in 0..m |-> IF k = 0 THEN empty ELSE Push(h[k - 1], vs[k])]
    BY <1>5, <1>6
  <2> QED BY <2>1
<1>8. g = [k \in 0..m |-> IF k = 0 THEN empty ELSE Push(g[k - 1], vs[k])]
  BY <1>7
<1> HIDE DEF g
<1> DEFINE G == {k \in 0..m : g[k] \in S}
<1>9. \A k \in 0..m : g[k] = IF k = 0 THEN empty ELSE Push(g[k - 1], vs[k])
  BY <1>8
<1>10. 0 \in G
  BY <1>1, <1>2, <1>9
<1>11. ASSUME NEW k \in 1..m, k - 1 \in G PROVE k \in G
  <2>1. k \in 0..m /\ k # 0 /\ vs[k] \in V /\ g[k - 1] \in S
    BY <1>1, <1>11
  <2>2. g[k] = Push(g[k - 1], vs[k])
    BY <1>9, <2>1
  <2>3. Push(g[k - 1], vs[k]) \in S
    BY <2>1, PushStays DEF S
  <2> QED BY <2>1, <2>2, <2>3
<1> HIDE DEF G
<1>12. 0..m \subseteq G
  BY <1>1, <1>10, <1>11, HandedOn
<1>13. m \in 0..m
  BY <1>1
<1>14. g[m] \in S
  BY <1>12, <1>13 DEF G
<1> QED BY <1>3, <1>14 DEF S

LEMMA ShuffleTable ==
  ASSUME NEW w \in DOMAIN Shuffles
  PROVE  Shuffles[w][1] \in 0..3 /\ Shuffles[w][2] \in Seq(0..2)
<1>0. 0 \in 0..3 /\ 1 \in 0..3 /\ 2 \in 0..3 /\ 3 \in 0..3
  OBVIOUS
<1>1. /\ <<0>> \in Seq(0..2) /\ <<>> \in Seq(0..2) /\ <<0, 1>> \in Seq(0..2)
      /\ <<1>> \in Seq(0..2) /\ <<2>> \in Seq(0..2) /\ <<1, 0, 2>> \in Seq(0..2)
      /\ <<0, 2, 1>> \in Seq(0..2) /\ <<1, 2, 0>> \in Seq(0..2)
      /\ <<1, 0>> \in Seq(0..2) /\ <<2, 1>> \in Seq(0..2) /\ <<2, 1, 0>> \in Seq(0..2)
  OBVIOUS
<1>2. w \in {"dup", "drop", "swap", "nip", "over", "pick", "rot", "rolldown", "rollup",
             "swapd", "dupd", "drop2", "dup2", "over2", "dup3"}
  BY DEF Shuffles
<1>3. /\ Shuffles["dup"] = <<0, <<0>>>>
      /\ Shuffles["drop"] = <<1, <<>>>>
      /\ Shuffles["swap"] = <<2, <<0, 1>>>>
      /\ Shuffles["nip"] = <<2, <<0>>>>
      /\ Shuffles["over"] = <<0, <<1>>>>
      /\ Shuffles["pick"] = <<0, <<2>>>>
      /\ Shuffles["rot"] = <<3, <<1, 0, 2>>>>
      /\ Shuffles["rolldown"] = <<3, <<0, 2, 1>>>>
      /\ Shuffles["rollup"] = <<3, <<1, 2, 0>>>>
      /\ Shuffles["swapd"] = <<3, <<1, 2, 0>>>>
      /\ Shuffles["dupd"] = <<1, <<1, 0>>>>
      /\ Shuffles["drop2"] = <<2, <<>>>>
      /\ Shuffles["dup2"] = <<0, <<1, 0>>>>
      /\ Shuffles["over2"] = <<0, <<2, 1>>>>
      /\ Shuffles["dup3"] = <<0, <<2, 1, 0>>>>
  BY DEF Shuffles
<1>4. \A a \in 0..3, b \in Seq(0..2) : <<a, b>>[1] \in 0..3 /\ <<a, b>>[2] \in Seq(0..2)
  OBVIOUS
<1>5. \E a \in 0..3, b \in Seq(0..2) : Shuffles[w] = <<a, b>>
  <2>1. CASE w = "dup"
    BY <1>0, <1>1, <1>3, <2>1, Zenon
  <2>2. CASE w = "drop"
    BY <1>0, <1>1, <1>3, <2>2, Zenon
  <2>3. CASE w = "swap"
    BY <1>0, <1>1, <1>3, <2>3, Zenon
  <2>4. CASE w = "nip"
    BY <1>0, <1>1, <1>3, <2>4, Zenon
  <2>5. CASE w = "over"
    BY <1>0, <1>1, <1>3, <2>5, Zenon
  <2>6. CASE w = "pick"
    BY <1>0, <1>1, <1>3, <2>6, Zenon
  <2>7. CASE w = "rot"
    BY <1>0, <1>1, <1>3, <2>7, Zenon
  <2>8. CASE w = "rolldown"
    BY <1>0, <1>1, <1>3, <2>8, Zenon
  <2>9. CASE w = "rollup"
    BY <1>0, <1>1, <1>3, <2>9, Zenon
  <2>10. CASE w = "swapd"
    BY <1>0, <1>1, <1>3, <2>10, Zenon
  <2>11. CASE w = "dupd"
    BY <1>0, <1>1, <1>3, <2>11, Zenon
  <2>12. CASE w = "drop2"
    BY <1>0, <1>1, <1>3, <2>12, Zenon
  <2>13. CASE w = "dup2"
    BY <1>0, <1>1, <1>3, <2>13, Zenon
  <2>14. CASE w = "over2"
    BY <1>0, <1>1, <1>3, <2>14, Zenon
  <2>15. CASE w = "dup3"
    BY <1>0, <1>1, <1>3, <2>15, Zenon
  <2> QED BY <1>2, <2>1, <2>2, <2>3, <2>4, <2>5, <2>6, <2>7, <2>8, <2>9, <2>10, <2>11, <2>12, <2>13, <2>14, <2>15
<1> QED BY <1>4, <1>5

\* The depth a word reads to.
LEMMA MaxPutIs ==
  ASSUME NEW xs \in Seq(0..2)
  PROVE  MaxPut(xs) \in -1..2 /\ \A k \in 1..Len(xs) : xs[k] <= MaxPut(xs)
<1> DEFINE R == {-1} \cup Range(xs)
<1>1. R \subseteq -1..2
  BY DEF Range
<1>2. \E x \in R : \A y \in R : x >= y
  <2>1. -1 \in R
    OBVIOUS
  <2>2. CASE 2 \in R
    BY <1>1, <2>2
  <2>3. CASE 2 \notin R /\ 1 \in R
    BY <1>1, <2>3, SMTT(30)
  <2>4. CASE 2 \notin R /\ 1 \notin R /\ 0 \in R
    BY <1>1, <2>4
  <2>5. CASE 2 \notin R /\ 1 \notin R /\ 0 \notin R
    BY <1>1, <2>1, <2>5
  <2> QED BY <2>2, <2>3, <2>4, <2>5
<1>3. \A k \in 1..Len(xs) : xs[k] \in R
  BY DEF Range
<1> HIDE DEF R
<1>4. Max(R) \in R /\ \A y \in R : Max(R) >= y
  BY <1>2 DEF Max
<1>5. MaxPut(xs) = Max(R)
  BY DEF MaxPut, R
<1>6. \A k \in 1..Len(xs) : xs[k] \in 0..2
  OBVIOUS
<1> QED BY <1>1, <1>3, <1>4, <1>5, <1>6

\* Cells that could be popped were there.
LEMMA PoppedWereThere ==
  ASSUME NEW V, NEW n, NEW I, Values(V, n, I), NEW l, NEW f,
         NEW s \in Stacks(l, V, f), NEW m \in Nat,
         NEW g \in [0..m -> Stacks(l, V, f)], Popping(g, s, m), Fine(g[m])
  PROVE  Fine(s) /\ \A j \in 0..(m - 1) : Size(g[j]) > 0
<1> DEFINE Right(k) == Fine(g[k]) => Fine(s) /\ \A j \in 0..(k - 1) : Size(g[j]) > 0
           G == {k \in 0..m : Right(k)}
<1>0. g[0] = s /\ \A k \in 1..m : g[k] = Pop(g[k - 1])
  <2>1. \A k \in 0..m : g[k] = IF k = 0 THEN s ELSE Pop(g[k - 1])
    BY DEF Popping
  <2> QED BY <2>1
<1>1. 0 \in G
  BY <1>0
<1>2. ASSUME NEW k \in 1..m, k - 1 \in G PROVE k \in G
  <2>1. PICK i \in 0..m : i = k - 1
    OBVIOUS
  <2>2. Right(i) /\ k = i + 1
    BY <1>2, <2>1
  <2>3. g[k] = Pop(g[i])
    BY <1>0, <2>1
  <2>4. Fine(Pop(g[i])) => Fine(g[i]) /\ Size(g[i]) > 0
    BY PopStays
  <2>5. \A j \in 0..(k - 1) : j \in 0..(i - 1) \/ j = i
    BY <2>2
  <2> QED BY <2>2, <2>3, <2>4, <2>5
<1> HIDE DEF G
<1>3. 0..m \subseteq G
  BY <1>1, <1>2, HandedOn
<1>4. m \in G
  BY <1>3
<1> QED BY <1>4 DEF G

LEMMA ShuffleStays ==
  ASSUME NEW V, NEW n, NEW I, Values(V, n, I), NEW l, NEW f,
         NEW s \in Stacks(l, V, f), NEW w \in DOMAIN Shuffles
  PROVE  Shuffle(w, s) \in Stacks(l, V, f)
<1> DEFINE S == Stacks(l, V, f)
           pops == Shuffles[w][1]
           put == Shuffles[w][2]
           left == CHOOSE q : q = [k \in 0..pops |-> IF k = 0 THEN s ELSE Pop(q[k - 1])]
           reads == Need(left[pops], MaxPut(put) + 1 - pops)
           read(k) == IF k < pops THEN CellAt(left[k], 0) ELSE CellAt(left[pops], k - pops)
           done == CHOOSE q : q = [k \in 0..Len(put) |->
                                     IF k = 0 THEN reads ELSE PushCell(q[k - 1], read(put[k]))]
           F == [k \in 1..Len(put) |-> [x \in S |-> PushCell(x, read(put[k]))]]
<1>1. pops \in 0..3 /\ pops \in Nat /\ put \in Seq(0..2)
  BY ShuffleTable
<1>2. Shuffle(w, s) = IF Fine(reads) THEN done[Len(put)] ELSE reads
  BY DEF Shuffle
<1> HIDE DEF pops, put, done
<1>3. Popping(left, s, pops) /\ left \in [0..pops -> S]
  <2>1. PICK g \in [0..pops -> S] : Popping(g, s, pops)
    BY <1>1, PoppingExists
  <2>2. Popping(left, s, pops)
    BY <2>1 DEF Popping
  <2>3. \A k \in 0..pops : k \in 0..pops
    OBVIOUS
  <2> HIDE DEF left
  <2>4. \A k \in 0..pops : left[k] = g[k]
    BY <1>1, <2>1, <2>2, PoppingSame
  <2>5. DOMAIN left = 0..pops /\ left = [k \in 0..pops |-> left[k]]
    BY <2>2 DEF Popping
  <2> QED BY <2>1, <2>2, <2>4, <2>5
<1> HIDE DEF left
<1>4. left[pops] \in S /\ MaxPut(put) + 1 - pops \in Int
  BY <1>1, <1>3, MaxPutIs
<1>5. reads \in S /\ (Fine(reads) => reads = left[pops] /\ Size(left[pops]) >= MaxPut(put) + 1 - pops)
  BY <1>4, NeedStays
<1> SUFFICES ASSUME Fine(reads) PROVE done[Len(put)] \in S
  BY <1>2, <1>5
<1>6. Len(put) \in Nat /\ \A k \in 1..Len(put) : put[k] \in 0..2 /\ put[k] <= MaxPut(put)
  <2>1. \A k \in 1..Len(put) : put[k] \in 0..2
    BY <1>1
  <2> QED BY <1>1, <2>1, MaxPutIs, LenProperties
<1>7. ASSUME NEW k \in 1..Len(put) PROVE read(put[k]) \in Cells(V)
  <2>1. put[k] \in 0..2 /\ put[k] <= MaxPut(put)
    BY <1>6
  <2>2. CASE put[k] < pops
    <3>1. put[k] \in 0..(pops - 1) /\ put[k] \in 0..pops
      BY <1>1, <2>1, <2>2
    <3>2. Size(left[put[k]]) > 0 /\ left[put[k]] \in S
      BY <1>1, <1>3, <1>5, <3>1, PoppedWereThere
    <3>3. CellAt(left[put[k]], 0) \in Cells(V)
      BY <3>2, CellAtTyped
    <3> QED BY <2>2, <3>3
  <2>3. CASE ~(put[k] < pops)
    <3>1. PICK j \in Nat : j = put[k] - pops
      BY <1>1, <2>1, <2>3
    <3>2. j < Size(left[pops])
      <4>1. Size(left[pops]) \in Nat /\ MaxPut(put) \in Int
        BY <1>1, <1>4, SizeIs, MaxPutIs
      <4> HIDE DEF reads
      <4> QED BY <1>1, <1>5, <2>1, <3>1, <4>1
    <3>3. CellAt(left[pops], j) \in Cells(V)
      BY <1>4, <3>2, CellAtTyped
    <3> QED BY <2>3, <3>1, <3>3
  <2> QED BY <2>2, <2>3
<1> HIDE DEF read, reads
<1>8. F \in [1..Len(put) -> [S -> S]]
  <2>1. ASSUME NEW k \in 1..Len(put)
        PROVE  [x \in S |-> PushCell(x, read(put[k]))] \in [S -> S]
    BY <1>7, PushCellStays
  <2> QED BY <2>1
<1>9. PICK m \in Nat : m = Len(put)
  BY <1>6
<1> HIDE DEF F, S
<1>10. PICK h \in [0..m -> S] : Steps(h, reads, F, m)
  BY <1>5, <1>8, <1>9, StepsExist
<1>11. ASSUME NEW k \in 0..m
       PROVE  h[k] = IF k = 0 THEN reads ELSE PushCell(h[k - 1], read(put[k]))
  <2>1. CASE k = 0
    BY <1>10, <2>1 DEF Steps
  <2>2. CASE k # 0
    <3>1. k \in 1..m /\ k - 1 \in 0..m
      BY <2>2
    <3>2. h[k] = F[k][h[k - 1]] /\ h[k - 1] \in S
      BY <1>10, <3>1 DEF Steps
    <3> QED BY <1>9, <2>2, <3>1, <3>2 DEF F
  <2> QED BY <2>1, <2>2
<1>12. \E q : q = [k \in 0..Len(put) |-> IF k = 0 THEN reads ELSE PushCell(q[k - 1], read(put[k]))]
  <2>1. h = [k \in 0..m |-> IF k = 0 THEN reads ELSE PushCell(h[k - 1], read(put[k]))]
    BY <1>10, <1>11
  <2> QED BY <1>9, <2>1
<1>13. done = [k \in 0..m |-> IF k = 0 THEN reads ELSE PushCell(done[k - 1], read(put[k]))]
  BY <1>9, <1>12 DEF done
<1> DEFINE G == {k \in 0..m : done[k] \in S}
<1>14. \A k \in 0..m : done[k] = IF k = 0 THEN reads ELSE PushCell(done[k - 1], read(put[k]))
  BY <1>13
<1>15. 0 \in G
  BY <1>5, <1>14
<1>16. ASSUME NEW k \in 1..m, k - 1 \in G PROVE k \in G
  <2>1. k \in 0..m /\ k # 0 /\ read(put[k]) \in Cells(V) /\ done[k - 1] \in S
    BY <1>7, <1>9, <1>16
  <2>2. done[k] = PushCell(done[k - 1], read(put[k]))
    BY <1>14, <2>1
  <2>3. PushCell(done[k - 1], read(put[k])) \in S
    BY <2>1, PushCellStays DEF S
  <2> QED BY <2>1, <2>2, <2>3
<1> HIDE DEF G
<1>17. 0..m \subseteq G
  BY <1>15, <1>16, HandedOn
<1>18. done[m] \in S
  <2>1. m \in G
    BY <1>17
  <2> QED BY <2>1 DEF G
<1> QED BY <1>9, <1>18

\* Numbers and flags are values.
LEMMA NumbersAre ==
  ASSUME NEW V, NEW n, NEW I, Values(V, n, I)
  PROVE  /\ \A x \in Int : IntV(x) \in V
         /\ Bool(TRUE) \in V /\ Bool(FALSE) \in V
         /\ \A x \in {TRUE, FALSE} : Bool(x) \in V
BY DEF Values, Bool

LEMMA FloorDivIs ==
  ASSUME NEW a \in Int, NEW b \in Int, b # 0
  PROVE  FloorDiv(a, b) \in Int
<1>1. CASE b > 0
  BY <1>1 DEF FloorDiv
<1>2. CASE ~(b > 0)
  <2>1. -b > 0 /\ -a \in Int /\ -b \in Int
    BY <1>2
  <2>2. (-a) \div (-b) \in Int
    BY <2>1
  <2> QED BY <1>2, <2>2 DEF FloorDiv
<1> QED BY <1>1, <1>2

LEMMA ComputedTyped ==
  ASSUME NEW V, NEW n, NEW I, Values(V, n, I), NEW w \in Arithmetic,
         NEW a \in Int, NEW b \in Int, w \in {"/", "rem"} => b # 0
  PROVE  Computed(w, a, b) \in V
<1>1. CASE w \in {"+", "-", "*"}
  <2>1. PICK x \in Int : x = a * b
    OBVIOUS
  <2>2. IntV(a + b) \in V /\ IntV(a - b) \in V /\ IntV(x) \in V
    <3>1. a + b \in Int /\ a - b \in Int
      OBVIOUS
    <3> QED BY <3>1, NumbersAre, Zenon
  <2>3. CASE w = "+"
    BY <2>2, <2>3 DEF Computed
  <2>4. CASE w = "-"
    BY <2>2, <2>4 DEF Computed
  <2>5. CASE w = "*"
    BY <2>1, <2>2, <2>5 DEF Computed
  <2> QED BY <1>1, <2>3, <2>4, <2>5
<1>2. CASE w \in {"/", "rem"}
  <2>1. PICK q \in Int : q = FloorDiv(a, b)
    BY <1>2, FloorDivIs
  <2>2. PICK r \in Int : r = a - b * q
    BY <2>1
  <2>3. IntV(q) \in V /\ IntV(r) \in V
    BY NumbersAre
  <2>4. CASE w = "/"
    BY <2>1, <2>3, <2>4 DEF Computed
  <2>5. CASE w = "rem"
    BY <2>1, <2>2, <2>3, <2>5 DEF Computed
  <2> QED BY <1>2, <2>4, <2>5
<1>3. CASE w \in {"<", "<=", ">", ">="}
  <2>1. Bool(a < b) \in V /\ Bool(a <= b) \in V /\ Bool(a > b) \in V /\ Bool(a >= b) \in V
    BY DEF Bool, Values
  <2> QED BY <1>3, <2>1 DEF Computed
<1> QED BY <1>1, <1>2, <1>3 DEF Arithmetic

LEMMA BinaryStays ==
  ASSUME NEW V, NEW n, NEW I, Values(V, n, I), NEW l, NEW f,
         NEW s \in Stacks(l, V, f), NEW w \in Arithmetic
  PROVE  Binary(w, s) \in Stacks(l, V, f)
<1> DEFINE s1 == PopInt(s)
           s2 == PopInt(s1)
           a == Top(s1)[2]
           b == Top(s)[2]
<1>1. s1 \in Stacks(l, V, f) /\ (Fine(s1) => b \in Int)
  BY PopIntStays
<1>2. s2 \in Stacks(l, V, f) /\ (Fine(s2) => Fine(s1) /\ a \in Int)
  BY <1>1, PopIntStays
<1>3. Binary(w, s) = IF ~Fine(s2) THEN s2
                     ELSE IF w \in {"/", "rem"} /\ b = 0 THEN Raise(s2, "division by zero")
                     ELSE Push(s2, Computed(w, a, b))
  BY DEF Binary
<1> HIDE DEF s1, s2, a, b
<1>4. Raise(s2, "division by zero") \in Stacks(l, V, f)
  BY <1>2, ErrorsAre, RaiseStays
<1>5. ASSUME Fine(s2), ~(w \in {"/", "rem"} /\ b = 0)
      PROVE  Push(s2, Computed(w, a, b)) \in Stacks(l, V, f)
  <2>1. Computed(w, a, b) \in V
    BY <1>1, <1>2, <1>5, ComputedTyped
  <2> QED BY <1>2, <2>1, PushStays
<1> QED BY <1>2, <1>3, <1>4, <1>5

LEMMA UnaryStays ==
  ASSUME NEW V, NEW n, NEW I, Values(V, n, I), NEW l, NEW f, NEW s \in Stacks(l, V, f), NEW w
  PROVE  Unary(w, s) \in Stacks(l, V, f)
<1> DEFINE s1 == PopInt(s)
           x == Top(s)[2]
           y == IF w = "succ" THEN x + 1 ELSE IF x > 0 THEN x - 1 ELSE x
<1>1. s1 \in Stacks(l, V, f) /\ (Fine(s1) => x \in Int)
  BY PopIntStays
<1>2. Unary(w, s) = IF ~Fine(s1) THEN s1 ELSE Push(s1, IntV(y))
  BY DEF Unary, PushInt
<1> HIDE DEF s1, x
<1>3. ASSUME Fine(s1) PROVE Push(s1, IntV(y)) \in Stacks(l, V, f)
  <2>1. y \in Int
    BY <1>1, <1>3
  <2>2. IntV(y) \in V
    BY <2>1, NumbersAre
  <2> QED BY <1>1, <2>2, PushStays
<1> QED BY <1>1, <1>2, <1>3

LEMMA EqualStays ==
  ASSUME NEW V, NEW n, NEW I, Values(V, n, I), NEW l, NEW f, NEW s \in Stacks(l, V, f), NEW w
  PROVE  Equal(w, s) \in Stacks(l, V, f)
<1> DEFINE s1 == Pop(s)
           s2 == Pop(s1)
           flag == (w = "=") = (IF TopIsInt(s) /\ TopIsInt(s1) THEN Top(s1)[2] = Top(s)[2]
                                ELSE Comparable(Top(s1)) /\ Top(s1) = Top(s))
<1>1. s2 \in Stacks(l, V, f)
  BY PopStays
<1>2. Equal(w, s) = IF ~Fine(s2) THEN s2 ELSE Push(s2, Bool(flag))
  BY DEF Equal
<1>3. Bool(flag) \in V
  BY DEF Bool, Values
<1> HIDE DEF flag, s2
<1>4. Push(s2, Bool(flag)) \in Stacks(l, V, f)
  BY <1>1, <1>3, PushStays
<1> QED BY <1>1, <1>2, <1>4

LEMMA LogicStays ==
  ASSUME NEW V, NEW n, NEW I, Values(V, n, I), NEW l, NEW f, NEW m,
         m.st \in Stacks(l, V, f), NEW w
  PROVE  Logic(w, m) \in Stacks(l, V, f)
<1> DEFINE s1 == Pop(m.st)
           s2 == Pop(s1)
           b == TopTruthy(m)
           a == TopTruthy(OnStack(m, s1))
<1>1. s1 \in Stacks(l, V, f) /\ s2 \in Stacks(l, V, f)
  BY PopStays
<1>2. Bool(~b) \in V /\ Bool(IF w = "and" THEN a /\ b ELSE a \/ b) \in V
  BY DEF Bool, Values
<1>3. Logic(w, m) = IF w = "not" THEN IF Fine(s1) THEN Push(s1, Bool(~b)) ELSE s1
                    ELSE IF ~Fine(s2) THEN s2
                         ELSE Push(s2, Bool(IF w = "and" THEN a /\ b ELSE a \/ b))
  BY DEF Logic
<1> HIDE DEF s1, s2, a, b
<1>4. /\ Push(s1, Bool(~b)) \in Stacks(l, V, f)
      /\ Push(s2, Bool(IF w = "and" THEN a /\ b ELSE a \/ b)) \in Stacks(l, V, f)
  BY <1>1, <1>2, PushStays
<1> QED BY <1>1, <1>3, <1>4

LEMMA ListParts ==
  ASSUME NEW V, NEW n, NEW I, Values(V, n, I), NEW vs \in Seq(V)
  PROVE  /\ ListV(vs) \in V /\ ListV(Reverse(vs)) \in V /\ ListV(<<>>) \in V
         /\ vs # <<>> => Head(vs) \in V /\ Tail(vs) \in Seq(V) /\ ListV(Tail(vs)) \in V
<1>1. Reverse(vs) \in Seq(V)
  <2>1. Len(vs) \in Nat /\ \A k \in 1..Len(vs) : vs[k] \in V
    BY LenProperties, ElementOfSeq
  <2>2. \A k \in 1..Len(vs) : (Len(vs) - k) + 1 \in 1..Len(vs)
    BY <2>1
  <2>3. \A k \in 1..Len(vs) : vs[(Len(vs) - k) + 1] \in V
    BY <2>1, <2>2
  <2>4. Reverse(vs) = [k \in 1..Len(vs) |-> vs[(Len(vs) - k) + 1]]
    BY DEF Reverse
  <2>5. Reverse(vs) \in [1..Len(vs) -> V]
    BY <2>3, <2>4
  <2> QED BY <2>1, <2>5, IsASeq
<1>2. vs # <<>> => Head(vs) \in V /\ Tail(vs) \in Seq(V)
  BY HeadTailProperties
<1>3. <<>> \in Seq(V)
  OBVIOUS
<1> QED BY <1>1, <1>2, <1>3 DEF Values

LEMMA OnListStays ==
  ASSUME NEW V, NEW n, NEW I, Values(V, n, I), NEW l, NEW f,
         NEW s \in Stacks(l, V, f), NEW w \in ListWords
  PROVE  OnList(w, s) \in Stacks(l, V, f)
<1> DEFINE s1 == PopList(s)
           vs == Top(s)[2]
<1>1. s1 \in Stacks(l, V, f) /\ (Fine(s1) => vs \in Seq(V))
  BY PopListStays
<1>2. OnList(w, s) = IF ~Fine(s1) THEN s1
                     ELSE IF w = "small" THEN Push(s1, Bool(Len(vs) <= 1))
                     ELSE IF w = "reverse" THEN Push(s1, ListV(Reverse(vs)))
                     ELSE IF vs = <<>> THEN Raise(s1, "empty list")
                     ELSE CASE w = "first"  -> Push(s1, Head(vs))
                            [] w = "rest"   -> Push(s1, ListV(Tail(vs)))
                            [] w = "uncons" -> Push(Push(s1, ListV(Tail(vs))), Head(vs))
  BY DEF OnList
<1> HIDE DEF s1, vs
<1>3. Raise(s1, "empty list") \in Stacks(l, V, f)
  BY <1>1, ErrorsAre, RaiseStays
<1>4. Push(s1, Bool(Len(vs) <= 1)) \in Stacks(l, V, f)
  <2>1. Bool(Len(vs) <= 1) \in V
    BY DEF Bool, Values
  <2> QED BY <1>1, <2>1, PushStays
<1>5. ASSUME Fine(s1) PROVE Push(s1, ListV(Reverse(vs))) \in Stacks(l, V, f)
  BY <1>1, <1>5, ListParts, PushStays
<1>6. ASSUME Fine(s1), vs # <<>>
      PROVE  /\ Push(s1, Head(vs)) \in Stacks(l, V, f)
             /\ Push(s1, ListV(Tail(vs))) \in Stacks(l, V, f)
             /\ Push(Push(s1, ListV(Tail(vs))), Head(vs)) \in Stacks(l, V, f)
  <2>1. Head(vs) \in V /\ ListV(Tail(vs)) \in V
    BY <1>1, <1>6, ListParts
  <2> QED BY <1>1, <2>1, PushStays
<1>7. CASE ~Fine(s1) \/ w \in {"small", "reverse"} \/ vs = <<>>
  BY <1>1, <1>2, <1>3, <1>4, <1>5, <1>7
<1>8. CASE Fine(s1) /\ w \in {"first", "rest", "uncons"} /\ vs # <<>>
  BY <1>2, <1>6, <1>8
<1> QED BY <1>7, <1>8 DEF ListWords

LEMMA ConsStays ==
  ASSUME NEW V, NEW n, NEW I, Values(V, n, I), NEW l, NEW f, NEW s \in Stacks(l, V, f)
  PROVE  ConsTop(s) \in Stacks(l, V, f) /\ Concat(s) \in Stacks(l, V, f)
<1> DEFINE s1 == PopList(s)
           s2 == Pop(s1)
           s3 == PopList(s1)
           ws == Top(s)[2]
           x == Top(s1)
<1>1. s1 \in Stacks(l, V, f) /\ (Fine(s1) => ws \in Seq(V))
  BY PopListStays
<1>2. s2 \in Stacks(l, V, f) /\ (Fine(s2) => Fine(s1)) /\ x \in V
  BY <1>1, PopStays, TopTyped
<1>3. s3 \in Stacks(l, V, f) /\ (Fine(s3) => Fine(s1) /\ x[2] \in Seq(V))
  BY <1>1, PopListStays
<1>4. /\ ConsTop(s) = IF Fine(s2) THEN Push(s2, ListV(<<x>> \o ws)) ELSE s2
      /\ Concat(s) = IF Fine(s3) THEN Push(s3, ListV(x[2] \o ws)) ELSE s3
  BY DEF ConsTop, Concat
<1> HIDE DEF s1, s2, s3, ws, x
<1>5. ASSUME Fine(s2) PROVE Push(s2, ListV(<<x>> \o ws)) \in Stacks(l, V, f)
  <2>1. <<x>> \in Seq(V) /\ ws \in Seq(V)
    BY <1>1, <1>2, <1>5
  <2>2. <<x>> \o ws \in Seq(V)
    BY <2>1, ConcatProperties
  <2> QED BY <1>2, <2>2, PushStays DEF Values
<1>6. ASSUME Fine(s3) PROVE Push(s3, ListV(x[2] \o ws)) \in Stacks(l, V, f)
  <2>1. x[2] \o ws \in Seq(V)
    BY <1>1, <1>3, <1>6, ConcatProperties
  <2> QED BY <1>3, <2>1, PushStays DEF Values
<1> QED BY <1>2, <1>3, <1>4, <1>5, <1>6

LEMMA NullStays ==
  ASSUME NEW V, NEW n, NEW I, Values(V, n, I), NEW l, NEW f, NEW s \in Stacks(l, V, f)
  PROVE  Null(s) \in Stacks(l, V, f)
<1> DEFINE flag == IF TopIsInt(s) THEN Top(s)[2] = 0 ELSE IsList(Top(s)) /\ Top(s)[2] = <<>>
<1>1. Bool(flag) \in V /\ Pop(s) \in Stacks(l, V, f)
  <2>1. Bool(flag) \in V
    BY DEF Bool, Values
  <2> QED BY <2>1, PopStays
<1>2. Null(s) = IF ~Fine(Pop(s)) THEN Pop(s) ELSE Push(Pop(s), Bool(flag))
  BY DEF Null
<1> HIDE DEF flag
<1>3. Push(Pop(s), Bool(flag)) \in Stacks(l, V, f)
  BY <1>1, PushStays
<1> QED BY <1>1, <1>2, <1>3

LEMMA FlatTyped ==
  ASSUME NEW V, NEW n, NEW I, Values(V, n, I), NEW l, NEW f, NEW s \in Stacks(l, V, f)
  PROVE  Flat(s) \in Seq(V)
<1>1. CASE l = "naive"
  BY <1>1, NaiveFields DEF Stacks, Flat
<1>2. CASE l # "naive"
  <2>1. PICK m \in Nat : m = Size(s)
    BY SizeIs
  <2>2. ASSUME NEW k \in 1..m PROVE CellValue(CellAt(s, m - k)) \in V
    <3>1. PICK j \in Nat : j = m - k /\ j < m
      OBVIOUS
    <3>2. CellAt(s, j) \in Cells(V)
      BY <2>1, <3>1, CellAtTyped
    <3> QED BY <3>1, <3>2, CellTyped
  <2>3. ~IsNaive(s)
    BY <1>2, CacheFields DEF Stacks
  <2>4. Flat(s) = [k \in 1..m |-> CellValue(CellAt(s, m - k))]
    BY <2>1, <2>3 DEF Flat
  <2>5. Flat(s) \in [1..m -> V]
    BY <2>2, <2>4
  <2> QED BY <2>1, <2>5, IsASeq
<1> QED BY <1>1, <1>2

LEMMA UnstackStays ==
  ASSUME NEW V, NEW n, NEW I, Values(V, n, I), NEW l, NEW f, NEW s \in Stacks(l, V, f)
  PROVE  Unstack(s) \in Stacks(l, V, f)
<1>1. PopList(s) \in Stacks(l, V, f) /\ (Fine(PopList(s)) => Top(s)[2] \in Seq(V))
  BY PopListStays
<1>2. Fine(PopList(s)) => ReplaceItems(PopList(s), Top(s)[2]) \in Stacks(l, V, f)
  BY <1>1, ReplaceStays
<1> QED BY <1>1, <1>2 DEF Unstack

\* The memory a primitive works on.
Memories(l, V, f) == [st : Stacks(l, V, f), arrays : Seq(Seq(V))]

LEMMA OnStackIs ==
  ASSUME NEW l, NEW V, NEW f, NEW m \in Memories(l, V, f), NEW s \in Stacks(l, V, f)
  PROVE  /\ m.st \in Stacks(l, V, f) /\ m.arrays \in Seq(Seq(V)) /\ Len(m.arrays) \in Nat
         /\ OnStack(m, s) \in Memories(l, V, f) /\ OnStack(m, s).arrays = m.arrays
<1>1. m.st \in Stacks(l, V, f) /\ m.arrays \in Seq(Seq(V))
  BY DEF Memories
<1>2. OnStack(m, s) \in Memories(l, V, f) /\ OnStack(m, s).arrays = m.arrays
  BY DEF Memories, OnStack
<1> QED BY <1>1, <1>2, LenProperties

LEMMA ArrayIs ==
  ASSUME NEW V, NEW n, NEW I, Values(V, n, I), NEW l, NEW f, NEW m \in Memories(l, V, f),
         n = Len(m.arrays), NEW v \in V, IsArray(v)
  PROVE  v[2] \in 1..n /\ m.arrays[v[2]] \in Seq(V)
<1>1. v[2] \in 1..n
  BY DEF Values
<1>2. m.arrays \in Seq(Seq(V))
  BY DEF Memories
<1> QED BY <1>1, <1>2, ElementOfSeq

LEMMA SizeOfStays ==
  ASSUME NEW V, NEW n, NEW I, Values(V, n, I), NEW l, NEW f, NEW m \in Memories(l, V, f),
         n = Len(m.arrays)
  PROVE  SizeOf(m) \in Stacks(l, V, f)
<1> DEFINE s == m.st
           v == Top(s)
           bad == Fine(s) /\ Size(s) > 0 /\ ~(IsList(v) \/ IsArray(v))
           s1 == IF bad THEN Raise(Pop(s), "expected list or array") ELSE Pop(s)
           vs == IF IsList(v) THEN v[2] ELSE m.arrays[v[2]]
<1>1. SizeOf(m) = IF ~Fine(s1) THEN s1 ELSE PushInt(s1, Len(vs))
  BY DEF SizeOf, Expect
<1>2. s \in Stacks(l, V, f) /\ v \in V
  BY TopTyped DEF Memories
<1>3. s1 \in Stacks(l, V, f) /\ (Fine(s1) => IsList(v) \/ IsArray(v))
  <2>1. CASE bad
    BY <1>2, <2>1, ErrorsAre, PopOrRaise DEF Ok
  <2>2. CASE ~bad
    BY <1>2, <2>2, PopStays
  <2> QED BY <2>1, <2>2
<1>4. ASSUME Fine(s1) PROVE PushInt(s1, Len(vs)) \in Stacks(l, V, f)
  <2>1. IsList(v) => v[2] \in Seq(V)
    BY <1>2 DEF Values
  <2>2. IsArray(v) => m.arrays[v[2]] \in Seq(V)
    BY <1>2, ArrayIs
  <2>3. vs \in Seq(V)
    BY <1>3, <1>4, <2>1, <2>2
  <2>4. Len(vs) \in Int
    BY <2>3, LenProperties
  <2>5. IntV(Len(vs)) \in V
    BY <2>4 DEF Values
  <2> QED BY <1>3, <2>5, PushStays DEF PushInt
<1> QED BY <1>1, <1>3, <1>4

LEMMA NthStays ==
  ASSUME NEW V, NEW n, NEW I, Values(V, n, I), NEW l, NEW f, NEW m \in Memories(l, V, f),
         n = Len(m.arrays)
  PROVE  Nth(m) \in Stacks(l, V, f)
<1> DEFINE v == Top(m.st)
           s1 == Pop(m.st)
           s2 == PopInt(s1)
           x == Top(s1)[2]
           vs == IF IsArray(v) THEN m.arrays[v[2]] ELSE v[2]
<1>1. Nth(m) = IF ~Fine(s2) THEN s2
               ELSE IF ~(IsArray(v) \/ IsList(v)) THEN Raise(s2, "nth expects array or list")
               ELSE IF x < 0 \/ x >= Len(vs) THEN Raise(s2, "index out of range")
               ELSE Push(s2, vs[x + 1])
  BY DEF Nth
<1>2. m.st \in Stacks(l, V, f) /\ v \in V
  BY TopTyped DEF Memories
<1>3. s1 \in Stacks(l, V, f)
  BY <1>2, PopStays
<1>4. s2 \in Stacks(l, V, f) /\ (Fine(s2) => x \in Int)
  BY <1>3, PopIntStays
<1>5. IsArray(v) \/ IsList(v) => vs \in Seq(V)
  <2>1. IsList(v) => v[2] \in Seq(V)
    BY <1>2 DEF Values
  <2>2. IsArray(v) => m.arrays[v[2]] \in Seq(V)
    BY <1>2, ArrayIs
  <2> QED BY <2>1, <2>2
<1>6. /\ Raise(s2, "nth expects array or list") \in Stacks(l, V, f)
      /\ Raise(s2, "index out of range") \in Stacks(l, V, f)
  BY <1>4, ErrorsAre, RaiseStays
<1> HIDE DEF v, s1, s2, x, vs
<1>7. ASSUME Fine(s2), IsArray(v) \/ IsList(v), ~(x < 0 \/ x >= Len(vs))
      PROVE  Push(s2, vs[x + 1]) \in Stacks(l, V, f)
  <2>1. vs \in Seq(V) /\ Len(vs) \in Nat /\ x \in Int
    BY <1>4, <1>5, <1>7, LenProperties
  <2>2. x + 1 \in 1..Len(vs)
    BY <1>7, <2>1
  <2>3. vs[x + 1] \in V
    BY <2>1, <2>2, ElementOfSeq
  <2> QED BY <1>4, <2>3, PushStays
<1> QED BY <1>1, <1>4, <1>6, <1>7

LEMMA SetNthStays ==
  ASSUME NEW V, NEW n, NEW I, Values(V, n, I), NEW l, NEW f, NEW m \in Memories(l, V, f),
         n = Len(m.arrays)
  PROVE  SetNth(m) \in Memories(l, V, f) /\ Len(SetNth(m).arrays) = n
<1> DEFINE s == m.st
           v == Top(s)
           bad == Fine(s) /\ Size(s) > 0 /\ ~IsArray(v)
           s1 == IF bad THEN Raise(Pop(s), "set-nth expects array") ELSE Pop(s)
           s2 == PopInt(s1)
           x == Top(s1)[2]
           s3 == Pop(s2)
           y == Top(s2)
           new == [m.arrays EXCEPT ![v[2]][x + 1] = y]
<1>1. SetNth(m) = IF ~Fine(s3) THEN OnStack(m, s3)
                  ELSE IF x < 0 \/ x >= Len(m.arrays[v[2]])
                  THEN OnStack(m, Raise(s3, "index out of range"))
                  ELSE [st |-> s3, arrays |-> new]
  BY DEF SetNth, Expect
<1>2. s \in Stacks(l, V, f) /\ v \in V /\ m.arrays \in Seq(Seq(V))
  BY TopTyped DEF Memories
<1>3. s1 \in Stacks(l, V, f) /\ (Fine(s1) => Fine(s) /\ Size(s) > 0 /\ IsArray(v))
  <2>1. CASE bad
    BY <1>2, <2>1, ErrorsAre, PopOrRaise DEF Ok
  <2>2. CASE ~bad
    BY <1>2, <2>2, PopStays
  <2> QED BY <2>1, <2>2
<1> HIDE DEF s1, v
<1>4. s2 \in Stacks(l, V, f) /\ (Fine(s2) => Fine(s1) /\ x \in Int)
  BY <1>3, PopIntStays
<1> HIDE DEF s2, x
<1>5. s3 \in Stacks(l, V, f) /\ (Fine(s3) => Fine(s2)) /\ y \in V
  BY <1>4, PopStays, TopTyped
<1> HIDE DEF s3, y
<1>6. Raise(s3, "index out of range") \in Stacks(l, V, f)
  BY <1>5, ErrorsAre, RaiseStays
<1>7. /\ OnStack(m, s3) \in Memories(l, V, f)
      /\ OnStack(m, Raise(s3, "index out of range")) \in Memories(l, V, f)
      /\ OnStack(m, s3).arrays = m.arrays
      /\ OnStack(m, Raise(s3, "index out of range")).arrays = m.arrays
  <2>1. OnStack(m, s3) \in Memories(l, V, f) /\ OnStack(m, s3).arrays = m.arrays
    BY <1>5, OnStackIs
  <2>2. PICK r \in Stacks(l, V, f) : r = Raise(s3, "index out of range")
    BY <1>6
  <2>3. OnStack(m, r) \in Memories(l, V, f) /\ OnStack(m, r).arrays = m.arrays
    BY OnStackIs
  <2> QED BY <2>1, <2>2, <2>3
<1>8. ASSUME Fine(s3), ~(x < 0 \/ x >= Len(m.arrays[v[2]]))
      PROVE  [st |-> s3, arrays |-> new] \in Memories(l, V, f) /\ Len(new) = n
  <2>1. v[2] \in 1..n /\ m.arrays[v[2]] \in Seq(V)
    BY <1>2, <1>3, <1>4, <1>5, <1>8, ArrayIs
  <2>2. PICK k : k = v[2]
    OBVIOUS
  <2>3. PICK row \in Seq(V) : row = m.arrays[k]
    BY <2>1, <2>2
  <2>4. PICK j \in 1..Len(row) : j = x + 1
    <3>1. Len(row) \in Nat /\ x \in Int /\ ~(x < 0 \/ x >= Len(row))
      BY <1>4, <1>5, <1>8, <2>2, <2>3, LenProperties
    <3>2. x + 1 \in 1..Len(row)
      BY <3>1
    <3> QED BY <3>2
  <2>5. [row EXCEPT ![j] = y] \in Seq(V)
    BY <1>5, ExceptSeq
  <2>6. PICK row2 \in Seq(V) : row2 = [row EXCEPT ![j] = y]
    BY <2>5
  <2>7. new = [m.arrays EXCEPT ![k] = row2]
    BY <2>2, <2>3, <2>4, <2>6
  <2> HIDE DEF new
  <2>8. k \in 1..Len(m.arrays)
    BY <2>1, <2>2
  <2>9. new \in Seq(Seq(V)) /\ Len(new) = Len(m.arrays)
    BY <1>2, <2>7, <2>8, ExceptSeq
  <2> QED BY <1>5, <2>9 DEF Memories
<1> HIDE DEF new
<1>9. [st |-> s3, arrays |-> new].arrays = new
  OBVIOUS
<1> QED BY <1>1, <1>7, <1>8, <1>9

\* What is typed with few values is typed with more.
LEMMA MoreValues ==
  ASSUME NEW V, NEW W, V \subseteq W, NEW l
  PROVE  /\ Seq(V) \subseteq Seq(W) /\ Cells(V) \subseteq Cells(W)
         /\ Snapshots(l, V) \subseteq Snapshots(l, W)
         /\ \A f : /\ Stacks(l, V, f) \subseteq Stacks(l, W, f)
                   /\ Memories(l, V, f) \subseteq Memories(l, W, f)
<1>1. Seq(V) \subseteq Seq(W) /\ Seq(Seq(V)) \subseteq Seq(Seq(W))
  <2>1. ASSUME NEW A, NEW B, A \subseteq B, NEW x \in Seq(A) PROVE x \in Seq(B)
    <3>1. Len(x) \in Nat /\ x \in [1..Len(x) -> A]
      BY LenProperties
    <3>2. \A k \in 1..Len(x) : x[k] \in B
      BY <2>1, <3>1
    <3> QED BY <3>1, <3>2
  <2>2. Seq(V) \subseteq Seq(W)
    BY <2>1
  <2> QED BY <2>1, <2>2
<1>2. Cells(V) \subseteq Cells(W)
  BY DEF Cells
<1>3. [Frame0 -> Cells(V)] \subseteq [Frame0 -> Cells(W)]
      /\ [Spill0 -> Cells(V)] \subseteq [Spill0 -> Cells(W)]
  BY <1>2
<1>4. Snapshots(l, V) \subseteq Snapshots(l, W)
  BY <1>1, <1>2, <1>3 DEF Snapshots
<1>5. ASSUME NEW f PROVE Stacks(l, V, f) \subseteq Stacks(l, W, f)
  <2>1. NaiveStacks(V) \subseteq NaiveStacks(W)
    BY <1>1 DEF NaiveStacks
  <2>2. CacheStacks(V, f) \subseteq CacheStacks(W, f)
    BY <1>2, <1>3 DEF CacheStacks
  <2> QED BY <2>1, <2>2 DEF Stacks
<1>6. ASSUME NEW f PROVE Memories(l, V, f) \subseteq Memories(l, W, f)
  BY <1>1, <1>5 DEF Memories
<1> QED BY <1>1, <1>2, <1>4, <1>5, <1>6

\* The memory m2 follows a memory with n arrays: it has one more at most.
Follows(U, l, f, n, m2) ==
  \/ m2 \in Memories(l, U[n], f) /\ Len(m2.arrays) = n
  \/ m2 \in Memories(l, U[n + 1], f) /\ Len(m2.arrays) = n + 1

LEMMA OnStackFollows ==
  ASSUME NEW U, NEW l, NEW f, NEW n, NEW m \in Memories(l, U[n], f), n = Len(m.arrays),
         NEW s \in Stacks(l, U[n], f)
  PROVE  Follows(U, l, f, n, OnStack(m, s))
BY OnStackIs DEF Follows

LEMMA NewArrayFollows ==
  ASSUME NEW U, NEW I, World(U, I), NEW l, NEW f, NEW n \in Nat,
         NEW m \in Memories(l, U[n], f), n = Len(m.arrays)
  PROVE  Follows(U, l, f, n, NewArray(m))
<1> DEFINE s1 == PopInt(m.st)
           k == Top(m.st)[2]
           row == [j \in 1..k |-> IntV(0)]
           ref == <<"array", Len(m.arrays) + 1>>
<1>0. PICK V : V = U[n]
  OBVIOUS
<1>1. PICK W : W = U[n + 1]
  OBVIOUS
<1>2. Values(V, n, I) /\ Values(W, n + 1, I) /\ V \subseteq W
  BY <1>0, <1>1 DEF World
<1>3. m.st \in Stacks(l, V, f) /\ m.arrays \in Seq(Seq(V))
  BY <1>0 DEF Memories
<1>4. s1 \in Stacks(l, V, f) /\ (Fine(s1) => k \in Int)
  BY <1>2, <1>3, PopIntStays
<1>5. NewArray(m) = IF ~Fine(s1) THEN OnStack(m, s1)
                    ELSE IF k < 0 THEN OnStack(m, Raise(s1, "expected non-negative"))
                    ELSE [st |-> Push(s1, ref), arrays |-> Append(m.arrays, row)]
  BY DEF NewArray
<1> HIDE DEF s1, k
<1>6. Follows(U, l, f, n, OnStack(m, s1))
  BY <1>0, <1>4, OnStackFollows
<1>7. Follows(U, l, f, n, OnStack(m, Raise(s1, "expected non-negative")))
  <2>1. Raise(s1, "expected non-negative") \in Stacks(l, U[n], f)
    BY <1>0, <1>4, ErrorsAre, RaiseStays
  <2> QED BY <2>1, OnStackFollows
<1>8. ASSUME Fine(s1), ~(k < 0)
      PROVE  Follows(U, l, f, n, [st |-> Push(s1, ref), arrays |-> Append(m.arrays, row)])
  <2>1. IntV(0) \in W /\ ref \in W
    <3>1. n + 1 \in 1..(n + 1)
      OBVIOUS
    <3>2. \A j \in 1..(n + 1) : <<"array", j>> \in W
      BY <1>2 DEF Values
    <3>3. IntV(0) \in W
      BY <1>2 DEF Values
    <3> QED BY <3>1, <3>2, <3>3
  <2>2. row \in Seq(W)
    <3>1. k \in Nat
      BY <1>4, <1>8
    <3> QED BY <2>1, <3>1
  <2>3. s1 \in Stacks(l, W, f) /\ m.arrays \in Seq(Seq(W))
    <3>1. m \in Memories(l, W, f) /\ s1 \in Stacks(l, W, f)
      BY <1>0, <1>2, <1>4, MoreValues
    <3> QED BY <3>1 DEF Memories
  <2> HIDE DEF row, ref
  <2>4. Push(s1, ref) \in Stacks(l, W, f)
    BY <1>2, <2>1, <2>3, PushStays
  <2>5. /\ Append(m.arrays, row) \in Seq(Seq(W))
        /\ Len(Append(m.arrays, row)) = n + 1
    BY <2>2, <2>3, AppendProperties
  <2> QED BY <1>1, <2>4, <2>5 DEF Follows, Memories
<1> QED BY <1>5, <1>6, <1>7, <1>8

LEMMA PrimitiveFollows ==
  ASSUME NEW U, NEW I, World(U, I), NEW l, NEW f, NEW n \in Nat,
         NEW m \in Memories(l, U[n], f), n = Len(m.arrays), NEW w \in PrimitiveWords
  PROVE  Follows(U, l, f, n, Primitive(w, m))
<1>0. PICK V : V = U[n]
  OBVIOUS
<1>1. Values(V, n, I) /\ m \in Memories(l, V, f) /\ m.st \in Stacks(l, V, f)
  BY <1>0 DEF World, Memories
<1>2. ASSUME NEW s \in Stacks(l, V, f) PROVE Follows(U, l, f, n, OnStack(m, s))
  BY <1>0, OnStackFollows
<1>3. CASE w \in DOMAIN Shuffles
  <2>1. Shuffle(w, m.st) \in Stacks(l, V, f)
    BY <1>1, <1>3, ShuffleStays
  <2>2. Primitive(w, m) = OnStack(m, Shuffle(w, m.st))
    BY <1>3 DEF Primitive, Shuffles, Arithmetic, ListWords
  <2> QED BY <1>2, <2>1, <2>2
<1>4. CASE w \in Arithmetic
  <2>1. Binary(w, m.st) \in Stacks(l, V, f)
    BY <1>1, <1>4, BinaryStays
  <2>2. Primitive(w, m) = OnStack(m, Binary(w, m.st))
    BY <1>4 DEF Primitive, Shuffles, Arithmetic, ListWords
  <2> QED BY <1>2, <2>1, <2>2
<1>5. CASE w \in {"=", "!="}
  <2>1. Equal(w, m.st) \in Stacks(l, V, f)
    BY <1>1, EqualStays
  <2>2. Primitive(w, m) = OnStack(m, Equal(w, m.st))
    BY <1>5 DEF Primitive, Shuffles, Arithmetic, ListWords
  <2> QED BY <1>2, <2>1, <2>2
<1>6. CASE w \in {"and", "or", "not"}
  <2>1. Logic(w, m) \in Stacks(l, V, f)
    BY <1>1, LogicStays
  <2>2. Primitive(w, m) = OnStack(m, Logic(w, m))
    BY <1>6 DEF Primitive, Shuffles, Arithmetic, ListWords
  <2> QED BY <1>2, <2>1, <2>2
<1>7. CASE w \in {"succ", "pred"}
  <2>1. Unary(w, m.st) \in Stacks(l, V, f)
    BY <1>1, UnaryStays
  <2>2. Primitive(w, m) = OnStack(m, Unary(w, m.st))
    BY <1>7 DEF Primitive, Shuffles, Arithmetic, ListWords
  <2> QED BY <1>2, <2>1, <2>2
<1>8. CASE w \in ListWords
  <2>1. OnList(w, m.st) \in Stacks(l, V, f)
    BY <1>1, <1>8, OnListStays
  <2>2. Primitive(w, m) = OnStack(m, OnList(w, m.st))
    BY <1>8 DEF Primitive, Shuffles, Arithmetic, ListWords
  <2> QED BY <1>2, <2>1, <2>2
<1>9. CASE w \in {"cons", "swons"}
  <2>1. "swap" \in DOMAIN Shuffles
    BY DEF Shuffles
  <2>2. Shuffle("swap", m.st) \in Stacks(l, V, f)
    BY <1>1, <2>1, ShuffleStays
  <2>3. ConsTop(m.st) \in Stacks(l, V, f) /\ ConsTop(Shuffle("swap", m.st)) \in Stacks(l, V, f)
    BY <1>1, <2>2, ConsStays
  <2>4. Primitive(w, m) = IF w = "cons" THEN OnStack(m, ConsTop(m.st))
                          ELSE OnStack(m, ConsTop(Shuffle("swap", m.st)))
    BY <1>9 DEF Primitive, Shuffles, Arithmetic, ListWords
  <2> QED BY <1>2, <2>3, <2>4
<1>10. CASE w \in {"concat", "unstack", "null", "size", "nth"}
  <2>1. /\ Concat(m.st) \in Stacks(l, V, f) /\ Unstack(m.st) \in Stacks(l, V, f)
        /\ Null(m.st) \in Stacks(l, V, f)
    BY <1>1, ConsStays, UnstackStays, NullStays
  <2>2. SizeOf(m) \in Stacks(l, V, f) /\ Nth(m) \in Stacks(l, V, f)
    BY <1>1, SizeOfStays, NthStays
  <2>3. Primitive(w, m) = CASE w = "concat"  -> OnStack(m, Concat(m.st))
                            [] w = "unstack" -> OnStack(m, Unstack(m.st))
                            [] w = "null"    -> OnStack(m, Null(m.st))
                            [] w = "size"    -> OnStack(m, SizeOf(m))
                            [] w = "nth"     -> OnStack(m, Nth(m))
    BY <1>10 DEF Primitive, Shuffles, Arithmetic, ListWords
  <2> QED BY <1>2, <1>10, <2>1, <2>2, <2>3
<1>11. CASE w \in {"nil", "stack"}
  <2>1. ListV(<<>>) \in V
    <3>1. <<>> \in Seq(V)
      OBVIOUS
    <3> QED BY <1>1, <3>1 DEF Values
  <2>2. ListV(Flat(m.st)) \in V
    BY <1>1, FlatTyped DEF Values
  <2>3. Push(m.st, ListV(<<>>)) \in Stacks(l, V, f) /\ Push(m.st, ListV(Flat(m.st))) \in Stacks(l, V, f)
    BY <1>1, <2>1, <2>2, PushStays
  <2>4. Primitive(w, m) = IF w = "nil" THEN OnStack(m, Push(m.st, ListV(<<>>)))
                          ELSE OnStack(m, Push(m.st, ListV(Flat(m.st))))
    BY <1>11 DEF Primitive, Shuffles, Arithmetic, ListWords
  <2> QED BY <1>2, <2>3, <2>4
<1>12. CASE w = "<array>"
  <2>1. Primitive(w, m) = NewArray(m)
    BY <1>12 DEF Primitive, Shuffles, Arithmetic, ListWords
  <2> QED BY <2>1, NewArrayFollows
<1>13. CASE w = "set-nth"
  <2>1. Primitive(w, m) = SetNth(m)
    BY <1>13 DEF Primitive, Shuffles, Arithmetic, ListWords
  <2>2. SetNth(m) \in Memories(l, V, f) /\ Len(SetNth(m).arrays) = n
    BY <1>1, SetNthStays
  <2> QED BY <1>0, <2>1, <2>2 DEF Follows
<1> QED BY <1>3, <1>4, <1>5, <1>6, <1>7, <1>8, <1>9, <1>10, <1>11, <1>12, <1>13
  DEF PrimitiveWords

-----------------------------------------------------------------------------
(* Frames *)

Kinds == {"ret", "dip", "ifte", "times", "step", "map", "filter", "fold", "while",
          "linrec", "binrec", "primrec"}

\* The fields of a frame; ip is below 0 in a place that names a frame.
Frames(l, V, I) ==
  [kind : Kinds, prog : Seq(I) \cup {Nowhere}, ip : Int,
   body : Seq(I), body2 : Seq(I), body3 : Seq(I), body4 : Seq(I),
   n : Int, i : Int, val : V, val2 : V, list : Seq(V), out : Seq(V),
   snap : {<<>>} \cup {<<x>> : x \in Snapshots(l, V)}]

LEMMA FrameFields ==
  ASSUME NEW l, NEW V, NEW I, NEW f \in Frames(l, V, I)
  PROVE  /\ f.kind \in Kinds /\ f.prog \in Seq(I) \cup {Nowhere} /\ f.ip \in Int
         /\ f.body \in Seq(I) /\ f.body2 \in Seq(I) /\ f.body3 \in Seq(I) /\ f.body4 \in Seq(I)
         /\ f.n \in Int /\ f.i \in Int /\ f.val \in V /\ f.val2 \in V
         /\ f.list \in Seq(V) /\ f.out \in Seq(V)
         /\ f.snap # <<>> => f.snap[1] \in Snapshots(l, V)
BY DEF Frames

\* One field at a time; the kind and the other fields stay.
LEMMA FrameSet ==
  ASSUME NEW l, NEW V, NEW I, NEW f \in Frames(l, V, I)
  PROVE  /\ \A x \in Seq(I) \cup {Nowhere} : [f EXCEPT !.prog = x] \in Frames(l, V, I)
         /\ \A x \in Int : /\ [f EXCEPT !.ip = x] \in Frames(l, V, I)
                           /\ [f EXCEPT !.n = x] \in Frames(l, V, I)
                           /\ [f EXCEPT !.i = x] \in Frames(l, V, I)
         /\ \A x \in Seq(I) : /\ [f EXCEPT !.body = x] \in Frames(l, V, I)
                              /\ [f EXCEPT !.body2 = x] \in Frames(l, V, I)
                              /\ [f EXCEPT !.body3 = x] \in Frames(l, V, I)
                              /\ [f EXCEPT !.body4 = x] \in Frames(l, V, I)
         /\ \A x \in V : /\ [f EXCEPT !.val = x] \in Frames(l, V, I)
                         /\ [f EXCEPT !.val2 = x] \in Frames(l, V, I)
         /\ \A x \in Seq(V) : /\ [f EXCEPT !.list = x] \in Frames(l, V, I)
                              /\ [f EXCEPT !.out = x] \in Frames(l, V, I)
         /\ \A x \in Snapshots(l, V) : [f EXCEPT !.snap = <<x>>] \in Frames(l, V, I)
<1>1. ASSUME NEW x \in Seq(I) \cup {Nowhere} PROVE [f EXCEPT !.prog = x] \in Frames(l, V, I)
  BY DEF Frames
<1>2. ASSUME NEW x \in Int
      PROVE  /\ [f EXCEPT !.ip = x] \in Frames(l, V, I)
             /\ [f EXCEPT !.n = x] \in Frames(l, V, I)
             /\ [f EXCEPT !.i = x] \in Frames(l, V, I)
  BY DEF Frames
<1>3. ASSUME NEW x \in Seq(I)
      PROVE  /\ [f EXCEPT !.body = x] \in Frames(l, V, I)
             /\ [f EXCEPT !.body2 = x] \in Frames(l, V, I)
             /\ [f EXCEPT !.body3 = x] \in Frames(l, V, I)
             /\ [f EXCEPT !.body4 = x] \in Frames(l, V, I)
  BY DEF Frames
<1>4. ASSUME NEW x \in V
      PROVE  /\ [f EXCEPT !.val = x] \in Frames(l, V, I)
             /\ [f EXCEPT !.val2 = x] \in Frames(l, V, I)
  BY DEF Frames
<1>5. ASSUME NEW x \in Seq(V)
      PROVE  /\ [f EXCEPT !.list = x] \in Frames(l, V, I)
             /\ [f EXCEPT !.out = x] \in Frames(l, V, I)
  BY DEF Frames
<1>6. ASSUME NEW x \in Snapshots(l, V) PROVE [f EXCEPT !.snap = <<x>>] \in Frames(l, V, I)
  BY DEF Frames
<1> QED BY <1>1, <1>2, <1>3, <1>4, <1>5, <1>6

LEMMA FrameTyped ==
  ASSUME NEW V, NEW n, NEW I, Values(V, n, I), NEW l, NEW kind \in Kinds,
         prog \in Seq(I) \cup {Nowhere}, ip \in Int
  PROVE  Frame(kind) \in Frames(l, V, I)
<1>1. None \in V /\ <<>> \in Seq(I) /\ <<>> \in Seq(V) /\ ip + 1 \in Int
  BY DEF Values
<1> QED BY <1>1 DEF Frame, Frames

-----------------------------------------------------------------------------
(* The call stack: who goes on where *)

Runs(p, i, I) == p \in Seq(I) /\ i \in 0..Len(p)

\* The place that names the frame f, the k-th, as the one to resume.
NamedBy(f, k, p, i) ==
  /\ p = Nowhere
  /\ \/ f.kind = "primrec" /\ i = IP_RESUME_PRIMREC - (k - 1)
     \/ f.kind = "linrec" /\ f.n = 2 /\ i = IP_RESUME_LINREC - (k - 1)
     \/ f.kind = "binrec" /\ f.n \in {2, 3} /\ i = IP_RESUME_BINREC - (k - 1)

\* A frame that is open runs a program; any other waits to be named.
Rests(f, k, p, i, I) == IF Open(f) THEN Runs(p, i, I) ELSE NamedBy(f, k, p, i)

\* The frames whose snapshot will be restored, in the fragment it was taken in.
Guards(f) == f.kind = "ifte" \/ (f.kind \in {"linrec", "binrec"} /\ f.n = 0)
\* The frames that go through a list, which has an element that is not done with.
Lists(f) == f.kind \in {"step", "map", "filter", "fold"}
Kept(f, l, c) ==
  /\ Guards(f) => f.snap # <<>> /\ (l = "naive" \/ f.snap[1].frag = c)
  /\ Lists(f) => f.list # <<>>

Opens(frames, k) == Cardinality({j \in 1..k : Open(frames[j])})
NextProg(frames, p, k) == IF k = Len(frames) THEN p ELSE frames[k + 1].prog
NextIp(frames, i, k) == IF k = Len(frames) THEN i ELSE frames[k + 1].ip

\* The call stack while p goes on at i: the outermost program runs, and what
\* goes on above a frame is what that frame expects.
Stacked(frames, p, i, l, V, I) ==
  /\ frames \in Seq(Frames(l, V, I))
  /\ Runs(NextProg(frames, p, 0), NextIp(frames, i, 0), I)
  /\ \A k \in 1..Len(frames) :
       /\ Kept(frames[k], l, Opens(frames, k - 1))
       /\ Rests(frames[k], k, NextProg(frames, p, k), NextIp(frames, i, k), I)

LEMMA OpensIs ==
  ASSUME NEW frames, NEW k \in Nat
  PROVE  Opens(frames, k) \in Nat
<1>1. IsFiniteSet(1..k)
  BY FS_Interval
<1>2. IsFiniteSet({j \in 1..k : Open(frames[j])})
  BY <1>1, FS_Subset
<1> QED BY <1>2, FS_CardinalityType DEF Opens

LEMMA OpensAppend ==
  ASSUME NEW S, NEW u \in Seq(S), NEW f \in S
  PROVE  /\ \A k \in 0..Len(u) : Opens(Append(u, f), k) = Opens(u, k)
         /\ Opens(Append(u, f), Len(u) + 1) = Opens(u, Len(u)) + (IF Open(f) THEN 1 ELSE 0)
<1>0. PICK m \in Nat : m = Len(u)
  BY LenProperties
<1>1. PICK v : v = Append(u, f)
  OBVIOUS
<1>2. v[m + 1] = f /\ \A k \in 1..m : v[k] = u[k]
  BY <1>0, <1>1, AppendProperties
<1>3. ASSUME NEW k \in 0..m PROVE Opens(v, k) = Opens(u, k)
  <2>1. {j \in 1..k : Open(v[j])} = {j \in 1..k : Open(u[j])}
    BY <1>2
  <2> QED BY <2>1 DEF Opens
<1>4. Opens(v, m + 1) = Opens(u, m) + (IF Open(f) THEN 1 ELSE 0)
  <2> DEFINE A == {j \in 1..m : Open(u[j])}
             B == {j \in 1..(m + 1) : Open(v[j])}
  <2>0. Opens(v, m + 1) = Cardinality(B) /\ Opens(u, m) = Cardinality(A)
    BY DEF Opens
  <2>1. IsFiniteSet(1..m)
    BY FS_Interval
  <2>2. IsFiniteSet(A) /\ m + 1 \notin A
    BY <2>1, FS_Subset
  <2>3. CASE Open(f)
    <3>1. B = A \cup {m + 1}
      BY <1>2, <2>3
    <3>2. Cardinality(A \cup {m + 1}) = Cardinality(A) + 1
      BY <2>2, FS_AddElement
    <3> QED BY <2>0, <2>3, <3>1, <3>2
  <2>4. CASE ~Open(f)
    <3>1. B = A
      BY <1>2, <2>4
    <3>2. Cardinality(A) \in Nat
      BY <2>2, FS_CardinalityType
    <3> HIDE DEF A, B
    <3>3. Cardinality(B) = Cardinality(A) /\ Cardinality(A) + 0 = Cardinality(A)
      BY <3>1, <3>2
    <3> QED BY <2>0, <2>4, <3>3
  <2> QED BY <2>3, <2>4
<1> QED BY <1>0, <1>1, <1>3, <1>4

LEMMA StackedNil ==
  ASSUME NEW l, NEW V, NEW I, NEW p, NEW i
  PROVE  Stacked(<<>>, p, i, l, V, I) <=> Runs(p, i, I)
BY DEF Stacked, NextProg, NextIp

\* A frame on top of others, and what lies under it.
LEMMA StackedAppend ==
  ASSUME NEW l, NEW V, NEW I, NEW u \in Seq(Frames(l, V, I)), NEW f \in Frames(l, V, I),
         NEW p, NEW i
  PROVE  Stacked(Append(u, f), p, i, l, V, I)
           <=> /\ Stacked(u, f.prog, f.ip, l, V, I)
               /\ Kept(f, l, Opens(u, Len(u)))
               /\ Rests(f, Len(u) + 1, p, i, I)
<1>0. PICK m \in Nat : m = Len(u)
  BY LenProperties
<1>1. PICK v : v = Append(u, f)
  OBVIOUS
<1>2. v \in Seq(Frames(l, V, I)) /\ Len(v) = m + 1 /\ v[m + 1] = f
      /\ \A k \in 1..m : v[k] = u[k]
  BY <1>0, <1>1, AppendProperties
<1>3. \A k \in 0..m : Opens(v, k) = Opens(u, k)
  BY <1>0, <1>1, OpensAppend
<1>4. \A k \in 0..m : /\ NextProg(v, p, k) = NextProg(u, f.prog, k)
                      /\ NextIp(v, i, k) = NextIp(u, f.ip, k)
  <2>1. ASSUME NEW k \in 0..m
        PROVE  /\ NextProg(v, p, k) = NextProg(u, f.prog, k)
               /\ NextIp(v, i, k) = NextIp(u, f.ip, k)
    <3>1. CASE k = m
      BY <1>0, <1>2, <3>1 DEF NextProg, NextIp
    <3>2. CASE k # m
      <4>1. k + 1 \in 1..m /\ k # m + 1
        BY <3>2
      <4> QED BY <1>0, <1>2, <3>2, <4>1 DEF NextProg, NextIp
    <3> QED BY <3>1, <3>2
  <2> QED BY <2>1
<1>5. NextProg(v, p, m + 1) = p /\ NextIp(v, i, m + 1) = i
  BY <1>2 DEF NextProg, NextIp
<1> DEFINE Part(k) == /\ Kept(v[k], l, Opens(v, k - 1))
                      /\ Rests(v[k], k, NextProg(v, p, k), NextIp(v, i, k), I)
<1>6. ASSUME NEW k \in 1..m
      PROVE  Part(k) <=> /\ Kept(u[k], l, Opens(u, k - 1))
                         /\ Rests(u[k], k, NextProg(u, f.prog, k), NextIp(u, f.ip, k), I)
  <2>1. v[k] = u[k] /\ k \in 0..m /\ k - 1 \in 0..m
    BY <1>2
  <2>2. Opens(v, k - 1) = Opens(u, k - 1)
    BY <1>3, <2>1
  <2>3. NextProg(v, p, k) = NextProg(u, f.prog, k) /\ NextIp(v, i, k) = NextIp(u, f.ip, k)
    BY <1>4, <2>1
  <2> QED BY <2>1, <2>2, <2>3
<1>7. Part(m + 1) <=> Kept(f, l, Opens(u, m)) /\ Rests(f, m + 1, p, i, I)
  <2>1. Opens(v, (m + 1) - 1) = Opens(u, m)
    BY <1>3
  <2> QED BY <1>2, <1>5, <2>1
<1>8. /\ NextProg(v, p, 0) = NextProg(u, f.prog, 0)
      /\ NextIp(v, i, 0) = NextIp(u, f.ip, 0)
  BY <1>4
<1>9. Stacked(v, p, i, l, V, I)
        <=> Runs(NextProg(v, p, 0), NextIp(v, i, 0), I) /\ \A k \in 1..(m + 1) : Part(k)
  BY <1>2 DEF Stacked
<1> HIDE DEF Part
<1>10. (\A k \in 1..(m + 1) : Part(k)) <=> (\A k \in 1..m : Part(k)) /\ Part(m + 1)
  <2>1. \A k \in 1..(m + 1) : k \in 1..m \/ k = m + 1
    OBVIOUS
  <2>2. m + 1 \in 1..(m + 1) /\ \A k \in 1..m : k \in 1..(m + 1)
    OBVIOUS
  <2> QED BY <2>1, <2>2
<1>11. Stacked(u, f.prog, f.ip, l, V, I)
         <=> Runs(NextProg(v, p, 0), NextIp(v, i, 0), I) /\ \A k \in 1..m : Part(k)
  BY <1>0, <1>6, <1>8 DEF Stacked
<1> QED BY <1>0, <1>1, <1>7, <1>9, <1>10, <1>11

\* A sequence without its last element, and that element.
LEMMA Topmost ==
  ASSUME NEW S, NEW v \in Seq(S), v # <<>>
  PROVE  /\ Len(v) \in Nat /\ Len(v) > 0
         /\ SubSeq(v, 1, Len(v) - 1) \in Seq(S) /\ v[Len(v)] \in S
         /\ Len(SubSeq(v, 1, Len(v) - 1)) = Len(v) - 1
         /\ v = Append(SubSeq(v, 1, Len(v) - 1), v[Len(v)])
<1>1. PICK m \in Nat : m = Len(v)
  BY LenProperties
<1>2. m > 0 /\ v[m] \in S
  BY <1>1, EmptySeq, ElementOfSeq
<1>3. PICK u : u = SubSeq(v, 1, m - 1)
  OBVIOUS
<1>4. u \in Seq(S) /\ Len(u) = m - 1 /\ \A k \in 1..(m - 1) : u[k] = v[k]
  BY <1>1, <1>2, <1>3
<1>5. PICK x \in S : x = v[m]
  BY <1>2
<1>6. /\ Append(u, x) \in Seq(S) /\ Len(Append(u, x)) = m
      /\ \A k \in 1..m : Append(u, x)[k] = v[k]
  BY <1>1, <1>2, <1>4, <1>5, AppendProperties
<1>7. Append(u, x) = v
  BY <1>1, <1>6, SeqEqual
<1> QED BY <1>1, <1>2, <1>3, <1>4, <1>5, <1>7

\* A place that no frame is named by: a program runs, and what goes on there may
\* be any other place in a program.
LEMMA MoveOn ==
  ASSUME NEW l, NEW V, NEW I, NEW frames, NEW p, NEW i, Stacked(frames, p, i, l, V, I),
         p # Nowhere \/ i >= 0, Len(frames) <= CsDepth
  PROVE  /\ Runs(p, i, I)
         /\ \A q, j : Runs(q, j, I) => Stacked(frames, q, j, l, V, I)
<1>1. frames \in Seq(Frames(l, V, I)) /\ Len(frames) \in Nat
  BY LenProperties DEF Stacked
<1>2. CASE frames = <<>>
  BY <1>2, StackedNil
<1>3. CASE frames # <<>>
  <2>1. PICK u \in Seq(Frames(l, V, I)), f \in Frames(l, V, I) : frames = Append(u, f)
    <3>1. PICK w \in Seq(Frames(l, V, I)) : w = frames
      BY <1>1
    <3>2. /\ SubSeq(w, 1, Len(w) - 1) \in Seq(Frames(l, V, I)) /\ w[Len(w)] \in Frames(l, V, I)
          /\ w = Append(SubSeq(w, 1, Len(w) - 1), w[Len(w)])
      BY <1>3, <3>1, Topmost
    <3> QED BY <3>1, <3>2, Zenon
  <2>2. Len(u) \in Nat /\ Len(u) + 1 <= CsDepth
    BY <1>1, <2>1, LenProperties, AppendProperties
  <2>3. Rests(f, Len(u) + 1, p, i, I)
    BY <2>1, StackedAppend
  <2>4. ~NamedBy(f, Len(u) + 1, p, i)
    <3>1. (Len(u) + 1) - 1 = Len(u)
      BY <2>2
    <3>2. /\ IP_RESUME_PRIMREC - Len(u) < 0 /\ IP_RESUME_LINREC - Len(u) < 0
          /\ IP_RESUME_BINREC - Len(u) < 0
      BY <2>2, Bases
    <3>3. /\ ~(IP_RESUME_PRIMREC - Len(u) >= 0) /\ ~(IP_RESUME_LINREC - Len(u) >= 0)
          /\ ~(IP_RESUME_BINREC - Len(u) >= 0)
      BY <3>2, <2>2, Bases
    <3> QED BY <3>1, <3>3 DEF NamedBy
  <2>5. Open(f) /\ Runs(p, i, I)
    BY <2>3, <2>4 DEF Rests
  <2>6. ASSUME NEW q, NEW j, Runs(q, j, I) PROVE Stacked(frames, q, j, l, V, I)
    <3>1. Rests(f, Len(u) + 1, q, j, I)
      BY <2>5, <2>6 DEF Rests
    <3> QED BY <2>1, <3>1, StackedAppend
  <2> QED BY <2>5, <2>6
<1> QED BY <1>2, <1>3

-----------------------------------------------------------------------------
(* What holds of a state *)

\* s, with a fragment for each open frame, and frames, while p goes on at i.
Good(l, V, I, s, frames, p, i) ==
  /\ Stacked(frames, p, i, l, V, I)
  /\ s \in Stacks(l, V, Opens(frames, Len(frames)))
  /\ Len(frames) <= CsDepth

\* An exception may find the call stack in any state.
Held(l, V, I, s, frames, p, i) ==
  /\ \E f \in Nat : s \in Stacks(l, V, f)
  /\ Len(frames) <= CsDepth
  /\ p = Nowhere \/ i \in 0..Len(p)
  /\ Fine(s) => \/ Good(l, V, I, s, frames, p, i)
                \/ p = Nowhere /\ i = 0 /\ frames = <<>> /\ s \in Stacks(l, V, 0)

LEMMA GoodHeld ==
  ASSUME NEW l, NEW V, NEW I, NEW s, NEW frames, NEW p, NEW i, Good(l, V, I, s, frames, p, i)
  PROVE  Held(l, V, I, s, frames, p, i)
<1>1. frames \in Seq(Frames(l, V, I)) /\ Len(frames) \in Nat
  BY LenProperties DEF Good, Stacked
<1>2. Opens(frames, Len(frames)) \in Nat
  BY <1>1, OpensIs
<1>3. p = Nowhere \/ i \in 0..Len(p)
  <2>1. p # Nowhere => Runs(p, i, I)
    BY MoveOn DEF Good
  <2> QED BY <2>1 DEF Runs
<1> QED BY <1>2, <1>3 DEF Good, Held

\* An exception leaves the loop where it is.
LEMMA StopHeld ==
  ASSUME NEW l, NEW V, NEW I, NEW f \in Nat, NEW s \in Stacks(l, V, f), ~Fine(s),
         NEW frames, NEW p, NEW i, Len(frames) <= CsDepth, p = Nowhere \/ i \in 0..Len(p)
  PROVE  Held(l, V, I, s, frames, p, i)
BY DEF Held

\* A frame on top that is open.
LEMMA GoodPush ==
  ASSUME NEW l, NEW V, NEW I, NEW u, NEW f \in Frames(l, V, I), Open(f),
         Stacked(u, f.prog, f.ip, l, V, I), Kept(f, l, Opens(u, Len(u))),
         NEW s \in Stacks(l, V, Opens(u, Len(u))), Fine(s),
         NEW body \in Seq(I), Len(u) < CsDepth
  PROVE  Good(l, V, I, PushFragment(s), Append(u, f), body, 0)
<1>1. u \in Seq(Frames(l, V, I)) /\ Len(u) \in Nat
  BY LenProperties DEF Stacked
<1>2. PICK c \in Nat : c = Opens(u, Len(u))
  BY <1>1, OpensIs
<1>3. Len(Append(u, f)) = Len(u) + 1 /\ Append(u, f) \in Seq(Frames(l, V, I))
  BY <1>1, AppendProperties
<1>4. Opens(Append(u, f), Len(u) + 1) = c + 1
  BY <1>1, <1>2, OpensAppend
<1>5. PushFragment(s) \in Stacks(l, V, c + 1)
  BY <1>2, PushFragmentStays
<1>6. Runs(body, 0, I)
  BY LenProperties DEF Runs
<1>7. Stacked(Append(u, f), body, 0, l, V, I)
  BY <1>1, <1>6, StackedAppend DEF Rests
<1>8. Len(u) + 1 <= CsDepth
  BY <1>1, Bases
<1> QED BY <1>3, <1>4, <1>5, <1>7, <1>8 DEF Good

\* A frame on top that waits.
LEMMA GoodWait ==
  ASSUME NEW l, NEW V, NEW I, NEW u, NEW f \in Frames(l, V, I), ~Open(f), ~Guards(f),
         Stacked(u, f.prog, f.ip, l, V, I), NEW p, NEW i, NamedBy(f, Len(u) + 1, p, i)
  PROVE  /\ Stacked(Append(u, f), p, i, l, V, I)
         /\ Opens(Append(u, f), Len(Append(u, f))) = Opens(u, Len(u))
<1>1. u \in Seq(Frames(l, V, I)) /\ Len(u) \in Nat
  BY LenProperties DEF Stacked
<1>2. Len(Append(u, f)) = Len(u) + 1
  BY <1>1, AppendProperties
<1>3. Opens(Append(u, f), Len(u) + 1) = Opens(u, Len(u))
  <2>1. Opens(Append(u, f), Len(u) + 1) = Opens(u, Len(u)) + 0
    BY <1>1, OpensAppend
  <2> QED BY <1>1, <2>1, OpensIs
<1>4. Kept(f, l, Opens(u, Len(u))) /\ Rests(f, Len(u) + 1, p, i, I)
  BY DEF Rests, Kept, Open, Lists
<1>5. Stacked(Append(u, f), p, i, l, V, I)
  BY <1>1, <1>4, StackedAppend
<1> QED BY <1>2, <1>3, <1>5

\* The same whether s is sound or has an exception.
LEMMA HeldPush ==
  ASSUME NEW l, NEW V, NEW I, NEW u, NEW f \in Frames(l, V, I), Open(f),
         Stacked(u, f.prog, f.ip, l, V, I), Kept(f, l, Opens(u, Len(u))),
         NEW s \in Stacks(l, V, Opens(u, Len(u))),
         NEW body \in Seq(I), Len(u) < CsDepth
  PROVE  Held(l, V, I, PushFragment(s), Append(u, f), body, 0)
<1>1. CASE Fine(s)
  BY <1>1, GoodPush, GoodHeld
<1>2. CASE ~Fine(s)
  <2>1. u \in Seq(Frames(l, V, I)) /\ Len(u) \in Nat
    BY LenProperties DEF Stacked
  <2>2. PICK c \in Nat : c = Opens(u, Len(u))
    BY <2>1, OpensIs
  <2>3. Len(Append(u, f)) = Len(u) + 1
    BY <2>1, AppendProperties
  <2>4. Len(u) + 1 <= CsDepth /\ 0 \in 0..Len(body)
    <3>1. Len(u) + 1 <= CsDepth
      BY <2>1, Bases
    <3>2. 0 \in 0..Len(body)
      BY LenProperties
    <3> QED BY <3>1, <3>2
  <2>5. PushFragment(s) = s
    BY <1>2 DEF PushFragment
  <2> QED BY <1>2, <2>2, <2>3, <2>4, <2>5, StopHeld
<1> QED BY <1>1, <1>2

\* A place has a program, or None with a number.
LEMMA PlaceTyped ==
  ASSUME NEW l, NEW V, NEW I, NEW frames, NEW p, NEW i, Stacked(frames, p, i, l, V, I),
         Len(frames) <= CsDepth
  PROVE  p \in Seq(I) \cup {Nowhere} /\ i \in Int
<1>1. CASE p # Nowhere
  BY <1>1, MoveOn DEF Runs
<1>2. CASE p = Nowhere
  <2>1. frames \in Seq(Frames(l, V, I)) /\ Len(frames) \in Nat
    BY LenProperties DEF Stacked
  <2>2. CASE frames = <<>>
    BY <2>2, StackedNil DEF Runs
  <2>3. CASE frames # <<>>
    <3>1. PICK m \in Nat : m = Len(frames)
      BY <2>1
    <3>2. m \in 1..m
      BY <2>1, <2>3, <3>1, Topmost
    <3>3. NextProg(frames, p, m) = p /\ NextIp(frames, i, m) = i
      BY <3>1 DEF NextProg, NextIp
    <3>4. Rests(frames[m], m, p, i, I)
      BY <3>1, <3>2, <3>3 DEF Stacked
    <3>5. /\ IP_RESUME_PRIMREC - (m - 1) \in Int /\ IP_RESUME_LINREC - (m - 1) \in Int
          /\ IP_RESUME_BINREC - (m - 1) \in Int
      BY <3>1, Bases
    <3> QED BY <1>2, <3>4, <3>5 DEF Rests, Runs, NamedBy
  <2> QED BY <2>2, <2>3
<1> QED BY <1>1, <1>2

-----------------------------------------------------------------------------
(* The ways to go on *)

\* A run that is not over.
Going(l, V, n, I) ==
  /\ Values(V, n, I) /\ None \notin I
  /\ Good(l, V, I, st, cs, prog, ip) /\ Fine(st)

LEMMA GoingIs ==
  ASSUME NEW l, NEW V, NEW n, NEW I, Going(l, V, n, I)
  PROVE  /\ cs \in Seq(Frames(l, V, I)) /\ Ptr \in Nat /\ Ptr <= CsDepth
         /\ Opens(cs, Ptr) \in Nat /\ st \in Stacks(l, V, Opens(cs, Ptr))
         /\ prog \in Seq(I) \cup {Nowhere} /\ ip \in Int
         /\ prog = Nowhere \/ ip \in 0..Len(prog)
<1>1. cs \in Seq(Frames(l, V, I)) /\ Ptr \in Nat /\ Ptr <= CsDepth
  BY LenProperties DEF Going, Good, Stacked, Ptr
<1>2. Opens(cs, Ptr) \in Nat /\ st \in Stacks(l, V, Opens(cs, Ptr))
  BY <1>1, OpensIs DEF Going, Good, Ptr
<1>3. prog \in Seq(I) \cup {Nowhere} /\ ip \in Int
  BY PlaceTyped DEF Going, Good
<1>4. prog = Nowhere \/ ip \in 0..Len(prog)
  BY GoodHeld DEF Going, Held
<1> QED BY <1>1, <1>2, <1>3, <1>4

LEMMA Leaving ==
  ASSUME NEW l, NEW V, NEW I, NEW under, NEW s, NEW p, NEW i, Leave(under, s, p, i),
         Good(l, V, I, s, under, p, i)
  PROVE  Held(l, V, I, st', cs', prog', ip')
BY GoodHeld DEF Leave, Goto

LEMMA Stopping ==
  ASSUME NEW l, NEW V, NEW n, NEW I, Going(l, V, n, I), NEW f \in Nat,
         NEW s \in Stacks(l, V, f), ~Fine(s), st' = s, UNCHANGED <<cs, prog, ip>>
  PROVE  Held(l, V, I, st', cs', prog', ip')
<1>1. Len(cs) <= CsDepth /\ (prog = Nowhere \/ ip \in 0..Len(prog))
  BY GoingIs DEF Ptr
<1>2. Held(l, V, I, s, cs, prog, ip)
  BY <1>1, StopHeld
<1> QED BY <1>2

LEMMA Starting ==
  ASSUME NEW l, NEW V, NEW n, NEW I, Going(l, V, n, I),
         NEW under, NEW f \in Frames(l, V, I), Open(f), Len(under) <= CsDepth,
         Stacked(under, f.prog, f.ip, l, V, I), Kept(f, l, Opens(under, Len(under))),
         NEW s \in Stacks(l, V, Opens(under, Len(under))),
         NEW body \in Seq(I), Start(under, f, s, body)
  PROVE  Held(l, V, I, st', cs', prog', ip')
<1>1. under \in Seq(Frames(l, V, I)) /\ Len(under) \in Nat
  BY LenProperties DEF Stacked
<1>2. PICK c \in Nat : c = Opens(under, Len(under))
  BY <1>1, OpensIs
<1>3. CASE Len(under) >= CsDepth
  <2>1. st' = Raise(s, "call stack overflow") /\ UNCHANGED <<cs, prog, ip>>
    BY <1>3 DEF Start
  <2>2. PICK r \in Stacks(l, V, c) : r = Raise(s, "call stack overflow")
    BY <1>2, ErrorsAre, RaiseStays
  <2>3. ~Fine(r)
    BY <2>2, ErrorsAre, RaiseFine DEF Ok
  <2> QED BY <2>1, <2>2, <2>3, Stopping
<1>4. CASE ~(Len(under) >= CsDepth)
  <2>1. Len(under) < CsDepth
    BY <1>1, <1>4, Bases
  <2>2. st' = PushFragment(s) /\ cs' = Append(under, f) /\ prog' = body /\ ip' = 0
    BY <1>4 DEF Start, Goto
  <2>3. Held(l, V, I, PushFragment(s), Append(under, f), body, 0)
    BY <2>1, HeldPush
  <2> QED BY <2>2, <2>3
<1> QED BY <1>3, <1>4

LEMMA Entering ==
  ASSUME NEW l, NEW V, NEW n, NEW I, Going(l, V, n, I),
         NEW under, NEW s, NEW p, NEW i, Good(l, V, I, s, under, p, i),
         NEW body \in Seq(I), Enter(under, s, body, p, i)
  PROVE  Held(l, V, I, st', cs', prog', ip')
<1>1. CASE body = <<>>
  BY <1>1, Leaving DEF Enter
<1>2. CASE body # <<>>
  <2> DEFINE f1 == Frame("ret")
             f2 == [f1 EXCEPT !.prog = p]
             f == [f2 EXCEPT !.ip = i]
  <2>1. Start(under, f, s, body)
    BY <1>2 DEF Enter, Returning
  <2>2. p \in Seq(I) \cup {Nowhere} /\ i \in Int
    BY PlaceTyped DEF Good
  <2>3. f1 \in Frames(l, V, I) /\ f1.kind = "ret"
    <3>1. "ret" \in Kinds /\ f1.kind = "ret"
      BY DEF Kinds, Frame
    <3>2. Values(V, n, I) /\ prog \in Seq(I) \cup {Nowhere} /\ ip \in Int
      BY GoingIs DEF Going
    <3> QED BY <3>1, <3>2, FrameTyped
  <2> HIDE DEF f1
  <2>4. f2 \in Frames(l, V, I) /\ f2.kind = "ret" /\ f2.prog = p
    <3>1. f2 \in Frames(l, V, I)
      BY <2>2, <2>3, FrameSet
    <3>2. f2.kind = "ret" /\ f2.prog = p
      BY <2>3 DEF Frames
    <3> QED BY <3>1, <3>2
  <2> HIDE DEF f2
  <2>5. f \in Frames(l, V, I) /\ f.kind = "ret" /\ f.prog = p /\ f.ip = i
    <3>1. f \in Frames(l, V, I)
      BY <2>2, <2>4, FrameSet
    <3>2. f.kind = "ret" /\ f.prog = p /\ f.ip = i
      BY <2>4 DEF Frames
    <3> QED BY <3>1, <3>2
  <2> HIDE DEF f
  <2>6. Open(f) /\ Kept(f, l, Opens(under, Len(under)))
    BY <2>5 DEF Open, Kept, Guards, Lists
  <2>7. /\ Stacked(under, f.prog, f.ip, l, V, I) /\ Len(under) <= CsDepth
        /\ s \in Stacks(l, V, Opens(under, Len(under)))
    BY <2>5 DEF Good
  <2> QED BY <2>1, <2>5, <2>6, <2>7, Starting
<1> QED BY <1>1, <1>2

LEMMA EnteringRet ==
  ASSUME NEW l, NEW V, NEW n, NEW I, Going(l, V, n, I),
         NEW under, NEW s, NEW p, NEW i, Good(l, V, I, s, under, p, i),
         NEW body \in Seq(I), EnterRet(under, s, body, p, i)
  PROVE  Held(l, V, I, st', cs', prog', ip')
<1>1. CASE i = Len(p) /\ body # <<>>
  <2>1. Leave(under, s, body, 0)
    BY <1>1 DEF EnterRet
  <2>2. p \in Seq(I) \cup {Nowhere}
    BY PlaceTyped DEF Good
  <2>3. i >= 0
    <3>1. CASE p \in Seq(I)
      BY <1>1, <3>1, LenProperties
    <3>2. CASE p = Nowhere
      BY <1>1, <3>2 DEF Nowhere
    <3> QED BY <2>2, <3>1, <3>2
  <2>4. Runs(body, 0, I)
    BY LenProperties DEF Runs
  <2>5. Stacked(under, body, 0, l, V, I)
    BY <2>3, <2>4, MoveOn DEF Good
  <2>6. Good(l, V, I, s, under, body, 0)
    BY <2>5 DEF Good
  <2> QED BY <2>1, <2>6, Leaving
<1>2. CASE ~(i = Len(p) /\ body # <<>>)
  BY <1>2, Entering DEF EnterRet
<1> QED BY <1>1, <1>2

LEMMA RunningIs ==
  ASSUME NEW l, NEW V, NEW n, NEW I, Going(l, V, n, I), Running
  PROVE  /\ Runs(prog, ip, I) /\ prog \in Seq(I) /\ ip \in 0..Len(prog) /\ Len(prog) \in Nat
         /\ \A q, j : Runs(q, j, I) => Stacked(cs, q, j, l, V, I)
         /\ ~Ends => Item \in I /\ ip + 1 \in Int /\ Runs(prog, ip + 1, I)
<1>1. Runs(prog, ip, I) /\ \A q, j : Runs(q, j, I) => Stacked(cs, q, j, l, V, I)
  BY MoveOn DEF Going, Good, Running
<1>2. prog \in Seq(I) /\ ip \in 0..Len(prog) /\ Len(prog) \in Nat
  BY <1>1, LenProperties DEF Runs
<1>3. ASSUME ~Ends PROVE Item \in I /\ ip + 1 \in Int /\ Runs(prog, ip + 1, I)
  <2>1. ip + 1 \in 1..Len(prog) /\ ip + 1 \in 0..Len(prog)
    BY <1>2, <1>3 DEF Ends
  <2>2. Item \in I
    BY <1>2, <2>1, ElementOfSeq DEF Item
  <2> QED BY <1>2, <2>1, <2>2 DEF Runs
<1> QED BY <1>1, <1>2, <1>3

\* The frames as they are, behind the item that was run.
LEMMA AfterItem ==
  ASSUME NEW l, NEW V, NEW n, NEW I, Going(l, V, n, I), Running, ~Ends,
         NEW s \in Stacks(l, V, Opens(cs, Ptr))
  PROVE  Good(l, V, I, s, cs, prog, ip + 1)
<1>1. Stacked(cs, prog, ip + 1, l, V, I)
  BY RunningIs
<1> QED BY <1>1, GoingIs DEF Good, Ptr

LEMMA Advancing ==
  ASSUME NEW l, NEW V, NEW n, NEW I, Going(l, V, n, I), Running, ~Ends,
         NEW s \in Stacks(l, V, Opens(cs, Ptr)), st' = s, ip' = ip + 1, UNCHANGED <<cs, prog>>
  PROVE  Held(l, V, I, st', cs', prog', ip')
<1>1. Held(l, V, I, s, cs, prog, ip + 1)
  BY AfterItem, GoodHeld
<1> QED BY <1>1

\* A frame of the running program on top of the frames there are.
LEMMA StartingHere ==
  ASSUME NEW l, NEW V, NEW n, NEW I, Going(l, V, n, I), Running, ~Ends,
         NEW f \in Frames(l, V, I), Open(f), f.prog = prog, f.ip = ip + 1,
         Kept(f, l, Opens(cs, Ptr)),
         NEW s \in Stacks(l, V, Opens(cs, Ptr)), NEW body \in Seq(I), Start(cs, f, s, body)
  PROVE  Held(l, V, I, st', cs', prog', ip')
<1>1. Stacked(cs, f.prog, f.ip, l, V, I)
  BY RunningIs
<1>2. Ptr = Len(cs) /\ Len(cs) <= CsDepth
  BY GoingIs DEF Ptr
<1> QED BY <1>1, <1>2, Starting

LEMMA StoppingHere ==
  ASSUME NEW l, NEW V, NEW n, NEW I, Going(l, V, n, I),
         NEW s \in Stacks(l, V, Opens(cs, Ptr)), ~Fine(s), st' = s, UNCHANGED <<cs, prog, ip>>
  PROVE  Held(l, V, I, st', cs', prog', ip')
BY GoingIs, Stopping

LEMMA RaisingHere ==
  ASSUME NEW l, NEW V, NEW n, NEW I, Going(l, V, n, I),
         NEW s \in Stacks(l, V, Opens(cs, Ptr)), NEW e \in Errors, e # Ok,
         st' = Raise(s, e), UNCHANGED <<cs, prog, ip>>
  PROVE  Held(l, V, I, st', cs', prog', ip')
<1>1. PICK r \in Stacks(l, V, Opens(cs, Ptr)) : r = Raise(s, e)
  BY RaiseStays
<1>2. ~Fine(r)
  BY <1>1, RaiseFine
<1> QED BY <1>1, <1>2, StoppingHere

\* The frame of a combinator, as _push_frame makes it.
LEMMA FrameHere ==
  ASSUME NEW l, NEW V, NEW n, NEW I, Going(l, V, n, I), NEW kind \in Kinds
  PROVE  /\ Frame(kind) \in Frames(l, V, I) /\ Frame(kind).kind = kind
         /\ Frame(kind).prog = prog /\ Frame(kind).ip = ip + 1 /\ Frame(kind).n = 0
<1>1. Values(V, n, I) /\ prog \in Seq(I) \cup {Nowhere} /\ ip \in Int
  BY GoingIs DEF Going
<1>2. Frame(kind) \in Frames(l, V, I)
  BY <1>1, FrameTyped
<1> QED BY <1>2 DEF Frame

-----------------------------------------------------------------------------
(* The steps of a program *)

LEMMA LiteralHeld ==
  ASSUME NEW l, NEW V, NEW n, NEW I, Going(l, V, n, I), Literal
  PROVE  Held(l, V, I, st', cs', prog', ip')
<1> DEFINE v == IF Item[1] = "bool" THEN Bool(Item[2]) ELSE Item
<1>1. /\ Running /\ ~Ends /\ Item[1] # "word" /\ st' = Push(st, v) /\ ip' = ip + 1
      /\ UNCHANGED <<cs, prog>>
  BY DEF Literal
<1>2. Values(V, n, I) /\ Item \in I
  BY <1>1, RunningIs DEF Going
<1>3. v \in V
  <2>1. CASE Item[1] = "bool"
    BY <1>2, <2>1 DEF Bool, Values
  <2>2. CASE Item[1] # "bool"
    BY <1>1, <1>2, <2>2 DEF Values
  <2> QED BY <2>1, <2>2
<1> HIDE DEF v
<1>4. Push(st, v) \in Stacks(l, V, Opens(cs, Ptr))
  BY <1>2, <1>3, GoingIs, PushStays
<1> QED BY <1>1, <1>4, Advancing

LEMMA CallWordHeld ==
  ASSUME NEW l, NEW V, NEW n, NEW I, Going(l, V, n, I), CallWord,
         \A w \in DOMAIN Dict : Dict[w] \in Seq(I)
  PROVE  Held(l, V, I, st', cs', prog', ip')
<1>1. /\ Running /\ ~Ends /\ Item[2] \in DOMAIN Dict
      /\ EnterRet(cs, st, Dict[Item[2]], prog, ip + 1)
  BY DEF CallWord
<1>2. Good(l, V, I, st, cs, prog, ip + 1)
  BY <1>1, GoingIs, AfterItem
<1>3. Dict[Item[2]] \in Seq(I)
  BY <1>1
<1> QED BY <1>1, <1>2, <1>3, EnteringRet

LEMMA BodyHeld ==
  ASSUME NEW l, NEW V, NEW n, NEW I, Going(l, V, n, I), Body,
         \A w \in DOMAIN Dict : Dict[w] \in Seq(I)
  PROVE  Held(l, V, I, st', cs', prog', ip')
<1> DEFINE bad == Fine(st) /\ Size(st) > 0 /\ ~(Top(st)[1] = "symbol")
           s == IF bad THEN Raise(Pop(st), "expected symbol") ELSE Pop(st)
           w == Top(st)[2]
           s2 == IF ~Fine(s) THEN s
                 ELSE IF w \in DOMAIN Dict THEN Push(s, QuotV(Dict[w]))
                 ELSE Raise(s, "unknown word")
           S == Stacks(l, V, Opens(cs, Ptr))
<1>1. Running /\ ~Ends /\ st' = s2 /\ ip' = ip + 1 /\ UNCHANGED <<cs, prog>>
  BY DEF Body, Expect, At
<1>2. Values(V, n, I) /\ st \in S
  BY GoingIs DEF Going
<1>3. s \in S
  <2>1. Raise(Pop(st), "expected symbol") \in S
    BY <1>2, ErrorsAre, PopOrRaise DEF Ok
  <2>2. Pop(st) \in S
    BY <1>2, PopStays
  <2> QED BY <2>1, <2>2
<1> HIDE DEF s, w
<1>4. ASSUME w \in DOMAIN Dict PROVE Push(s, QuotV(Dict[w])) \in S
  <2>1. QuotV(Dict[w]) \in V
    BY <1>2, <1>4 DEF Values
  <2> QED BY <1>2, <1>3, <2>1, PushStays
<1>5. Raise(s, "unknown word") \in S
  BY <1>3, ErrorsAre, RaiseStays
<1>6. s2 \in S
  BY <1>3, <1>4, <1>5
<1> QED BY <1>1, <1>6, Advancing

LEMMA UnknownHeld ==
  ASSUME NEW l, NEW V, NEW n, NEW I, Going(l, V, n, I), Unknown
  PROVE  Held(l, V, I, st', cs', prog', ip')
<1>1. st' = Raise(st, "unknown word") /\ UNCHANGED <<cs, prog, ip>>
  BY DEF Unknown
<1>2. "unknown word" \in Errors /\ "unknown word" # Ok
  BY ErrorsAre DEF Ok
<1> QED BY <1>1, <1>2, GoingIs, RaisingHere

\* The first cells popped.
LEMMA PoppedFew ==
  ASSUME NEW V, NEW n, NEW I, Values(V, n, I), NEW l, NEW f, NEW s \in Stacks(l, V, f)
  PROVE  /\ Popped(s, 0) = s /\ Popped(s, 1) = Pop(s) /\ Popped(s, 2) = Pop(Pop(s))
         /\ Pop(s) \in Stacks(l, V, f) /\ Pop(Pop(s)) \in Stacks(l, V, f)
<1>1. /\ Popped(s, 0) = s
      /\ \A k \in Nat : Popped(s, k + 1) = Pop(Popped(s, k))
  BY PoppedSteps
<1>2. Popped(s, 1) = Pop(s)
  <2>1. Popped(s, 0 + 1) = Pop(Popped(s, 0))
    BY <1>1
  <2> QED BY <1>1, <2>1
<1>3. Popped(s, 2) = Pop(Pop(s))
  <2>1. Popped(s, 1 + 1) = Pop(Popped(s, 1))
    BY <1>1
  <2> QED BY <1>2, <2>1
<1> QED BY <1>1, <1>2, <1>3, PopStays

LEMMA CombIHeld ==
  ASSUME NEW l, NEW V, NEW n, NEW I, Going(l, V, n, I), CombI
  PROVE  Held(l, V, I, st', cs', prog', ip')
<1> DEFINE s == PopQuot(st)
           S == Stacks(l, V, Opens(cs, Ptr))
<1>1. Running /\ ~Ends /\ Then(s, EnterRet(cs, s, QuotAt(0), prog, ip + 1))
  BY DEF CombI, At
<1>2. Values(V, n, I) /\ st \in S
  BY GoingIs DEF Going
<1>3. s \in S /\ (Fine(s) => QuotAt(0) \in Seq(I))
  BY <1>2, PopQuotStays, PoppedFew DEF QuotAt
<1> HIDE DEF s
<1>4. CASE ~Fine(s)
  BY <1>1, <1>3, <1>4, StoppingHere DEF Then
<1>5. CASE Fine(s)
  <2>1. EnterRet(cs, s, QuotAt(0), prog, ip + 1)
    BY <1>1, <1>5 DEF Then
  <2>2. Good(l, V, I, s, cs, prog, ip + 1)
    BY <1>1, <1>3, AfterItem
  <2> QED BY <1>3, <1>5, <2>1, <2>2, EnteringRet
<1> QED BY <1>4, <1>5

LEMMA CombXHeld ==
  ASSUME NEW l, NEW V, NEW n, NEW I, Going(l, V, n, I), CombX
  PROVE  Held(l, V, I, st', cs', prog', ip')
<1> DEFINE v == Top(st)
           s == Push(PopQuot(st), v)
           S == Stacks(l, V, Opens(cs, Ptr))
<1>1. Running /\ ~Ends /\ Then(s, Enter(cs, s, Quot(st), prog, ip + 1))
  BY DEF CombX, At
<1>2. Values(V, n, I) /\ st \in S
  BY GoingIs DEF Going
<1>3. PopQuot(st) \in S /\ v \in V /\ (Fine(PopQuot(st)) => Quot(st) \in Seq(I))
  BY <1>2, PopQuotStays, TopTyped
<1>4. s \in S
  BY <1>2, <1>3, PushStays
<1>5. Fine(s) => Fine(PopQuot(st))
  BY DEF Push, PushCell
<1> HIDE DEF s
<1>6. CASE ~Fine(s)
  BY <1>1, <1>4, <1>6, StoppingHere DEF Then
<1>7. CASE Fine(s)
  <2>1. Enter(cs, s, Quot(st), prog, ip + 1)
    BY <1>1, <1>7 DEF Then
  <2>2. Good(l, V, I, s, cs, prog, ip + 1)
    BY <1>1, <1>4, AfterItem
  <2> QED BY <1>3, <1>5, <1>7, <2>1, <2>2, Entering
<1> QED BY <1>6, <1>7

LEMMA CombDipHeld ==
  ASSUME NEW l, NEW V, NEW n, NEW I, Going(l, V, n, I), CombDip
  PROVE  Held(l, V, I, st', cs', prog', ip')
<1> DEFINE s == PopQuot(st)
           r == Pop(s)
           g == Frame("dip")
           f == [g EXCEPT !.val = Top(s)]
           S == Stacks(l, V, Opens(cs, Ptr))
<1>1. Running /\ ~Ends /\ Then(r, Start(cs, f, r, QuotAt(0)))
  BY DEF CombDip, At
<1>2. Values(V, n, I) /\ st \in S
  BY GoingIs DEF Going
<1>3. s \in S /\ (Fine(s) => QuotAt(0) \in Seq(I))
  BY <1>2, PopQuotStays, PoppedFew DEF QuotAt
<1>4. r \in S /\ Top(s) \in V /\ (Fine(r) => Fine(s))
  BY <1>2, <1>3, PopStays, TopTyped
<1> HIDE DEF r, s
<1>5. CASE ~Fine(r)
  BY <1>1, <1>4, <1>5, StoppingHere DEF Then
<1>6. CASE Fine(r)
  <2>1. Start(cs, f, r, QuotAt(0))
    BY <1>1, <1>6 DEF Then
  <2>2. "dip" \in Kinds
    BY DEF Kinds
  <2>3. g \in Frames(l, V, I) /\ g.kind = "dip" /\ g.prog = prog /\ g.ip = ip + 1
    BY <2>2, FrameHere
  <2> HIDE DEF g
  <2>4. f \in Frames(l, V, I)
    BY <1>4, <2>3, FrameSet
  <2>5. f.kind = "dip" /\ f.prog = prog /\ f.ip = ip + 1
    BY <2>3 DEF Frames
  <2> HIDE DEF f
  <2>6. Open(f) /\ Kept(f, l, Opens(cs, Ptr))
    BY <2>5 DEF Open, Kept, Guards, Lists
  <2> QED BY <1>1, <1>3, <1>4, <1>6, <2>1, <2>4, <2>5, <2>6, StartingHere
<1> QED BY <1>5, <1>6

LEMMA CombIfteHeld ==
  ASSUME NEW l, NEW V, NEW n, NEW I, Going(l, V, n, I), CombIfte
  PROVE  Held(l, V, I, st', cs', prog', ip')
<1> DEFINE s == PoppedQuots(2)
           cond == ~TopIsInt(s) /\ IsQuot(Top(s))
           under == Need(s, 1)
           r == Pop(s)
           body == IF TopTruthy([Memory EXCEPT !.st = s]) THEN QuotAt(1) ELSE QuotAt(0)
           g == Frame("ifte")
           g1 == [g EXCEPT !.body = QuotAt(1)]
           g2 == [g1 EXCEPT !.body2 = QuotAt(0)]
           f == [g2 EXCEPT !.snap = <<SnapshotCache(r)>>]
           S == Stacks(l, V, Opens(cs, Ptr))
<1>1. /\ Running /\ ~Ends
      /\ Then(under, IF cond THEN Start(cs, f, r, Quot(s))
                     ELSE EnterRet(cs, r, body, prog, ip + 1))
  BY DEF CombIfte, At
<1>2. Values(V, n, I) /\ st \in S
  BY GoingIs DEF Going
<1>3. s \in S /\ (Fine(s) => QuotAt(0) \in Seq(I) /\ QuotAt(1) \in Seq(I))
  BY <1>2, PoppedQuotsStay
<1>4. under \in S /\ (Fine(under) => Fine(s))
  BY <1>3, NeedStays
<1>5. r \in S /\ Top(s) \in V
  BY <1>2, <1>3, PopStays, TopTyped
<1>6. cond => Quot(s) \in Seq(I)
  BY <1>2, <1>5 DEF Values, Quot
<1> HIDE DEF under, s, r, cond
<1>7. CASE ~Fine(under)
  BY <1>1, <1>4, <1>7, StoppingHere DEF Then
<1>8. CASE Fine(under) /\ cond
  <2>1. Start(cs, f, r, Quot(s))
    BY <1>1, <1>8 DEF Then
  <2>2. "ifte" \in Kinds
    BY DEF Kinds
  <2>3. g \in Frames(l, V, I) /\ g.kind = "ifte" /\ g.prog = prog /\ g.ip = ip + 1
    BY <2>2, FrameHere
  <2>4. QuotAt(0) \in Seq(I) /\ QuotAt(1) \in Seq(I)
    BY <1>3, <1>4, <1>8
  <2>5. /\ SnapshotCache(r) \in Snapshots(l, V)
        /\ l # "naive" => SnapshotCache(r).frag = Opens(cs, Ptr)
    BY <1>5, GoingIs, SnapshotTyped
  <2> HIDE DEF g
  <2>6. g1 \in Frames(l, V, I) /\ g1.kind = "ifte" /\ g1.prog = prog /\ g1.ip = ip + 1
    <3>1. g1 \in Frames(l, V, I)
      BY <2>3, <2>4, FrameSet
    <3> QED BY <2>3, <3>1 DEF Frames
  <2> HIDE DEF g1
  <2>7. g2 \in Frames(l, V, I) /\ g2.kind = "ifte" /\ g2.prog = prog /\ g2.ip = ip + 1
    <3>1. g2 \in Frames(l, V, I)
      BY <2>4, <2>6, FrameSet
    <3> QED BY <2>6, <3>1 DEF Frames
  <2> HIDE DEF g2
  <2>8. f \in Frames(l, V, I)
    BY <2>5, <2>7, FrameSet
  <2>9. f.kind = "ifte" /\ f.prog = prog /\ f.ip = ip + 1 /\ f.snap = <<SnapshotCache(r)>>
    BY <2>7 DEF Frames
  <2> HIDE DEF f
  <2>10. Open(f) /\ Kept(f, l, Opens(cs, Ptr))
    BY <2>5, <2>9 DEF Open, Kept, Guards, Lists
  <2> QED BY <1>1, <1>5, <1>6, <1>8, <2>1, <2>8, <2>9, <2>10, StartingHere
<1>9. CASE Fine(under) /\ ~cond
  <2>1. EnterRet(cs, r, body, prog, ip + 1)
    BY <1>1, <1>9 DEF Then
  <2>2. Good(l, V, I, r, cs, prog, ip + 1)
    BY <1>1, <1>5, AfterItem
  <2>3. body \in Seq(I)
    BY <1>3, <1>4, <1>9
  <2> QED BY <2>1, <2>2, <2>3, EnteringRet
<1> QED BY <1>7, <1>8, <1>9

LEMMA CombBranchHeld ==
  ASSUME NEW l, NEW V, NEW n, NEW I, Going(l, V, n, I), CombBranch
  PROVE  Held(l, V, I, st', cs', prog', ip')
<1> DEFINE s1 == Pop(st)
           s2 == PopQuot(s1)
           s == PopQuot(s2)
           body == IF TopTruthy(Memory) THEN QuotAt(2) ELSE QuotAt(1)
           S == Stacks(l, V, Opens(cs, Ptr))
<1>1. Running /\ ~Ends /\ Then(s, EnterRet(cs, s, body, prog, ip + 1))
  BY DEF CombBranch, At
<1>2. Values(V, n, I) /\ st \in S
  BY GoingIs DEF Going
<1>3. s1 \in S
  BY <1>2, PopStays
<1>4. s2 \in S /\ (Fine(s2) => Fine(s1) /\ s2 = Pop(s1) /\ Quot(s1) \in Seq(I))
  BY <1>2, <1>3, PopQuotStays
<1>5. s \in S /\ (Fine(s) => Fine(s2) /\ Quot(s2) \in Seq(I))
  BY <1>2, <1>4, PopQuotStays
<1>6. Fine(s) => QuotAt(1) \in Seq(I) /\ QuotAt(2) \in Seq(I)
  BY <1>2, <1>4, <1>5, PoppedFew DEF QuotAt
<1> HIDE DEF s1, s2, s
<1>7. CASE ~Fine(s)
  BY <1>1, <1>5, <1>7, StoppingHere DEF Then
<1>8. CASE Fine(s)
  <2>1. EnterRet(cs, s, body, prog, ip + 1)
    BY <1>1, <1>8 DEF Then
  <2>2. Good(l, V, I, s, cs, prog, ip + 1)
    BY <1>1, <1>5, AfterItem
  <2>3. body \in Seq(I)
    BY <1>6, <1>8
  <2> QED BY <2>1, <2>2, <2>3, EnteringRet
<1> QED BY <1>7, <1>8

LEMMA CombTimesHeld ==
  ASSUME NEW l, NEW V, NEW n, NEW I, Going(l, V, n, I), CombTimes
  PROVE  Held(l, V, I, st', cs', prog', ip')
<1> DEFINE q == PopQuot(st)
           s == PopInt(q)
           x == Top(Popped(st, 1))[2]
           g == Frame("times")
           g1 == [g EXCEPT !.body = QuotAt(0)]
           f == [g1 EXCEPT !.n = x]
           S == Stacks(l, V, Opens(cs, Ptr))
<1>1. /\ Running /\ ~Ends
      /\ Then(s, CASE x < 0 -> st' = Raise(s, "non-negative") /\ UNCHANGED <<cs, prog, ip>>
                   [] x = 0 -> Leave(cs, s, prog, ip + 1)
                   [] OTHER -> Start(cs, f, s, QuotAt(0)))
  BY DEF CombTimes, At
<1>2. Values(V, n, I) /\ st \in S
  BY GoingIs DEF Going
<1>3. q \in S /\ (Fine(q) => q = Pop(st) /\ QuotAt(0) \in Seq(I))
  BY <1>2, PopQuotStays, PoppedFew DEF QuotAt
<1>4. s \in S /\ (Fine(s) => Fine(q) /\ Top(q)[2] \in Int)
  BY <1>2, <1>3, PopIntStays
<1>5. Fine(s) => x \in Int /\ QuotAt(0) \in Seq(I)
  BY <1>2, <1>3, <1>4, PoppedFew
<1> HIDE DEF q, s, x
<1>6. CASE ~Fine(s)
  BY <1>1, <1>4, <1>6, StoppingHere DEF Then
<1>7. CASE Fine(s) /\ x < 0
  <2>1. st' = Raise(s, "non-negative") /\ UNCHANGED <<cs, prog, ip>>
    BY <1>1, <1>5, <1>7 DEF Then
  <2>2. "non-negative" \in Errors /\ "non-negative" # Ok
    BY ErrorsAre DEF Ok
  <2> QED BY <1>4, <2>1, <2>2, RaisingHere
<1>8. CASE Fine(s) /\ x = 0
  <2>1. Leave(cs, s, prog, ip + 1)
    BY <1>1, <1>8 DEF Then
  <2>2. Good(l, V, I, s, cs, prog, ip + 1)
    BY <1>1, <1>4, AfterItem
  <2> QED BY <2>1, <2>2, Leaving
<1>9. CASE Fine(s) /\ ~(x < 0) /\ x # 0
  <2>1. Start(cs, f, s, QuotAt(0))
    BY <1>1, <1>9 DEF Then
  <2>2. "times" \in Kinds
    BY DEF Kinds
  <2>3. g \in Frames(l, V, I) /\ g.kind = "times" /\ g.prog = prog /\ g.ip = ip + 1
    BY <2>2, FrameHere
  <2> HIDE DEF g
  <2>4. g1 \in Frames(l, V, I) /\ g1.kind = "times" /\ g1.prog = prog /\ g1.ip = ip + 1
    <3>1. g1 \in Frames(l, V, I)
      BY <1>5, <1>9, <2>3, FrameSet
    <3> QED BY <2>3, <3>1 DEF Frames
  <2> HIDE DEF g1
  <2>5. f \in Frames(l, V, I)
    BY <1>5, <1>9, <2>4, FrameSet
  <2>6. f.kind = "times" /\ f.prog = prog /\ f.ip = ip + 1
    BY <2>4 DEF Frames
  <2> HIDE DEF f
  <2>7. Open(f) /\ Kept(f, l, Opens(cs, Ptr))
    BY <2>6 DEF Open, Kept, Guards, Lists
  <2> QED BY <1>1, <1>4, <1>5, <1>9, <2>1, <2>5, <2>6, <2>7, StartingHere
<1> QED BY <1>6, <1>7, <1>8, <1>9

LEMMA OverListHeld ==
  ASSUME NEW l, NEW V, NEW n, NEW I, Going(l, V, n, I), Running, ~Ends,
         NEW kind \in {"step", "map", "filter"},
         NEW s \in Stacks(l, V, Opens(cs, Ptr)), NEW vs \in Seq(V), NEW body \in Seq(I),
         OverList(kind, s, vs, body)
  PROVE  Held(l, V, I, st', cs', prog', ip')
<1> DEFINE S == Stacks(l, V, Opens(cs, Ptr))
           x == IF kind = "step" THEN s ELSE Push(s, ListV(<<>>))
           g == Frame(kind)
           y == IF kind = "filter" THEN Head(vs) ELSE g.val
           g1 == [g EXCEPT !.body = body]
           g2 == [g1 EXCEPT !.list = vs]
           f == [g2 EXCEPT !.val = y]
<1>1. Values(V, n, I)
  BY DEF Going
<1>2. CASE vs = <<>>
  <2>1. Leave(cs, x, prog, ip + 1)
    BY <1>2 DEF OverList
  <2>2. x \in S
    <3>1. ListV(<<>>) \in V
      BY <1>1, <1>2 DEF Values
    <3> QED BY <1>1, <3>1, PushStays
  <2> HIDE DEF x
  <2>3. Good(l, V, I, x, cs, prog, ip + 1)
    BY <2>2, AfterItem
  <2> QED BY <2>1, <2>3, Leaving
<1>3. CASE vs # <<>>
  <2>1. kind \in Kinds
    BY DEF Kinds
  <2>2. g \in Frames(l, V, I) /\ g.kind = kind /\ g.prog = prog /\ g.ip = ip + 1
    BY <2>1, FrameHere
  <2>3. Start(cs, f, Push(s, Head(vs)), body)
    <3>1. f = [Frame(kind) EXCEPT !.body = body, !.list = vs,
                                  !.val = IF kind = "filter" THEN Head(vs) ELSE @]
      BY <2>2 DEF Frames
    <3> QED BY <1>3, <3>1 DEF OverList
  <2>4. Head(vs) \in V /\ Push(s, Head(vs)) \in S
    BY <1>1, <1>3, ListParts, PushStays
  <2>5. y \in V
    BY <2>2, <2>4, FrameFields
  <2> HIDE DEF g, y
  <2>6. g1 \in Frames(l, V, I) /\ g1.kind = kind /\ g1.prog = prog /\ g1.ip = ip + 1
    <3>1. g1 \in Frames(l, V, I)
      BY <2>2, FrameSet
    <3> QED BY <2>2, <3>1 DEF Frames
  <2> HIDE DEF g1
  <2>7. /\ g2 \in Frames(l, V, I) /\ g2.kind = kind /\ g2.prog = prog /\ g2.ip = ip + 1
        /\ g2.list = vs
    <3>1. g2 \in Frames(l, V, I)
      BY <2>6, FrameSet
    <3> QED BY <2>6, <3>1 DEF Frames
  <2> HIDE DEF g2
  <2>8. f \in Frames(l, V, I)
    BY <2>5, <2>7, FrameSet
  <2>9. f.kind = kind /\ f.prog = prog /\ f.ip = ip + 1 /\ f.list # <<>>
    BY <1>3, <2>7 DEF Frames
  <2> HIDE DEF f
  <2>10. Open(f) /\ Kept(f, l, Opens(cs, Ptr))
    BY <2>9 DEF Open, Kept, Guards, Lists
  <2> QED BY <2>3, <2>4, <2>8, <2>9, <2>10, StartingHere
<1> QED BY <1>2, <1>3

LEMMA CombEachHeld ==
  ASSUME NEW l, NEW V, NEW n, NEW I, Going(l, V, n, I), CombEach
  PROVE  Held(l, V, I, st', cs', prog', ip')
<1> DEFINE q == PopQuot(st)
           s == PopList(q)
           vs == Top(Popped(st, 1))[2]
           S == Stacks(l, V, Opens(cs, Ptr))
<1>1. PICK kind \in {"step", "map", "filter"} :
        Running /\ ~Ends /\ Then(s, OverList(kind, s, vs, QuotAt(0)))
  BY DEF CombEach, At
<1>2. Values(V, n, I) /\ st \in S
  BY GoingIs DEF Going
<1>3. q \in S /\ (Fine(q) => q = Pop(st) /\ QuotAt(0) \in Seq(I))
  BY <1>2, PopQuotStays, PoppedFew DEF QuotAt
<1>4. s \in S /\ (Fine(s) => Fine(q) /\ Top(q)[2] \in Seq(V))
  BY <1>2, <1>3, PopListStays
<1>5. Fine(s) => vs \in Seq(V) /\ QuotAt(0) \in Seq(I)
  BY <1>2, <1>3, <1>4, PoppedFew
<1> HIDE DEF q, s, vs
<1>6. CASE ~Fine(s)
  BY <1>1, <1>4, <1>6, StoppingHere DEF Then
<1>7. CASE Fine(s)
  <2>1. OverList(kind, s, vs, QuotAt(0))
    BY <1>1, <1>7 DEF Then
  <2> QED BY <1>1, <1>4, <1>5, <1>7, <2>1, OverListHeld
<1> QED BY <1>6, <1>7

LEMMA FoldStartHeld ==
  ASSUME NEW l, NEW V, NEW n, NEW I, Going(l, V, n, I), Running, ~Ends,
         NEW s \in Stacks(l, V, Opens(cs, Ptr)), NEW acc \in V, NEW vs \in Seq(V),
         NEW body \in Seq(I), FoldStart(s, acc, vs, body)
  PROVE  Held(l, V, I, st', cs', prog', ip')
<1> DEFINE S == Stacks(l, V, Opens(cs, Ptr))
           g == Frame("fold")
           g1 == [g EXCEPT !.body = body]
           f == [g1 EXCEPT !.list = vs]
<1>1. Values(V, n, I)
  BY DEF Going
<1>2. Push(s, acc) \in S
  BY <1>1, PushStays
<1>3. CASE vs = <<>>
  <2>1. Leave(cs, Push(s, acc), prog, ip + 1)
    BY <1>3 DEF FoldStart
  <2>2. Good(l, V, I, Push(s, acc), cs, prog, ip + 1)
    BY <1>2, AfterItem
  <2> QED BY <2>1, <2>2, Leaving
<1>4. CASE vs # <<>>
  <2>1. "fold" \in Kinds
    BY DEF Kinds
  <2>2. g \in Frames(l, V, I) /\ g.kind = "fold" /\ g.prog = prog /\ g.ip = ip + 1
    BY <2>1, FrameHere
  <2>3. Start(cs, f, Push(Push(s, acc), Head(vs)), body)
    BY <1>4 DEF FoldStart
  <2>4. Head(vs) \in V
    BY <1>1, <1>4, ListParts
  <2>5. Push(Push(s, acc), Head(vs)) \in S
    BY <1>1, <1>2, <2>4, PushStays
  <2> HIDE DEF g
  <2>6. g1 \in Frames(l, V, I) /\ g1.kind = "fold" /\ g1.prog = prog /\ g1.ip = ip + 1
    <3>1. g1 \in Frames(l, V, I)
      BY <2>2, FrameSet
    <3> QED BY <2>2, <3>1 DEF Frames
  <2> HIDE DEF g1
  <2>7. f \in Frames(l, V, I)
    BY <2>6, FrameSet
  <2>8. f.kind = "fold" /\ f.prog = prog /\ f.ip = ip + 1 /\ f.list # <<>>
    BY <1>4, <2>6 DEF Frames
  <2> HIDE DEF f
  <2>9. Open(f) /\ Kept(f, l, Opens(cs, Ptr))
    BY <2>8 DEF Open, Kept, Guards, Lists
  <2> QED BY <2>3, <2>5, <2>7, <2>8, <2>9, StartingHere
<1> QED BY <1>3, <1>4

LEMMA CombFoldHeld ==
  ASSUME NEW l, NEW V, NEW n, NEW I, Going(l, V, n, I), CombFold
  PROVE  Held(l, V, I, st', cs', prog', ip')
<1> DEFINE s0 == Pop(st)
           q == PopQuot(s0)
           s == Pop(q)
           lst == Top(st)
           s1 == IF IsList(lst) THEN s ELSE Raise(s, "expected list")
           acc == Top(Popped(st, 2))
           S == Stacks(l, V, Opens(cs, Ptr))
<1>1. Running /\ ~Ends /\ Then(s1, FoldStart(s, acc, lst[2], QuotAt(1)))
  BY DEF CombFold, At
<1>2. Values(V, n, I) /\ st \in S
  BY GoingIs DEF Going
<1>3. s0 \in S /\ lst \in V /\ (IsList(lst) => lst[2] \in Seq(V))
  <2>1. s0 \in S /\ lst \in V
    BY <1>2, PopStays, TopTyped
  <2> QED BY <1>2, <2>1 DEF Values
<1>4. q \in S /\ (Fine(q) => Quot(s0) \in Seq(I))
  BY <1>2, <1>3, PopQuotStays
<1>5. s \in S /\ (Fine(s) => Fine(q))
  BY <1>2, <1>4, PopStays
<1>6. acc \in V
  <2>1. Popped(st, 2) \in S
    BY <1>2, PoppedFew
  <2> QED BY <1>2, <2>1, TopTyped
<1>7. QuotAt(1) = Quot(s0)
  BY <1>2, PoppedFew DEF QuotAt
<1> HIDE DEF s, q, acc, lst
<1>8. s1 \in S /\ (Fine(s1) => s1 = s /\ IsList(lst))
  <2>1. Raise(s, "expected list") \in S
    BY <1>5, ErrorsAre, RaiseStays
  <2>2. ~Fine(Raise(s, "expected list"))
    BY <1>5, ErrorsAre, RaiseFine DEF Ok
  <2> QED BY <1>5, <2>1, <2>2
<1> HIDE DEF s1
<1>9. CASE ~Fine(s1)
  BY <1>1, <1>8, <1>9, StoppingHere DEF Then
<1>10. CASE Fine(s1)
  <2>1. FoldStart(s, acc, lst[2], QuotAt(1))
    BY <1>1, <1>10 DEF Then
  <2>2. lst[2] \in Seq(V) /\ QuotAt(1) \in Seq(I)
    BY <1>3, <1>4, <1>5, <1>7, <1>8, <1>10
  <2> QED BY <1>1, <1>5, <1>6, <2>1, <2>2, FoldStartHeld
<1> QED BY <1>9, <1>10

LEMMA CombReduceHeld ==
  ASSUME NEW l, NEW V, NEW n, NEW I, Going(l, V, n, I), CombReduce
  PROVE  Held(l, V, I, st', cs', prog', ip')
<1> DEFINE q == PopQuot(st)
           r == Pop(q)
           s == PopList(r)
           acc == Top(Popped(st, 1))
           vs == Top(Popped(st, 2))[2]
           S == Stacks(l, V, Opens(cs, Ptr))
<1>1. Running /\ ~Ends /\ Then(s, FoldStart(s, acc, vs, QuotAt(0)))
  BY DEF CombReduce, At
<1>2. Values(V, n, I) /\ st \in S
  BY GoingIs DEF Going
<1>3. q \in S /\ (Fine(q) => q = Pop(st) /\ QuotAt(0) \in Seq(I))
  BY <1>2, PopQuotStays, PoppedFew DEF QuotAt
<1>4. r \in S /\ (Fine(r) => Fine(q))
  BY <1>2, <1>3, PopStays
<1>5. s \in S /\ (Fine(s) => Fine(r) /\ Top(r)[2] \in Seq(V))
  BY <1>2, <1>4, PopListStays
<1>6. acc \in V
  <2>1. Popped(st, 1) \in S
    BY <1>2, PoppedFew
  <2> QED BY <1>2, <2>1, TopTyped
<1>7. Fine(s) => vs \in Seq(V) /\ QuotAt(0) \in Seq(I)
  BY <1>2, <1>3, <1>4, <1>5, PoppedFew
<1> HIDE DEF q, r, s, acc, vs
<1>8. CASE ~Fine(s)
  BY <1>1, <1>5, <1>8, StoppingHere DEF Then
<1>9. CASE Fine(s)
  <2>1. FoldStart(s, acc, vs, QuotAt(0))
    BY <1>1, <1>9 DEF Then
  <2> QED BY <1>1, <1>5, <1>6, <1>7, <1>9, <2>1, FoldStartHeld
<1> QED BY <1>8, <1>9

LEMMA CombWhileHeld ==
  ASSUME NEW l, NEW V, NEW n, NEW I, Going(l, V, n, I), CombWhile
  PROVE  Held(l, V, I, st', cs', prog', ip')
<1> DEFINE s == PoppedQuots(2)
           g == Frame("while")
           g1 == [g EXCEPT !.body = QuotAt(0)]
           f == [g1 EXCEPT !.body2 = QuotAt(1)]
           S == Stacks(l, V, Opens(cs, Ptr))
<1>1. Running /\ ~Ends /\ Then(s, Start(cs, f, s, QuotAt(1)))
  BY DEF CombWhile, At
<1>2. Values(V, n, I) /\ st \in S
  BY GoingIs DEF Going
<1>3. s \in S /\ (Fine(s) => QuotAt(0) \in Seq(I) /\ QuotAt(1) \in Seq(I))
  BY <1>2, PoppedQuotsStay
<1> HIDE DEF s
<1>4. CASE ~Fine(s)
  BY <1>1, <1>3, <1>4, StoppingHere DEF Then
<1>5. CASE Fine(s)
  <2>1. Start(cs, f, s, QuotAt(1))
    BY <1>1, <1>5 DEF Then
  <2>2. "while" \in Kinds
    BY DEF Kinds
  <2>3. g \in Frames(l, V, I) /\ g.kind = "while" /\ g.prog = prog /\ g.ip = ip + 1
    BY <2>2, FrameHere
  <2> HIDE DEF g
  <2>4. g1 \in Frames(l, V, I) /\ g1.kind = "while" /\ g1.prog = prog /\ g1.ip = ip + 1
    <3>1. g1 \in Frames(l, V, I)
      BY <1>3, <1>5, <2>3, FrameSet
    <3> QED BY <2>3, <3>1 DEF Frames
  <2> HIDE DEF g1
  <2>5. f \in Frames(l, V, I)
    BY <1>3, <1>5, <2>4, FrameSet
  <2>6. f.kind = "while" /\ f.prog = prog /\ f.ip = ip + 1
    BY <2>4 DEF Frames
  <2> HIDE DEF f
  <2>7. Open(f) /\ Kept(f, l, Opens(cs, Ptr))
    BY <2>6 DEF Open, Kept, Guards, Lists
  <2> QED BY <1>1, <1>3, <1>5, <2>1, <2>5, <2>6, <2>7, StartingHere
<1> QED BY <1>4, <1>5

\* _linrec_begin and _binrec_begin: a snapshot is taken in the fragment the
\* condition will have gone by when it is restored.
LEMMA Recursing ==
  ASSUME NEW l, NEW V, NEW n, NEW I, Going(l, V, n, I),
         NEW under, NEW f \in Frames(l, V, I), f.kind \in {"linrec", "binrec"},
         Len(under) <= CsDepth, Stacked(under, f.prog, f.ip, l, V, I),
         NEW s \in Stacks(l, V, Opens(under, Len(under))), Recurse(under, f, s)
  PROVE  Held(l, V, I, st', cs', prog', ip')
<1> DEFINE x == SnapshotCache(s)
           f1 == [f EXCEPT !.snap = <<x>>]
           f2 == [f1 EXCEPT !.n = 0]
           f3 == [f2 EXCEPT !.val = None]
           f4 == [f3 EXCEPT !.val2 = None]
<1>1. Start(under, f4, s, f.body)
  BY DEF Recurse
<1>2. under \in Seq(Frames(l, V, I)) /\ Len(under) \in Nat
  BY LenProperties DEF Stacked
<1>3. Opens(under, Len(under)) \in Nat
  BY <1>2, OpensIs
<1>4. x \in Snapshots(l, V) /\ (l # "naive" => x.frag = Opens(under, Len(under)))
  BY <1>3, SnapshotTyped
<1>5. None \in V /\ f.body \in Seq(I)
  BY FrameFields DEF Going, Values
<1>6. PICK k \in {"linrec", "binrec"} : k = f.kind
  OBVIOUS
<1> DEFINE Same(g) == /\ g \in Frames(l, V, I) /\ g.kind = k /\ g.snap = <<x>>
                      /\ g.prog = f.prog /\ g.ip = f.ip
<1> HIDE DEF x
<1>7. Same(f1)
  <2>1. f1 \in Frames(l, V, I)
    BY <1>4, FrameSet
  <2> QED BY <1>6, <2>1 DEF Frames
<1> HIDE DEF f1
<1>8. Same(f2) /\ f2.n = 0
  <2>1. f1 \in Frames(l, V, I)
    BY <1>7
  <2>2. f2 \in Frames(l, V, I)
    <3>1. \A y \in Int : [f1 EXCEPT !.n = y] \in Frames(l, V, I)
      BY <2>1, FrameSet
    <3> QED BY <3>1
  <2>3. f2.n = 0
    BY <2>1 DEF Frames
  <2>4. f2.kind = f1.kind /\ f2.snap = f1.snap /\ f2.prog = f1.prog /\ f2.ip = f1.ip
    BY <2>1 DEF Frames
  <2> QED BY <1>7, <2>2, <2>3, <2>4
<1> HIDE DEF f2
<1>9. Same(f3) /\ f3.n = 0
  <2>1. f3 \in Frames(l, V, I)
    BY <1>5, <1>8, FrameSet
  <2> QED BY <1>8, <2>1 DEF Frames
<1> HIDE DEF f3
<1>10. Same(f4) /\ f4.n = 0
  <2>1. f4 \in Frames(l, V, I)
    BY <1>5, <1>9, FrameSet
  <2> QED BY <1>9, <2>1 DEF Frames
<1> HIDE DEF f4
<1>11. Open(f4) /\ Kept(f4, l, Opens(under, Len(under)))
  BY <1>4, <1>10 DEF Open, Kept, Guards, Lists
<1>12. f4 \in Frames(l, V, I) /\ Stacked(under, f4.prog, f4.ip, l, V, I)
  BY <1>10
<1> QED BY <1>1, <1>5, <1>11, <1>12, Starting

LEMMA CombRecHeld ==
  ASSUME NEW l, NEW V, NEW n, NEW I, Going(l, V, n, I), CombRec
  PROVE  Held(l, V, I, st', cs', prog', ip')
<1> DEFINE s == PoppedQuots(4)
           S == Stacks(l, V, Opens(cs, Ptr))
<1>1. PICK kind \in {"linrec", "binrec"} :
        /\ Running /\ ~Ends
        /\ Then(s, Recurse(cs, [Frame(kind) EXCEPT !.body = QuotAt(3), !.body2 = QuotAt(2),
                                                   !.body3 = QuotAt(1), !.body4 = QuotAt(0)], s))
  BY DEF CombRec, At
<1> DEFINE g == Frame(kind)
           g1 == [g EXCEPT !.body = QuotAt(3)]
           g2 == [g1 EXCEPT !.body2 = QuotAt(2)]
           g3 == [g2 EXCEPT !.body3 = QuotAt(1)]
           f == [g3 EXCEPT !.body4 = QuotAt(0)]
<1>2. Then(s, Recurse(cs, f, s))
  BY <1>1
<1>3. Values(V, n, I) /\ st \in S
  BY GoingIs DEF Going
<1>4. s \in S /\ (Fine(s) => /\ QuotAt(0) \in Seq(I) /\ QuotAt(1) \in Seq(I)
                             /\ QuotAt(2) \in Seq(I) /\ QuotAt(3) \in Seq(I))
  BY <1>3, PoppedQuotsStay
<1> HIDE DEF s
<1>5. CASE ~Fine(s)
  BY <1>2, <1>4, <1>5, StoppingHere DEF Then
<1>6. CASE Fine(s)
  <2>1. Recurse(cs, f, s)
    BY <1>2, <1>6 DEF Then
  <2>2. kind \in Kinds
    BY <1>1 DEF Kinds
  <2>3. g \in Frames(l, V, I) /\ g.kind = kind /\ g.prog = prog /\ g.ip = ip + 1
    BY <2>2, FrameHere
  <2> HIDE DEF g
  <2>4. g1 \in Frames(l, V, I) /\ g1.kind = kind /\ g1.prog = prog /\ g1.ip = ip + 1
    <3>1. g1 \in Frames(l, V, I)
      BY <1>4, <1>6, <2>3, FrameSet
    <3> QED BY <2>3, <3>1 DEF Frames
  <2> HIDE DEF g1
  <2>5. g2 \in Frames(l, V, I) /\ g2.kind = kind /\ g2.prog = prog /\ g2.ip = ip + 1
    <3>1. g2 \in Frames(l, V, I)
      BY <1>4, <1>6, <2>4, FrameSet
    <3> QED BY <2>4, <3>1 DEF Frames
  <2> HIDE DEF g2
  <2>6. g3 \in Frames(l, V, I) /\ g3.kind = kind /\ g3.prog = prog /\ g3.ip = ip + 1
    <3>1. g3 \in Frames(l, V, I)
      BY <1>4, <1>6, <2>5, FrameSet
    <3> QED BY <2>5, <3>1 DEF Frames
  <2> HIDE DEF g3
  <2>7. f \in Frames(l, V, I)
    BY <1>4, <1>6, <2>6, FrameSet
  <2>8. f.kind \in {"linrec", "binrec"} /\ f.prog = prog /\ f.ip = ip + 1
    BY <1>1, <2>6 DEF Frames
  <2> HIDE DEF f
  <2>9. Stacked(cs, f.prog, f.ip, l, V, I)
    BY <1>1, <2>8, RunningIs
  <2>10. Ptr = Len(cs) /\ Len(cs) <= CsDepth
    BY GoingIs DEF Ptr
  <2> QED BY <1>4, <2>1, <2>7, <2>8, <2>9, <2>10, Recursing
<1> QED BY <1>5, <1>6

\* The first frames of a row on top of others.
LEMMA RowGrows ==
  ASSUME NEW S, NEW c \in Seq(S), NEW k \in Nat, NEW g, \A j \in 1..(k + 1) : g[j] \in S
  PROVE  /\ c \o [j \in 1..k |-> g[j]] \in Seq(S)
         /\ Len(c \o [j \in 1..k |-> g[j]]) = Len(c) + k
         /\ c \o [j \in 1..(k + 1) |-> g[j]] = Append(c \o [j \in 1..k |-> g[j]], g[k + 1])
<1> DEFINE h == [j \in 1..k |-> g[j]]
           h2 == [j \in 1..(k + 1) |-> g[j]]
           u == c \o h
           v == c \o h2
           w == Append(u, g[k + 1])
<1>1. PICK m \in Nat : m = Len(c)
  BY LenProperties
<1>2. h \in Seq(S) /\ Len(h) = k /\ h2 \in Seq(S) /\ Len(h2) = k + 1
  OBVIOUS
<1>3. \A j \in 1..k : h[j] = g[j]
  OBVIOUS
<1>4. \A j \in 1..(k + 1) : h2[j] = g[j]
  OBVIOUS
<1> HIDE DEF h, h2
<1>5. /\ u \in Seq(S) /\ Len(u) = m + k
      /\ \A i \in 1..(m + k) : u[i] = IF i <= m THEN c[i] ELSE h[i - m]
  BY <1>1, <1>2, ConcatProperties
<1>6. /\ v \in Seq(S) /\ Len(v) = m + (k + 1)
      /\ \A i \in 1..(m + (k + 1)) : v[i] = IF i <= m THEN c[i] ELSE h2[i - m]
  <2>1. PICK k1 \in Nat : k1 = k + 1
    OBVIOUS
  <2>2. h2 \in Seq(S) /\ Len(h2) = k1
    BY <1>2, <2>1
  <2>3. /\ v \in Seq(S) /\ Len(v) = m + k1
        /\ \A i \in 1..(m + k1) : v[i] = IF i <= m THEN c[i] ELSE h2[i - m]
    BY <1>1, <2>2, ConcatProperties
  <2> QED BY <2>1, <2>3
<1> HIDE DEF u, v
<1>7. g[k + 1] \in S
  OBVIOUS
<1>8. /\ w \in Seq(S) /\ Len(w) = m + (k + 1) /\ w[m + k + 1] = g[k + 1]
      /\ \A i \in 1..(m + k) : w[i] = u[i]
  BY <1>5, <1>7, AppendProperties
<1> HIDE DEF w
<1>9. ASSUME NEW i \in 1..(m + (k + 1)) PROVE v[i] = w[i]
  <2>1. CASE i = m + (k + 1)
    <3>1. i - m = k + 1 /\ ~(i <= m) /\ i = m + k + 1
      BY <2>1
    <3>2. v[i] = h2[k + 1]
      BY <1>6, <3>1
    <3> QED BY <1>4, <1>8, <3>1, <3>2
  <2>2. CASE i <= m
    <3>1. i \in 1..(m + k)
      BY <2>2
    <3> QED BY <1>5, <1>6, <1>8, <2>2, <3>1
  <2>3. CASE i # m + (k + 1) /\ ~(i <= m)
    <3>1. i \in 1..(m + k) /\ i - m \in 1..k /\ i - m \in 1..(k + 1)
      BY <2>3
    <3>2. v[i] = h2[i - m] /\ w[i] = h[i - m]
      BY <1>5, <1>6, <1>8, <2>3, <3>1
    <3> QED BY <1>3, <1>4, <3>1, <3>2
  <2> QED BY <2>1, <2>2, <2>3
<1>10. v = w
  BY <1>6, <1>8, <1>9, SeqEqual
<1> QED BY <1>1, <1>5, <1>10 DEF u, v, w, h, h2

\* The x frames row of primrec's calls on the frames c: each is at its place, and
\* the place of all but the first names the one before.
Calls(c, p, i, x, place, g, row, l, V, I) ==
  /\ \A k \in 1..(x + 1) :
       place[k] = IF k = 1 THEN <<p, i>>
                  ELSE <<Nowhere, IP_RESUME_PRIMREC - (Len(c) + k - 2)>>
  /\ \A k \in 1..x : /\ g[k] \in Frames(l, V, I) /\ g[k].kind = "primrec"
                     /\ g[k].prog = place[k][1] /\ g[k].ip = place[k][2]
  /\ row = [k \in 1..x |-> g[k]]

\* The calls of primrec: each of the n frames is named by the place of the next,
\* and none of them has a fragment.
LEMMA PrimrecRow ==
  ASSUME NEW l, NEW V, NEW I, NEW c, NEW p, NEW i, Stacked(c, p, i, l, V, I),
         Len(c) <= CsDepth, NEW x \in Nat, NEW place, NEW g, NEW row,
         Calls(c, p, i, x, place, g, row, l, V, I)
  PROVE  /\ Stacked(c \o row, place[x + 1][1], place[x + 1][2], l, V, I)
         /\ Opens(c \o row, Len(c \o row)) = Opens(c, Len(c))
         /\ Len(c \o row) = Len(c) + x
<1> DEFINE top(k) == c \o [j \in 1..k |-> g[j]]
           Right(k) == /\ Stacked(top(k), place[k + 1][1], place[k + 1][2], l, V, I)
                       /\ Opens(top(k), Len(top(k))) = Opens(c, Len(c))
                       /\ Len(top(k)) = Len(c) + k
           G == {k \in 0..x : Right(k)}
<1>0. /\ \A k \in 1..(x + 1) :
           place[k] = IF k = 1 THEN <<p, i>>
                      ELSE <<Nowhere, IP_RESUME_PRIMREC - (Len(c) + k - 2)>>
      /\ \A k \in 1..x : /\ g[k] \in Frames(l, V, I) /\ g[k].kind = "primrec"
                         /\ g[k].prog = place[k][1] /\ g[k].ip = place[k][2]
      /\ row = [k \in 1..x |-> g[k]]
  BY DEF Calls
<1> USE <1>0
<1>1. c \in Seq(Frames(l, V, I)) /\ Len(c) \in Nat
  BY LenProperties DEF Stacked
<1>2. 0 \in G
  <2>1. [j \in 1..0 |-> g[j]] = <<>>
    OBVIOUS
  <2>2. top(0) = c
    BY <1>1, <2>1, ConcatEmptySeq
  <2>3. place[0 + 1] = <<p, i>>
    <3>1. 1 \in 1..(x + 1)
      OBVIOUS
    <3>2. place[1] = <<p, i>>
      BY <3>1
    <3> QED BY <3>2
  <2> HIDE DEF top
  <2> QED BY <1>1, <2>2, <2>3
<1>3. ASSUME NEW k \in 1..x, k - 1 \in G PROVE k \in G
  <2>1. PICK m \in Nat : m = k - 1 /\ k = m + 1
    OBVIOUS
  <2>2. Right(m)
    BY <1>3, <2>1
  <2>3. /\ top(m) \in Seq(Frames(l, V, I)) /\ Len(top(m)) = Len(c) + m
        /\ top(m + 1) = Append(top(m), g[m + 1])
    <3>1. \A j \in 1..(m + 1) : g[j] \in Frames(l, V, I)
      BY <2>1
    <3> QED BY <1>1, <3>1, RowGrows
  <2> HIDE DEF top
  <2>4. PICK u : u = top(m)
    OBVIOUS
  <2>5. PICK f : f = g[k]
    OBVIOUS
  <2>6. /\ f \in Frames(l, V, I) /\ f.kind = "primrec"
        /\ f.prog = place[k][1] /\ f.ip = place[k][2]
    BY <2>5
  <2>7. Stacked(u, f.prog, f.ip, l, V, I) /\ Opens(u, Len(u)) = Opens(c, Len(c))
        /\ Len(u) = Len(c) + m /\ top(k) = Append(u, f)
    BY <2>1, <2>2, <2>3, <2>4, <2>5, <2>6
  <2>8. place[k + 1] = <<Nowhere, IP_RESUME_PRIMREC - (Len(c) + (k + 1) - 2)>>
    <3>1. k + 1 \in 1..(x + 1) /\ k + 1 # 1
      OBVIOUS
    <3> QED BY <3>1
  <2>9. Len(c) + (k + 1) - 2 = (Len(u) + 1) - 1
    BY <1>1, <2>1, <2>7
  <2>10. PICK q, j : /\ q = place[k + 1][1] /\ j = place[k + 1][2]
                     /\ NamedBy(f, Len(u) + 1, q, j)
    <3>1. place[k + 1][1] = Nowhere
      BY <2>8
    <3>2. place[k + 1][2] = IP_RESUME_PRIMREC - ((Len(u) + 1) - 1)
      BY <2>8, <2>9
    <3>3. NamedBy(f, Len(u) + 1, place[k + 1][1], place[k + 1][2])
      BY <2>6, <3>1, <3>2, Zenon DEF NamedBy
    <3> QED BY <3>3
  <2>11. ~Open(f) /\ ~Guards(f)
    BY <2>6 DEF Open, Guards
  <2>12. /\ Stacked(top(k), place[k + 1][1], place[k + 1][2], l, V, I)
         /\ Opens(top(k), Len(top(k))) = Opens(c, Len(c))
    <3> HIDE <1>0
    <3>1. /\ Stacked(Append(u, f), q, j, l, V, I)
          /\ Opens(Append(u, f), Len(Append(u, f))) = Opens(u, Len(u))
      BY <2>6, <2>7, <2>10, <2>11, GoodWait, SMTT(30)
    <3> QED BY <2>7, <2>10, <3>1
  <2>13. Len(top(k)) = Len(c) + k
    <3>1. u \in Seq(Frames(l, V, I))
      BY <2>3, <2>4
    <3>2. Len(Append(u, f)) = Len(u) + 1
      BY <2>6, <3>1, AppendProperties
    <3>3. Len(top(k)) = (Len(c) + m) + 1
      <4>1. Len(top(k)) = Len(u) + 1
        BY <2>7, <3>2
      <4> QED BY <2>7, <4>1
    <3>4. PICK d \in Nat : d = Len(c)
      BY <1>1
    <3>5. (d + m) + 1 = d + k
      BY <2>1
    <3> QED BY <3>3, <3>4, <3>5, Zenon
  <2>14. Right(k)
    BY <2>10, <2>12, <2>13
  <2>15. k \in 0..x
    OBVIOUS
  <2> HIDE DEF Right
  <2> QED BY <2>14, <2>15
<1> HIDE DEF G
<1>4. 0..x \subseteq G
  BY <1>2, <1>3, HandedOn
<1>5. Right(x)
  <2>1. x \in G
    BY <1>4
  <2> QED BY <2>1 DEF G
<1> QED BY <1>5

\* What is counted down on the stack.
LEMMA CountedStays ==
  ASSUME NEW V, NEW n, NEW I, Values(V, n, I), NEW l, NEW f,
         NEW s \in Stacks(l, V, f), NEW x \in Nat,
         NEW counted,
         counted = CHOOSE q : q = [k \in 0..x |->
                     IF k = 0 THEN s ELSE Pop(PushInt(PushInt(q[k - 1], x - k + 1), x - k))]
  PROVE  counted[x] \in Stacks(l, V, f)
<1> DEFINE S == Stacks(l, V, f)
           step(k, r) == Pop(PushInt(PushInt(r, x - k + 1), x - k))
           F == [k \in 1..x |-> [r \in S |-> step(k, r)]]
<1>1. ASSUME NEW k \in 1..x, NEW r \in S PROVE step(k, r) \in S
  <2>1. IntV(x - k + 1) \in V /\ IntV(x - k) \in V
    <3>1. x - k + 1 \in Int /\ x - k \in Int
      OBVIOUS
    <3> QED BY <3>1 DEF Values
  <2>2. PushInt(r, x - k + 1) \in S
    BY <2>1, PushStays DEF PushInt
  <2>3. PushInt(PushInt(r, x - k + 1), x - k) \in S
    BY <2>1, <2>2, PushStays DEF PushInt
  <2> QED BY <2>3, PopStays
<1>2. counted = CHOOSE q : q = [k \in 0..x |-> IF k = 0 THEN s ELSE step(k, q[k - 1])]
  OBVIOUS
<1> HIDE DEF step
<1>3. F \in [1..x -> [S -> S]]
  <2>1. ASSUME NEW k \in 1..x PROVE [r \in S |-> step(k, r)] \in [S -> S]
    BY <1>1
  <2> QED BY <2>1
<1> HIDE DEF F, S
<1>4. PICK h \in [0..x -> S] : Steps(h, s, F, x)
  BY <1>3, StepsExist DEF S
<1>5. ASSUME NEW k \in 0..x PROVE h[k] = IF k = 0 THEN s ELSE step(k, h[k - 1])
  <2>1. CASE k = 0
    BY <1>4, <2>1 DEF Steps
  <2>2. CASE k # 0
    <3>1. k \in 1..x /\ k - 1 \in 0..x
      BY <2>2
    <3>2. h[k] = F[k][h[k - 1]] /\ h[k - 1] \in S
      BY <1>4, <3>1 DEF Steps
    <3> QED BY <2>2, <3>1, <3>2 DEF F
  <2> QED BY <2>1, <2>2
<1>6. \E q : q = [k \in 0..x |-> IF k = 0 THEN s ELSE step(k, q[k - 1])]
  <2>1. h = [k \in 0..x |-> IF k = 0 THEN s ELSE step(k, h[k - 1])]
    BY <1>4, <1>5
  <2> QED BY <2>1
<1>7. counted = [k \in 0..x |-> IF k = 0 THEN s ELSE step(k, counted[k - 1])]
  BY <1>2, <1>6
<1> DEFINE G == {k \in 0..x : counted[k] \in S}
<1>8. \A k \in 0..x : counted[k] = IF k = 0 THEN s ELSE step(k, counted[k - 1])
  BY <1>7
<1>9. 0 \in G
  BY <1>8 DEF S
<1>10. ASSUME NEW k \in 1..x, k - 1 \in G PROVE k \in G
  <2>1. k \in 0..x /\ k # 0 /\ counted[k - 1] \in S
    BY <1>10
  <2>2. counted[k] = step(k, counted[k - 1])
    BY <1>8, <2>1
  <2>3. step(k, counted[k - 1]) \in S
    BY <1>1, <2>1
  <2> QED BY <2>1, <2>2, <2>3
<1> HIDE DEF G
<1>11. 0..x \subseteq G
  BY <1>9, <1>10, HandedOn
<1>12. counted[x] \in S
  <2>1. x \in G
    BY <1>11
  <2> QED BY <2>1 DEF G
<1> QED BY <1>12 DEF S

LEMMA CombPrimrecHeld ==
  ASSUME NEW l, NEW V, NEW n, NEW I, Going(l, V, n, I), CombPrimrec
  PROVE  Held(l, V, I, st', cs', prog', ip')
<1> DEFINE q0 == PoppedQuots(2)
           s == PopInt(q0)
           x == Top(Popped(st, 2))[2]
           counted == CHOOSE q : q = [k \in 0..x |->
                        IF k = 0 THEN s ELSE Pop(PushInt(PushInt(q[k - 1], x - k + 1), x - k))]
           place(k) == IF k = 1 THEN <<prog, ip + 1>>
                       ELSE <<Nowhere, IP_RESUME_PRIMREC - (Ptr + k - 2)>>
           frame(k) == [Returning(Frame("primrec"), place(k)[1], place(k)[2])
                          EXCEPT !.body = QuotAt(1), !.body2 = QuotAt(0)]
           row == [k \in 1..x |-> frame(k)]
           top == cs \o row
           done == counted[x]
           S == Stacks(l, V, Opens(cs, Ptr))
<1>1. /\ Running /\ ~Ends
      /\ Then(s, IF x \notin 0..(CsDepth - Ptr)
                 THEN /\ st' = Raise(s, "call stack overflow")
                      /\ UNCHANGED <<cs, prog, ip>>
                 ELSE Then(done, Enter(top, done, QuotAt(1), place(x + 1)[1], place(x + 1)[2])))
  BY DEF CombPrimrec, At
<1>2. Values(V, n, I) /\ st \in S
  BY GoingIs DEF Going
<1>3. q0 \in S /\ (Fine(q0) => /\ q0 = Popped(st, 2)
                               /\ QuotAt(0) \in Seq(I) /\ QuotAt(1) \in Seq(I))
  BY <1>2, PoppedQuotsStay
<1>4. s \in S /\ (Fine(s) => Fine(q0) /\ Top(q0)[2] \in Int)
  BY <1>2, <1>3, PopIntStays
<1>5. Fine(s) => x \in Int /\ QuotAt(0) \in Seq(I) /\ QuotAt(1) \in Seq(I)
  BY <1>3, <1>4
<1> HIDE DEF s, x, top, done, row, frame, place
<1>6. CASE ~Fine(s)
  BY <1>1, <1>4, <1>6, StoppingHere DEF Then
<1>7. CASE Fine(s) /\ x \notin 0..(CsDepth - Ptr)
  <2>1. st' = Raise(s, "call stack overflow") /\ UNCHANGED <<cs, prog, ip>>
    BY <1>1, <1>7 DEF Then
  <2>2. "call stack overflow" \in Errors /\ "call stack overflow" # Ok
    BY ErrorsAre DEF Ok
  <2> QED BY <1>4, <2>1, <2>2, RaisingHere
<1>8. CASE Fine(s) /\ x \in 0..(CsDepth - Ptr)
  <2>1. x \in Nat /\ Ptr + x <= CsDepth /\ Ptr = Len(cs)
    BY <1>8, GoingIs, Bases DEF Ptr
  <2>2. done \in S
    BY <1>2, <1>4, <2>1, CountedStays DEF done
  <2>3. CASE ~Fine(done)
    <3>1. st' = done /\ UNCHANGED <<cs, prog, ip>>
      BY <1>1, <1>8, <2>3 DEF Then
    <3> QED BY <2>2, <2>3, <3>1, StoppingHere
  <2>4. CASE Fine(done)
    <3>1. Enter(top, done, QuotAt(1), place(x + 1)[1], place(x + 1)[2])
      BY <1>1, <1>8, <2>4 DEF Then
    <3>2. ASSUME NEW k \in 1..x
          PROVE  /\ frame(k) \in Frames(l, V, I) /\ frame(k).kind = "primrec"
                 /\ frame(k).prog = place(k)[1] /\ frame(k).ip = place(k)[2]
      <4> DEFINE g == Frame("primrec")
                 g1 == [g EXCEPT !.prog = place(k)[1]]
                 g2 == [g1 EXCEPT !.ip = place(k)[2]]
                 g3 == [g2 EXCEPT !.body = QuotAt(1)]
                 f == [g3 EXCEPT !.body2 = QuotAt(0)]
      <4>1. frame(k) = f
        BY DEF frame, Returning
      <4>2. "primrec" \in Kinds
        BY DEF Kinds
      <4>3. g \in Frames(l, V, I) /\ g.kind = "primrec"
        BY <4>2, FrameHere
      <4>4. place(k)[1] \in Seq(I) \cup {Nowhere} /\ place(k)[2] \in Int
        <5>1. CASE k = 1
          <6>1. prog \in Seq(I) \cup {Nowhere} /\ ip + 1 \in Int
            BY GoingIs
          <6> QED BY <5>1, <6>1 DEF place
        <5>2. CASE k # 1
          <6>1. Ptr + k - 2 \in Int
            BY GoingIs, <2>1
          <6>2. IP_RESUME_PRIMREC - (Ptr + k - 2) \in Int
            BY <6>1, Bases
          <6> QED BY <5>2, <6>2 DEF place
        <5> QED BY <5>1, <5>2
      <4> HIDE DEF g
      <4>5. g1 \in Frames(l, V, I) /\ g1.kind = "primrec" /\ g1.prog = place(k)[1]
        <5>1. g1 \in Frames(l, V, I)
          BY <4>3, <4>4, FrameSet
        <5> QED BY <4>3, <5>1 DEF Frames
      <4> HIDE DEF g1
      <4>6. g2 \in Frames(l, V, I) /\ g2.kind = "primrec" /\ g2.prog = place(k)[1]
            /\ g2.ip = place(k)[2]
        <5>1. g2 \in Frames(l, V, I)
          BY <4>4, <4>5, FrameSet
        <5> QED BY <4>5, <5>1 DEF Frames
      <4> HIDE DEF g2
      <4>7. g3 \in Frames(l, V, I) /\ g3.kind = "primrec" /\ g3.prog = place(k)[1]
            /\ g3.ip = place(k)[2]
        <5>1. g3 \in Frames(l, V, I)
          BY <1>5, <1>8, <4>6, FrameSet
        <5> QED BY <4>6, <5>1 DEF Frames
      <4> HIDE DEF g3
      <4>8. f \in Frames(l, V, I) /\ f.kind = "primrec" /\ f.prog = place(k)[1]
            /\ f.ip = place(k)[2]
        <5>1. f \in Frames(l, V, I)
          BY <1>5, <1>8, <4>7, FrameSet
        <5> QED BY <4>7, <5>1 DEF Frames
      <4> HIDE DEF f
      <4> QED BY <4>1, <4>8
    <3>3. Stacked(cs, prog, ip + 1, l, V, I) /\ Len(cs) <= CsDepth
      BY <1>1, <2>1, RunningIs, GoingIs
    <3> DEFINE places == [k \in 1..(x + 1) |-> place(k)]
               frames == [k \in 1..x |-> frame(k)]
    <3>4. \A k \in 1..(x + 1) :
            places[k] = IF k = 1 THEN <<prog, ip + 1>>
                        ELSE <<Nowhere, IP_RESUME_PRIMREC - (Len(cs) + k - 2)>>
      BY <2>1 DEF place
    <3>5. \A k \in 1..x : places[k] = place(k) /\ frames[k] = frame(k)
      <4>1. \A k \in 1..x : k \in 1..(x + 1)
        BY <2>1
      <4> QED BY <4>1
    <3>6. places[x + 1] = place(x + 1)
      <4>1. x + 1 \in 1..(x + 1)
        BY <2>1
      <4> QED BY <4>1
    <3>7. row = [k \in 1..x |-> frames[k]]
      BY DEF row
    <3> HIDE DEF places, frames
    <3>8. \A k \in 1..x : /\ frames[k] \in Frames(l, V, I) /\ frames[k].kind = "primrec"
                          /\ frames[k].prog = places[k][1] /\ frames[k].ip = places[k][2]
      BY <3>2, <3>5
    <3>9. /\ Stacked(cs \o row, places[x + 1][1], places[x + 1][2], l, V, I)
          /\ Opens(cs \o row, Len(cs \o row)) = Opens(cs, Len(cs))
          /\ Len(cs \o row) = Len(cs) + x
      <4>1. PICK j : j = ip + 1
        OBVIOUS
      <4>2. /\ Stacked(cs, prog, j, l, V, I)
            /\ \A k \in 1..(x + 1) :
                 places[k] = IF k = 1 THEN <<prog, j>>
                             ELSE <<Nowhere, IP_RESUME_PRIMREC - (Len(cs) + k - 2)>>
        BY <3>3, <3>4, <4>1
      <4>3. Calls(cs, prog, j, x, places, frames, row, l, V, I)
        BY <3>7, <3>8, <4>2 DEF Calls
      <4> QED BY <2>1, <3>3, <4>2, <4>3, PrimrecRow
    <3>10. Good(l, V, I, done, top, place(x + 1)[1], place(x + 1)[2])
      BY <2>1, <2>2, <3>6, <3>9 DEF Good, top
    <3> QED BY <1>5, <1>8, <3>1, <3>10, Entering
  <2> QED BY <2>3, <2>4
<1> QED BY <1>6, <1>7, <1>8
-----------------------------------------------------------------------------
(* The returns *)

\* The frame that is returned to runs a program, so it has a fragment, and the
\* commit of that leaves one for each open frame under it.
LEMMA ReturningIs ==
  ASSUME NEW l, NEW V, NEW n, NEW I, Going(l, V, n, I), NEW kind, Returns(kind)
  PROVE  /\ Innermost \in Frames(l, V, I) /\ Innermost.kind = kind /\ Open(Innermost)
         /\ Stacked(Outer, Innermost.prog, Innermost.ip, l, V, I)
         /\ Outer \in Seq(Frames(l, V, I)) /\ Len(Outer) \in Nat /\ Len(Outer) < CsDepth
         /\ cs = Append(Outer, Innermost) /\ Len(Outer) + 1 = Ptr
         /\ Opens(Outer, Len(Outer)) \in Nat
         /\ Kept(Innermost, l, Opens(Outer, Len(Outer)))
         /\ Committed \in Stacks(l, V, Opens(Outer, Len(Outer))) /\ Fine(Committed)
<1>1. Running /\ cs # <<>> /\ Innermost.kind = kind
  BY DEF Returns
<1>2. cs \in Seq(Frames(l, V, I)) /\ Ptr \in Nat /\ Ptr <= CsDepth
      /\ st \in Stacks(l, V, Opens(cs, Ptr))
  BY GoingIs
<1>3. /\ Ptr > 0 /\ Outer \in Seq(Frames(l, V, I)) /\ Innermost \in Frames(l, V, I)
      /\ Len(Outer) = Ptr - 1 /\ cs = Append(Outer, Innermost)
  BY <1>1, <1>2, Topmost DEF Outer, Below, Innermost, Ptr
<1>4. PICK u, f : u = Outer /\ f = Innermost
  OBVIOUS
<1>5. u \in Seq(Frames(l, V, I)) /\ f \in Frames(l, V, I) /\ cs = Append(u, f)
  BY <1>3, <1>4
<1>6. Len(u) \in Nat /\ Len(u) + 1 = Ptr /\ Len(u) < CsDepth
  <2>1. Len(u) = Ptr - 1
    BY <1>3, <1>4
  <2>2. PICK p \in Nat : p = Ptr /\ p > 0 /\ p <= CsDepth
    BY <1>2, <1>3
  <2>3. CsDepth \in Nat
    BY Bases
  <2> QED BY <2>1, <2>2, <2>3
<1>7. Stacked(Append(u, f), prog, ip, l, V, I)
  <2>1. Stacked(cs, prog, ip, l, V, I)
    BY DEF Going, Good
  <2> QED BY <1>5, <2>1
<1>8. /\ Stacked(u, f.prog, f.ip, l, V, I)
      /\ Kept(f, l, Opens(u, Len(u)))
      /\ Rests(f, Len(u) + 1, prog, ip, I)
  BY <1>5, <1>7, StackedAppend
<1>9. Open(f)
  <2>1. prog # Nowhere
    BY <1>1 DEF Running
  <2> QED BY <1>8, <2>1, Zenon DEF Rests, NamedBy
<1>10. Opens(u, Len(u)) \in Nat
  BY <1>6, OpensIs
<1>11. Opens(cs, Ptr) = Opens(u, Len(u)) + 1
  <2>1. Opens(Append(u, f), Len(u) + 1) = Opens(u, Len(u)) + 1
    BY <1>5, <1>9, OpensAppend
  <2> QED BY <1>5, <1>6, <2>1
<1>12. Committed \in Stacks(l, V, Opens(u, Len(u))) /\ Fine(Committed)
  <2>1. PICK c : c = Opens(u, Len(u))
    OBVIOUS
  <2>2. c \in Nat /\ st \in Stacks(l, V, c + 1)
    BY <1>2, <1>10, <1>11, <2>1
  <2>3. Fine(st)
    BY <1>1 DEF Running
  <2> QED BY <2>1, <2>2, <2>3, CommitStays DEF Committed
<1> QED BY <1>1, <1>4, <1>5, <1>6, <1>8, <1>9, <1>10, <1>12

\* Out of a frame, back to where it was pushed.
LEMMA BackHeld ==
  ASSUME NEW l, NEW V, NEW n, NEW I, Going(l, V, n, I), NEW kind, Returns(kind),
         NEW s \in Stacks(l, V, Opens(Outer, Len(Outer))), Back(s)
  PROVE  Held(l, V, I, st', cs', prog', ip')
<1>1. Stacked(Outer, Innermost.prog, Innermost.ip, l, V, I) /\ Len(Outer) <= CsDepth
  BY ReturningIs, Bases
<1>2. PICK u, p, i : u = Outer /\ p = Innermost.prog /\ i = Innermost.ip
  OBVIOUS
<1>3. Leave(u, s, p, i)
  BY <1>2 DEF Back
<1>4. Good(l, V, I, s, u, p, i)
  BY <1>1, <1>2 DEF Good
<1> QED BY <1>3, <1>4, Leaving

\* The frame stays, for another program of it.
LEMMA AgainHeld ==
  ASSUME NEW l, NEW V, NEW n, NEW I, Going(l, V, n, I), NEW kind, Returns(kind),
         NEW g \in Frames(l, V, I), Open(g), g.prog = Innermost.prog, g.ip = Innermost.ip,
         Kept(g, l, Opens(Outer, Len(Outer))),
         NEW s \in Stacks(l, V, Opens(Outer, Len(Outer))),
         NEW body \in Seq(I), Again(g, s, body)
  PROVE  Held(l, V, I, st', cs', prog', ip')
<1>1. Stacked(Outer, g.prog, g.ip, l, V, I) /\ Len(Outer) < CsDepth
  BY ReturningIs
<1>2. PICK u : u = Outer
  OBVIOUS
<1>3. Held(l, V, I, PushFragment(s), Append(u, g), body, 0)
  BY <1>1, <1>2, HeldPush
<1>4. st' = PushFragment(s) /\ cs' = Append(u, g) /\ prog' = body /\ ip' = 0
  BY <1>2 DEF Again, Goto, Outer
<1> QED BY <1>3, <1>4

LEMMA ReturnTopHeld ==
  ASSUME NEW l, NEW V, NEW n, NEW I, Going(l, V, n, I), ReturnTop
  PROVE  Held(l, V, I, st', cs', prog', ip')
<1>1. st' = st /\ cs' = <<>> /\ prog' = Nowhere /\ ip' = 0 /\ cs = <<>>
  BY DEF ReturnTop, Goto
<1>2. st \in Stacks(l, V, Opens(cs, Ptr)) /\ Ptr = 0
  BY <1>1, GoingIs DEF Ptr
<1>3. Opens(cs, 0) = 0
  <2>1. {j \in 1..0 : Open(cs[j])} = {}
    OBVIOUS
  <2> QED BY <2>1, FS_EmptySet DEF Opens
<1>4. st \in Stacks(l, V, 0)
  BY <1>2, <1>3
<1>5. Len(cs') <= CsDepth
  BY <1>1, Bases
<1> QED BY <1>1, <1>4, <1>5 DEF Held

LEMMA ReturnRetHeld ==
  ASSUME NEW l, NEW V, NEW n, NEW I, Going(l, V, n, I), ReturnRet
  PROVE  Held(l, V, I, st', cs', prog', ip')
<1>1. Returns("ret") /\ Then(Committed, Back(Committed))
  BY DEF ReturnRet
<1>2. Committed \in Stacks(l, V, Opens(Outer, Len(Outer))) /\ Fine(Committed)
  BY <1>1, ReturningIs
<1>3. Back(Committed)
  BY <1>1, <1>2 DEF Then
<1> QED BY <1>1, <1>2, <1>3, BackHeld

\* The exception of a stack that is no longer sound.
LEMMA ReturnStops ==
  ASSUME NEW l, NEW V, NEW n, NEW I, Going(l, V, n, I), NEW kind, Returns(kind),
         NEW s \in Stacks(l, V, Opens(Outer, Len(Outer))), ~Fine(s),
         st' = s, UNCHANGED <<cs, prog, ip>>
  PROVE  Held(l, V, I, st', cs', prog', ip')
<1>1. PICK c : c = Opens(Outer, Len(Outer))
  OBVIOUS
<1>2. c \in Nat
  BY <1>1, ReturningIs
<1> QED BY <1>1, <1>2, Stopping

LEMMA ReturnDipHeld ==
  ASSUME NEW l, NEW V, NEW n, NEW I, Going(l, V, n, I), ReturnDip
  PROVE  Held(l, V, I, st', cs', prog', ip')
<1> DEFINE s == Push(Committed, Innermost.val)
<1>1. Returns("dip") /\ Then(s, Back(s))
  BY DEF ReturnDip
<1>2. Committed \in Stacks(l, V, Opens(Outer, Len(Outer))) /\ Innermost.val \in V
  <2>1. Innermost \in Frames(l, V, I)
    BY <1>1, ReturningIs
  <2> QED BY <1>1, <2>1, ReturningIs, FrameFields
<1>3. s \in Stacks(l, V, Opens(Outer, Len(Outer)))
  BY <1>2, PushStays DEF Going
<1> HIDE DEF s
<1>4. CASE Fine(s)
  BY <1>1, <1>3, <1>4, BackHeld DEF Then
<1>5. CASE ~Fine(s)
  BY <1>1, <1>3, <1>5, ReturnStops DEF Then
<1> QED BY <1>4, <1>5

LEMMA ReturnTimesHeld ==
  ASSUME NEW l, NEW V, NEW n, NEW I, Going(l, V, n, I), ReturnTimes
  PROVE  Held(l, V, I, st', cs', prog', ip')
<1> DEFINE g == [Innermost EXCEPT !.i = Innermost.i + 1]
<1>1. /\ Returns("times")
      /\ Then(Committed, IF g.i < g.n THEN Again(g, Committed, g.body) ELSE Back(Committed))
  BY DEF ReturnTimes
<1>2. /\ Innermost \in Frames(l, V, I) /\ Innermost.kind = "times"
      /\ Committed \in Stacks(l, V, Opens(Outer, Len(Outer))) /\ Fine(Committed)
  BY <1>1, ReturningIs
<1>3. g \in Frames(l, V, I)
  <2>1. Innermost.i + 1 \in Int
    BY <1>2, FrameFields
  <2> QED BY <1>2, <2>1, FrameSet
<1>4. g.kind = "times" /\ g.prog = Innermost.prog /\ g.ip = Innermost.ip
  BY <1>2 DEF Frames
<1> HIDE DEF g
<1>5. g.body \in Seq(I) /\ Open(g) /\ Kept(g, l, Opens(Outer, Len(Outer)))
  BY <1>3, <1>4, FrameFields DEF Open, Kept, Guards, Lists
<1>6. CASE g.i < g.n
  <2>1. Again(g, Committed, g.body)
    BY <1>1, <1>2, <1>6 DEF Then
  <2>2. PICK b : b = g.body
    OBVIOUS
  <2> QED BY <1>1, <1>2, <1>3, <1>4, <1>5, <2>1, <2>2, AgainHeld
<1>7. CASE ~(g.i < g.n)
  <2>1. Back(Committed)
    BY <1>1, <1>2, <1>7 DEF Then
  <2> QED BY <1>1, <1>2, <2>1, BackHeld
<1> QED BY <1>6, <1>7

\* What is under the frame, with a sound or an unsound stack.
LEMMA OuterGood ==
  ASSUME NEW l, NEW V, NEW n, NEW I, Going(l, V, n, I), NEW kind, Returns(kind),
         NEW s \in Stacks(l, V, Opens(Outer, Len(Outer)))
  PROVE  Good(l, V, I, s, Outer, Innermost.prog, Innermost.ip)
BY ReturningIs, Bases DEF Good

\* The snapshot of a condition was taken in the fragment that is there again.
LEMMA RestoredIs ==
  ASSUME NEW l, NEW V, NEW n, NEW I, Going(l, V, n, I), NEW kind, Returns(kind),
         Guards(Innermost)
  PROVE  RestoreCache(Pop(Committed), Innermost.snap[1])
           \in Stacks(l, V, Opens(Outer, Len(Outer)))
<1>1. PICK c : c = Opens(Outer, Len(Outer))
  OBVIOUS
<1>2. /\ c \in Nat /\ Innermost \in Frames(l, V, I) /\ Kept(Innermost, l, c)
      /\ Committed \in Stacks(l, V, c)
  BY <1>1, ReturningIs
<1>3. Pop(Committed) \in Stacks(l, V, c)
  BY <1>2, PopStays DEF Going
<1>4. Innermost.snap # <<>> /\ (l = "naive" \/ Innermost.snap[1].frag = c)
  BY <1>2 DEF Kept
<1>5. Innermost.snap[1] \in Snapshots(l, V)
  BY <1>2, <1>4, FrameFields
<1>6. PICK x \in Snapshots(l, V) : x = Innermost.snap[1]
  BY <1>5
<1>7. RestoreCache(Pop(Committed), x) \in Stacks(l, V, c)
  BY <1>2, <1>3, <1>4, <1>6, RestoreStays
<1> QED BY <1>1, <1>6, <1>7

LEMMA ReturnIfteHeld ==
  ASSUME NEW l, NEW V, NEW n, NEW I, Going(l, V, n, I), ReturnIfte
  PROVE  Held(l, V, I, st', cs', prog', ip')
<1> DEFINE s == RestoreCache(Pop(Committed), Innermost.snap[1])
           body == IF Flag(Committed) THEN Innermost.body ELSE Innermost.body2
<1>1. /\ Returns("ifte")
      /\ Then(s, EnterRet(Outer, s, body, Innermost.prog, Innermost.ip))
  BY DEF ReturnIfte
<1>2. Innermost \in Frames(l, V, I) /\ Innermost.kind = "ifte"
  BY <1>1, ReturningIs
<1>3. body \in Seq(I)
  BY <1>2, FrameFields
<1>4. s \in Stacks(l, V, Opens(Outer, Len(Outer)))
  BY <1>1, <1>2, RestoredIs DEF Guards
<1> HIDE DEF s, body
<1>5. CASE Fine(s)
  <2>1. PICK u, p, i : u = Outer /\ p = Innermost.prog /\ i = Innermost.ip
    OBVIOUS
  <2>2. EnterRet(u, s, body, p, i)
    BY <1>1, <1>5, <2>1 DEF Then
  <2>3. Good(l, V, I, s, u, p, i)
    BY <1>1, <1>4, <2>1, OuterGood
  <2> QED BY <1>3, <2>2, <2>3, EnteringRet
<1>6. CASE ~Fine(s)
  BY <1>1, <1>4, <1>6, ReturnStops DEF Then
<1> QED BY <1>5, <1>6

\* while has no snapshot, and its frame stays open.
LEMMA ReturnWhileHeld ==
  ASSUME NEW l, NEW V, NEW n, NEW I, Going(l, V, n, I), ReturnWhile
  PROVE  Held(l, V, I, st', cs', prog', ip')
<1> DEFINE f == Innermost
           s == IF f.n = 0 THEN Pop(Committed) ELSE Committed
<1>1. /\ Returns("while")
      /\ Then(s, IF f.n = 1 THEN Again([f EXCEPT !.n = 0], s, f.body2)
                 ELSE IF Flag(Committed) THEN Again([f EXCEPT !.n = 1], s, f.body)
                 ELSE Back(s))
  BY DEF ReturnWhile
<1>2. /\ f \in Frames(l, V, I) /\ f.kind = "while"
      /\ Committed \in Stacks(l, V, Opens(Outer, Len(Outer)))
  BY <1>1, ReturningIs
<1>3. s \in Stacks(l, V, Opens(Outer, Len(Outer)))
  BY <1>2, PopStays DEF Going
<1>4. \A y \in Int : LET g == [f EXCEPT !.n = y]
                     IN  /\ g \in Frames(l, V, I) /\ Open(g)
                         /\ g.prog = f.prog /\ g.ip = f.ip
                         /\ Kept(g, l, Opens(Outer, Len(Outer)))
  <2> SUFFICES ASSUME NEW y \in Int
               PROVE  LET g == [f EXCEPT !.n = y]
                      IN  /\ g \in Frames(l, V, I) /\ Open(g)
                          /\ g.prog = f.prog /\ g.ip = f.ip
                          /\ Kept(g, l, Opens(Outer, Len(Outer)))
    OBVIOUS
  <2> DEFINE g == [f EXCEPT !.n = y]
  <2>1. g \in Frames(l, V, I)
    BY <1>2, FrameSet
  <2>2. g.kind = "while" /\ g.prog = f.prog /\ g.ip = f.ip
    BY <1>2 DEF Frames
  <2> HIDE DEF g
  <2>3. Open(g) /\ Kept(g, l, Opens(Outer, Len(Outer)))
    BY <2>2 DEF Open, Kept, Guards, Lists
  <2> QED BY <2>1, <2>2, <2>3 DEF g
<1>5. f.body \in Seq(I) /\ f.body2 \in Seq(I)
  BY <1>2, FrameFields
<1> HIDE DEF s, f
<1>6. ASSUME NEW y \in {0, 1}, NEW body \in Seq(I), Again([f EXCEPT !.n = y], s, body)
      PROVE  Held(l, V, I, st', cs', prog', ip')
  <2>1. PICK g : g = [f EXCEPT !.n = y]
    OBVIOUS
  <2>2. /\ g \in Frames(l, V, I) /\ Open(g) /\ g.prog = Innermost.prog /\ g.ip = Innermost.ip
        /\ Kept(g, l, Opens(Outer, Len(Outer)))
    BY <1>4, <2>1, SMTT(30) DEF f
  <2>3. Again(g, s, body)
    BY <1>6, <2>1
  <2> QED BY <1>1, <1>3, <2>2, <2>3, AgainHeld
<1>7. CASE ~Fine(s)
  BY <1>1, <1>3, <1>7, ReturnStops DEF Then
<1>8. CASE Fine(s) /\ f.n = 1
  <2>1. Again([f EXCEPT !.n = 0], s, f.body2)
    BY <1>1, <1>8 DEF Then
  <2>2. PICK b \in Seq(I) : b = f.body2
    BY <1>5
  <2> QED BY <1>6, <2>1, <2>2
<1>9. CASE Fine(s) /\ f.n # 1 /\ Flag(Committed)
  <2>1. Again([f EXCEPT !.n = 1], s, f.body)
    BY <1>1, <1>9 DEF Then
  <2>2. PICK b \in Seq(I) : b = f.body
    BY <1>5
  <2> QED BY <1>6, <2>1, <2>2
<1>10. CASE Fine(s) /\ f.n # 1 /\ ~Flag(Committed)
  <2>1. Back(s)
    BY <1>1, <1>10 DEF Then
  <2> QED BY <1>1, <1>3, <2>1, BackHeld
<1> QED BY <1>7, <1>8, <1>9, <1>10

\* The next element, or the end, by a frame with the place of the one there is.
LEMMA NextElementHeld ==
  ASSUME NEW l, NEW V, NEW n, NEW I, Going(l, V, n, I),
         NEW kind \in {"step", "map", "filter", "fold"}, Returns(kind),
         NEW g \in Frames(l, V, I), g.kind = kind, g.list = Innermost.list,
         g.prog = Innermost.prog, g.ip = Innermost.ip,
         NEW pushed \in Stacks(l, V, Opens(Outer, Len(Outer))),
         NEW last \in Stacks(l, V, Opens(Outer, Len(Outer))),
         NextElement(g, pushed, last)
  PROVE  Held(l, V, I, st', cs', prog', ip')
<1> DEFINE S == Stacks(l, V, Opens(Outer, Len(Outer)))
           rest == Tail(g.list)
           y == IF g.kind = "filter" THEN Head(rest) ELSE g.val
           g1 == [g EXCEPT !.list = rest]
           f == [g1 EXCEPT !.val = y]
<1>1. Values(V, n, I)
  BY DEF Going
<1>2. g.list \in Seq(V) /\ g.list # <<>>
  <2>1. /\ Innermost \in Frames(l, V, I) /\ Innermost.kind = kind
        /\ Kept(Innermost, l, Opens(Outer, Len(Outer)))
    BY ReturningIs
  <2>2. Innermost.list # <<>>
    BY <2>1 DEF Kept, Lists
  <2> QED BY <2>2, FrameFields
<1>3. rest \in Seq(V)
  BY <1>1, <1>2, ListParts
<1>4. CASE rest = <<>>
  <2>1. Back(last)
    BY <1>4 DEF NextElement
  <2> QED BY <2>1, BackHeld
<1>5. CASE rest # <<>>
  <2>1. Again(f, Push(pushed, Head(rest)), g.body)
    <3>1. f = [g EXCEPT !.list = rest,
                        !.val = IF g.kind = "filter" THEN Head(rest) ELSE @]
      BY DEF Frames
    <3> QED BY <1>5, <3>1 DEF NextElement
  <2>2. Head(rest) \in V /\ Push(pushed, Head(rest)) \in S
    BY <1>1, <1>3, <1>5, ListParts, PushStays
  <2>3. y \in V /\ g.body \in Seq(I)
    BY <2>2, FrameFields
  <2> HIDE DEF y, rest
  <2>4. /\ g1 \in Frames(l, V, I) /\ g1.kind = kind /\ g1.prog = g.prog /\ g1.ip = g.ip
        /\ g1.list = rest
    <3>1. g1 \in Frames(l, V, I)
      BY <1>3, FrameSet
    <3> QED BY <3>1 DEF Frames
  <2> HIDE DEF g1
  <2>5. f \in Frames(l, V, I)
    BY <2>3, <2>4, FrameSet
  <2>6. f.kind = kind /\ f.prog = g.prog /\ f.ip = g.ip /\ f.list # <<>>
    BY <1>5, <2>4 DEF Frames
  <2> HIDE DEF f
  <2>7. Open(f) /\ Kept(f, l, Opens(Outer, Len(Outer)))
    BY <2>6 DEF Open, Kept, Guards, Lists
  <2>8. PICK b \in Seq(I) : b = g.body
    BY <2>3
  <2>9. PICK s \in S : s = Push(pushed, Head(rest))
    BY <2>2
  <2>10. Again(f, s, b)
    BY <2>1, <2>8, <2>9
  <2> HIDE DEF S
  <2>11. s \in Stacks(l, V, Opens(Outer, Len(Outer)))
    BY <2>9 DEF S
  <2> QED BY <2>5, <2>6, <2>7, <2>8, <2>10, <2>11, AgainHeld
<1> QED BY <1>4, <1>5

LEMMA ReturnStepHeld ==
  ASSUME NEW l, NEW V, NEW n, NEW I, Going(l, V, n, I), ReturnStep
  PROVE  Held(l, V, I, st', cs', prog', ip')
<1>1. Returns("step") /\ Then(Committed, NextElement(Innermost, Committed, Committed))
  BY DEF ReturnStep
<1>2. /\ Committed \in Stacks(l, V, Opens(Outer, Len(Outer))) /\ Fine(Committed)
      /\ Innermost \in Frames(l, V, I) /\ Innermost.kind = "step"
  BY <1>1, ReturningIs
<1>3. NextElement(Innermost, Committed, Committed)
  BY <1>1, <1>2 DEF Then
<1>4. PICK kind \in {"step", "map", "filter", "fold"} : kind = "step"
  OBVIOUS
<1>5. PICK g \in Frames(l, V, I) : g = Innermost
  BY <1>2
<1> QED BY <1>1, <1>2, <1>3, <1>4, <1>5, NextElementHeld

LEMMA ReturnFoldHeld ==
  ASSUME NEW l, NEW V, NEW n, NEW I, Going(l, V, n, I), ReturnFold
  PROVE  Held(l, V, I, st', cs', prog', ip')
<1> DEFINE s == Push(Pop(Committed), Top(Committed))
<1>1. Returns("fold") /\ Then(s, NextElement(Innermost, s, s))
  BY DEF ReturnFold
<1>2. /\ Committed \in Stacks(l, V, Opens(Outer, Len(Outer)))
      /\ Innermost \in Frames(l, V, I) /\ Innermost.kind = "fold"
  BY <1>1, ReturningIs
<1>3. s \in Stacks(l, V, Opens(Outer, Len(Outer)))
  BY <1>2, PopStays, TopTyped, PushStays DEF Going
<1> HIDE DEF s
<1>4. CASE ~Fine(s)
  BY <1>1, <1>3, <1>4, ReturnStops DEF Then
<1>5. CASE Fine(s)
  <2>1. NextElement(Innermost, s, s)
    BY <1>1, <1>5 DEF Then
  <2>2. PICK kind \in {"step", "map", "filter", "fold"} : kind = "fold"
    OBVIOUS
  <2>3. PICK g \in Frames(l, V, I) : g = Innermost
    BY <1>2
  <2> QED BY <1>1, <1>2, <1>3, <2>1, <2>2, <2>3, NextElementHeld
<1> QED BY <1>4, <1>5

\* map and filter: an element's result is gathered, or not.
LEMMA GatheringHeld ==
  ASSUME NEW l, NEW V, NEW n, NEW I, Going(l, V, n, I),
         NEW kind \in {"map", "filter"}, Returns(kind), NEW out \in Seq(V),
         LET s == Pop(Committed)
             g == [Innermost EXCEPT !.out = out]
         IN  Then(s, NextElement(g, s, Push(s, ListV(g.out))))
  PROVE  Held(l, V, I, st', cs', prog', ip')
<1> DEFINE s == Pop(Committed)
           g == [Innermost EXCEPT !.out = out]
<1>1. Then(s, NextElement(g, s, Push(s, ListV(g.out))))
  OBVIOUS
<1>2. /\ Committed \in Stacks(l, V, Opens(Outer, Len(Outer)))
      /\ Innermost \in Frames(l, V, I) /\ Innermost.kind = kind
  BY ReturningIs
<1>3. Values(V, n, I)
  BY DEF Going
<1>4. s \in Stacks(l, V, Opens(Outer, Len(Outer)))
  BY <1>2, <1>3, PopStays
<1>5. g \in Frames(l, V, I)
  BY <1>2, FrameSet
<1>6. g.kind = kind /\ g.prog = Innermost.prog /\ g.ip = Innermost.ip
      /\ g.list = Innermost.list /\ g.out = out
  BY <1>2 DEF Frames
<1> HIDE DEF s, g
<1>7. Push(s, ListV(g.out)) \in Stacks(l, V, Opens(Outer, Len(Outer)))
  <2>1. ListV(out) \in V
    BY <1>3, ListParts
  <2> QED BY <1>3, <1>4, <1>6, <2>1, PushStays
<1>8. CASE ~Fine(s)
  BY <1>1, <1>4, <1>8, ReturnStops DEF Then
<1>9. CASE Fine(s)
  <2>1. PICK last : last = Push(s, ListV(g.out))
    OBVIOUS
  <2>2. NextElement(g, s, last)
    BY <1>1, <1>9, <2>1 DEF Then
  <2>3. kind \in {"step", "map", "filter", "fold"}
    OBVIOUS
  <2> QED BY <1>4, <1>5, <1>6, <1>7, <2>1, <2>2, <2>3, NextElementHeld
<1> QED BY <1>8, <1>9

LEMMA ReturnMapHeld ==
  ASSUME NEW l, NEW V, NEW n, NEW I, Going(l, V, n, I), ReturnMap
  PROVE  Held(l, V, I, st', cs', prog', ip')
<1> DEFINE out == Append(Innermost.out, Top(Committed))
<1>1. /\ Returns("map")
      /\ LET s == Pop(Committed)
             g == [Innermost EXCEPT !.out = out]
         IN  Then(s, NextElement(g, s, Push(s, ListV(g.out))))
  BY DEF ReturnMap
<1>2. out \in Seq(V)
  <2>1. /\ Committed \in Stacks(l, V, Opens(Outer, Len(Outer)))
        /\ Innermost \in Frames(l, V, I)
    BY <1>1, ReturningIs
  <2>2. Top(Committed) \in V
    BY <2>1, TopTyped DEF Going
  <2>3. Innermost.out \in Seq(V)
    BY <2>1, FrameFields
  <2> QED BY <2>2, <2>3, AppendProperties
<1> HIDE DEF out
<1>3. PICK kind \in {"map", "filter"} : kind = "map"
  OBVIOUS
<1> QED BY <1>1, <1>2, <1>3, GatheringHeld

LEMMA ReturnFilterHeld ==
  ASSUME NEW l, NEW V, NEW n, NEW I, Going(l, V, n, I), ReturnFilter
  PROVE  Held(l, V, I, st', cs', prog', ip')
<1> DEFINE out == IF Flag(Committed) THEN Append(Innermost.out, Innermost.val)
                  ELSE Innermost.out
<1>1. /\ Returns("filter")
      /\ LET s == Pop(Committed)
             g == [Innermost EXCEPT !.out = out]
         IN  Then(s, NextElement(g, s, Push(s, ListV(g.out))))
  BY DEF ReturnFilter
<1>2. out \in Seq(V)
  <2>1. Innermost \in Frames(l, V, I)
    BY <1>1, ReturningIs
  <2>2. Innermost.val \in V /\ Innermost.out \in Seq(V)
    BY <2>1, FrameFields
  <2> QED BY <2>2, AppendProperties
<1> HIDE DEF out
<1>3. PICK kind \in {"map", "filter"} : kind = "filter"
  OBVIOUS
<1> QED BY <1>1, <1>2, <1>3, GatheringHeld

\* The condition of linrec or binrec is over: the second program ends the call,
\* the third leads to another.
LEMMA DecidedHeld ==
  ASSUME NEW l, NEW V, NEW n, NEW I, Going(l, V, n, I),
         NEW kind \in {"linrec", "binrec"}, Returns(kind),
         NEW s \in Stacks(l, V, Opens(Outer, Len(Outer))), Decided(Innermost, s)
  PROVE  Held(l, V, I, st', cs', prog', ip')
<1> DEFINE f == Innermost
           g == [f EXCEPT !.n = 1]
<1>1. f \in Frames(l, V, I) /\ f.kind = kind
  BY ReturningIs
<1>2. f.body2 \in Seq(I) /\ f.body3 \in Seq(I)
  BY <1>1, FrameFields
<1>3. CASE Flag(Committed)
  <2>1. PICK u, p, i : u = Outer /\ p = f.prog /\ i = f.ip
    OBVIOUS
  <2>2. PICK body \in Seq(I) : body = f.body2
    BY <1>2
  <2>3. Enter(u, s, body, p, i)
    BY <1>3, <2>1, <2>2 DEF Decided
  <2>4. Good(l, V, I, s, u, p, i)
    BY <2>1, OuterGood
  <2> QED BY <2>3, <2>4, Entering
<1>4. CASE ~Flag(Committed)
  <2>1. Again(g, s, f.body3)
    BY <1>4 DEF Decided
  <2>2. g \in Frames(l, V, I)
    <3>1. \A x \in Int : [f EXCEPT !.n = x] \in Frames(l, V, I)
      BY <1>1, FrameSet
    <3> QED BY <3>1
  <2>3. g.kind = kind /\ g.prog = f.prog /\ g.ip = f.ip /\ g.n = 1
    BY <1>1 DEF Frames
  <2> HIDE DEF g
  <2>4. Open(g) /\ Kept(g, l, Opens(Outer, Len(Outer)))
    BY <2>3 DEF Open, Kept, Guards, Lists
  <2>5. PICK body \in Seq(I) : body = f.body3
    BY <1>2
  <2>6. Again(g, s, body)
    BY <2>1, <2>5
  <2> HIDE DEF f
  <2>7. g.prog = Innermost.prog /\ g.ip = Innermost.ip
    BY <2>3 DEF f
  <2> QED BY <2>2, <2>4, <2>6, <2>7, AgainHeld
<1> QED BY <1>3, <1>4

\* Another frame in the place of the topmost one.
LEMMA TopReplaced ==
  ASSUME NEW S, NEW u \in Seq(S), NEW f \in S, NEW g \in S
  PROVE  /\ [Append(u, f) EXCEPT ![Len(u) + 1] = g] = Append(u, g)
         /\ Append(u, f)[Len(u) + 1] = f
<1>1. /\ Len(u) \in Nat
      /\ Append(u, f) \in Seq(S) /\ Len(Append(u, f)) = Len(u) + 1
      /\ Append(u, g) \in Seq(S) /\ Len(Append(u, g)) = Len(u) + 1
      /\ Append(u, f)[Len(u) + 1] = f /\ Append(u, g)[Len(u) + 1] = g
      /\ \A k \in 1..Len(u) : Append(u, f)[k] = u[k] /\ Append(u, g)[k] = u[k]
  BY AppendProperties, LenProperties
<1>2. PICK m \in Nat : m = Len(u) + 1
  BY <1>1
<1>3. PICK v, w : v = Append(u, f) /\ w = Append(u, g)
  OBVIOUS
<1>4. /\ v \in Seq(S) /\ w \in Seq(S) /\ Len(v) = m /\ Len(w) = m /\ w[m] = g
      /\ \A k \in 1..m : k # m => v[k] = w[k]
  <2>1. \A k \in 1..m : k # m => k \in 1..Len(u)
    BY <1>1, <1>2
  <2> QED BY <1>1, <1>2, <1>3, <2>1
<1>5. [v EXCEPT ![m] = g] = w
  <2>1. DOMAIN v = 1..m /\ DOMAIN w = 1..m
    BY <1>4
  <2>2. w = [k \in 1..m |-> w[k]]
    BY <1>4
  <2>3. [v EXCEPT ![m] = g] = [k \in 1..m |-> IF k = m THEN g ELSE v[k]]
    BY <2>1
  <2>4. \A k \in 1..m : w[k] = IF k = m THEN g ELSE v[k]
    BY <1>4
  <2> QED BY <2>2, <2>3, <2>4
<1> QED BY <1>1, <1>2, <1>3, <1>5

\* The call of a child, whose place names its parent.
LEMMA ChildIs ==
  ASSUME NEW l, NEW V, NEW I, NEW f \in Frames(l, V, I), NEW p, p = Nowhere,
         NEW i, i \in Int, NEW h, h = Returning(f, p, i)
  PROVE  h \in Frames(l, V, I) /\ h.kind = f.kind /\ h.prog = Nowhere /\ h.ip = i
<1> DEFINE f1 == [f EXCEPT !.prog = Nowhere]
           g == [f1 EXCEPT !.ip = i]
<1>1. f1 \in Frames(l, V, I)
  BY FrameSet
<1>2. f1.kind = f.kind /\ f1.prog = Nowhere
  BY DEF Frames
<1>3. Returning(f, Nowhere, i) = g
  BY DEF Returning
<1> HIDE DEF f1
<1>4. g \in Frames(l, V, I)
  BY <1>1, FrameSet
<1>5. g.kind = f.kind /\ g.prog = Nowhere /\ g.ip = i
  BY <1>1, <1>2 DEF Frames
<1> HIDE DEF g
<1> QED BY <1>3, <1>4, <1>5

\* The parent g waits, on the frames u, for a child whose place names it.
LEMMA ChildStarts ==
  ASSUME NEW l, NEW V, NEW n, NEW I, Going(l, V, n, I),
         NEW u, NEW g \in Frames(l, V, I), NEW f \in Frames(l, V, I), NEW i \in Int,
         Len(u) < CsDepth, Stacked(u, g.prog, g.ip, l, V, I),
         f.kind \in {"linrec", "binrec"}, ~Open(g), ~Guards(g),
         NamedBy(g, Len(u) + 1, Nowhere, i),
         NEW s \in Stacks(l, V, Opens(u, Len(u))),
         Recurse(Append(u, g), Returning(f, Nowhere, i), s)
  PROVE  Held(l, V, I, st', cs', prog', ip')
<1>1. PICK h, p, j : p = Nowhere /\ j = i /\ h = Returning(f, p, j)
  OBVIOUS
<1>2. h \in Frames(l, V, I) /\ h.kind = f.kind /\ h.prog = Nowhere /\ h.ip = i
  <2>1. j \in Int /\ p = Nowhere /\ h = Returning(f, p, j)
    BY <1>1
  <2>2. h \in Frames(l, V, I) /\ h.kind = f.kind /\ h.prog = Nowhere /\ h.ip = j
    BY <2>1, ChildIs
  <2> QED BY <1>1, <2>2
<1>3. PICK v : v = Append(u, g)
  OBVIOUS
<1>4. Stacked(v, h.prog, h.ip, l, V, I) /\ Opens(v, Len(v)) = Opens(u, Len(u))
  BY <1>2, <1>3, GoodWait
<1>5. Len(v) <= CsDepth
  <2>1. u \in Seq(Frames(l, V, I)) /\ Len(u) \in Nat
    BY LenProperties DEF Stacked
  <2>2. Len(Append(u, g)) = Len(u) + 1
    BY <2>1, AppendProperties
  <2> QED BY <1>3, <2>1, <2>2, Bases
<1>6. Recurse(v, h, s)
  BY <1>1, <1>3
<1>7. s \in Stacks(l, V, Opens(v, Len(v))) /\ h.kind \in {"linrec", "binrec"}
  BY <1>2, <1>4
<1> QED BY <1>2, <1>4, <1>5, <1>6, <1>7, Recursing

LEMMA ReturnLinrecHeld ==
  ASSUME NEW l, NEW V, NEW n, NEW I, Going(l, V, n, I), ReturnLinrec
  PROVE  Held(l, V, I, st', cs', prog', ip')
<1> DEFINE f == Innermost
           s == RestoreCache(Pop(Committed), f.snap[1])
<1>1. /\ Returns("linrec")
      /\ IF f.n = 0 THEN Then(s, Decided(f, s))
         ELSE Then(Committed, Recurse([cs EXCEPT ![Ptr].n = 2],
                                      ChildOf(Ptr, IP_RESUME_LINREC), Committed))
  BY DEF ReturnLinrec
<1>2. /\ f \in Frames(l, V, I) /\ f.kind = "linrec"
      /\ Stacked(Outer, f.prog, f.ip, l, V, I)
      /\ Outer \in Seq(Frames(l, V, I)) /\ Len(Outer) \in Nat /\ Len(Outer) < CsDepth
      /\ cs = Append(Outer, f) /\ Len(Outer) + 1 = Ptr
      /\ Committed \in Stacks(l, V, Opens(Outer, Len(Outer))) /\ Fine(Committed)
  BY <1>1, ReturningIs
<1> HIDE DEF s
<1>3. CASE f.n = 0
  <2>1. s \in Stacks(l, V, Opens(Outer, Len(Outer)))
    BY <1>1, <1>2, <1>3, RestoredIs DEF Guards, s
  <2>2. CASE ~Fine(s)
    <3>1. st' = s /\ UNCHANGED <<cs, prog, ip>>
      BY <1>1, <1>3, <2>2 DEF Then
    <3> QED BY <1>1, <2>1, <2>2, <3>1, ReturnStops
  <2>3. CASE Fine(s)
    <3>1. Decided(Innermost, s)
      BY <1>1, <1>3, <2>3 DEF Then
    <3>2. PICK kind \in {"linrec", "binrec"} : kind = "linrec"
      OBVIOUS
    <3> QED BY <1>1, <2>1, <3>1, <3>2, DecidedHeld
  <2> QED BY <2>2, <2>3
<1>4. CASE f.n # 0
  <2> DEFINE g == [f EXCEPT !.n = 2]
  <2>1. Recurse([cs EXCEPT ![Ptr].n = 2], ChildOf(Ptr, IP_RESUME_LINREC), Committed)
    BY <1>1, <1>2, <1>4 DEF Then
  <2>2. g \in Frames(l, V, I)
    <3>1. \A x \in Int : [f EXCEPT !.n = x] \in Frames(l, V, I)
      BY <1>2, FrameSet
    <3> QED BY <3>1
  <2>3. g.kind = "linrec" /\ g.n = 2 /\ g.prog = f.prog /\ g.ip = f.ip
    BY <1>2 DEF Frames
  <2> HIDE DEF f, g
  <2>4. PICK u : u = Outer
    OBVIOUS
  <2>5. [cs EXCEPT ![Ptr].n = 2] = Append(u, g) /\ cs[Ptr] = f
    <3>1. [Append(u, f) EXCEPT ![Len(u) + 1] = g] = Append(u, g)
          /\ Append(u, f)[Len(u) + 1] = f
      BY <1>2, <2>2, <2>4, TopReplaced
    <3>2. [cs EXCEPT ![Ptr] = g] = Append(u, g) /\ cs[Ptr] = f
      BY <1>2, <2>4, <3>1
    <3>3. [cs EXCEPT ![Ptr].n = 2] = [cs EXCEPT ![Ptr] = [cs[Ptr] EXCEPT !.n = 2]]
      OBVIOUS
    <3> QED BY <3>2, <3>3 DEF g
  <2>6. PICK i \in Int : i = IP_RESUME_LINREC - (Ptr - 1)
    BY <1>2, Bases
  <2>7. ChildOf(Ptr, IP_RESUME_LINREC) = Returning(f, Nowhere, i)
    BY <2>5, <2>6 DEF ChildOf
  <2>8. NamedBy(g, Len(u) + 1, Nowhere, i)
    <3>1. i = IP_RESUME_LINREC - ((Len(u) + 1) - 1)
      BY <1>2, <2>4, <2>6
    <3> QED BY <2>3, <3>1, Zenon DEF NamedBy
  <2>9. ~Open(g) /\ ~Guards(g)
    BY <2>3 DEF Open, Guards
  <2>10. Recurse(Append(u, g), Returning(f, Nowhere, i), Committed)
    BY <2>1, <2>5, <2>7
  <2>11. /\ Len(u) < CsDepth /\ Stacked(u, g.prog, g.ip, l, V, I)
         /\ Committed \in Stacks(l, V, Opens(u, Len(u)))
         /\ f.kind \in {"linrec", "binrec"}
    BY <1>2, <2>3, <2>4
  <2> QED BY <1>2, <2>2, <2>6, <2>8, <2>9, <2>10, <2>11, ChildStarts
<1> QED BY <1>3, <1>4

LEMMA ReturnBinrecHeld ==
  ASSUME NEW l, NEW V, NEW n, NEW I, Going(l, V, n, I), ReturnBinrec
  PROVE  Held(l, V, I, st', cs', prog', ip')
<1> DEFINE f == Innermost
           s == RestoreCache(Pop(Committed), f.snap[1])
           s2 == Push(Popped(Committed, 2), Top(Committed))
           x == Top(Committed)
           y == Top(Pop(Committed))
<1>1. /\ Returns("binrec")
      /\ IF f.n = 0 THEN Then(s, Decided(f, s))
         ELSE Then(s2, Recurse([cs EXCEPT ![Ptr].n = 2, ![Ptr].val = x, ![Ptr].val2 = y],
                               ChildOf(Ptr, IP_RESUME_BINREC), s2))
  BY DEF ReturnBinrec
<1>2. /\ f \in Frames(l, V, I) /\ f.kind = "binrec"
      /\ Stacked(Outer, f.prog, f.ip, l, V, I)
      /\ Outer \in Seq(Frames(l, V, I)) /\ Len(Outer) \in Nat /\ Len(Outer) < CsDepth
      /\ cs = Append(Outer, f) /\ Len(Outer) + 1 = Ptr
      /\ Committed \in Stacks(l, V, Opens(Outer, Len(Outer))) /\ Fine(Committed)
  BY <1>1, ReturningIs
<1>3. Values(V, n, I)
  BY DEF Going
<1>4. s2 \in Stacks(l, V, Opens(Outer, Len(Outer))) /\ x \in V /\ y \in V
  BY <1>2, <1>3, PoppedFew, TopTyped, PushStays
<1> HIDE DEF s, s2, x, y
<1>5. CASE f.n = 0
  <2>1. s \in Stacks(l, V, Opens(Outer, Len(Outer)))
    BY <1>1, <1>2, <1>5, RestoredIs DEF Guards, s
  <2>2. CASE ~Fine(s)
    <3>1. st' = s /\ UNCHANGED <<cs, prog, ip>>
      BY <1>1, <1>5, <2>2 DEF Then
    <3> QED BY <1>1, <2>1, <2>2, <3>1, ReturnStops
  <2>3. CASE Fine(s)
    <3>1. Decided(Innermost, s)
      BY <1>1, <1>5, <2>3 DEF Then
    <3>2. PICK kind \in {"linrec", "binrec"} : kind = "binrec"
      OBVIOUS
    <3> QED BY <1>1, <2>1, <3>1, <3>2, DecidedHeld
  <2> QED BY <2>2, <2>3
<1>6. CASE f.n # 0 /\ ~Fine(s2)
  <2>1. st' = s2 /\ UNCHANGED <<cs, prog, ip>>
    BY <1>1, <1>6 DEF Then
  <2> QED BY <1>1, <1>4, <1>6, <2>1, ReturnStops
<1>7. CASE f.n # 0 /\ Fine(s2)
  <2> DEFINE g1 == [f EXCEPT !.n = 2]
             g2 == [g1 EXCEPT !.val = x]
             g == [g2 EXCEPT !.val2 = y]
  <2>1. Recurse([cs EXCEPT ![Ptr].n = 2, ![Ptr].val = x, ![Ptr].val2 = y],
                ChildOf(Ptr, IP_RESUME_BINREC), s2)
    BY <1>1, <1>7 DEF Then
  <2>2. /\ g1 \in Frames(l, V, I)
        /\ g1.kind = "binrec" /\ g1.n = 2 /\ g1.prog = f.prog /\ g1.ip = f.ip
    <3>1. g1 \in Frames(l, V, I)
      <4>1. \A k \in Int : [f EXCEPT !.n = k] \in Frames(l, V, I)
        BY <1>2, FrameSet
      <4> QED BY <4>1
    <3> QED BY <1>2, <3>1 DEF Frames
  <2> HIDE DEF f, g1
  <2>3. /\ g2 \in Frames(l, V, I)
        /\ g2.kind = "binrec" /\ g2.n = 2 /\ g2.prog = f.prog /\ g2.ip = f.ip
    <3>1. g2 \in Frames(l, V, I)
      BY <1>4, <2>2, FrameSet
    <3> QED BY <2>2, <3>1 DEF Frames
  <2> HIDE DEF g2
  <2>4. /\ g \in Frames(l, V, I)
        /\ g.kind = "binrec" /\ g.n = 2 /\ g.prog = f.prog /\ g.ip = f.ip
    <3>1. g \in Frames(l, V, I)
      BY <1>4, <2>3, FrameSet
    <3> QED BY <2>3, <3>1 DEF Frames
  <2> HIDE DEF g
  <2>5. PICK u : u = Outer
    OBVIOUS
  <2>6. /\ [cs EXCEPT ![Ptr].n = 2, ![Ptr].val = x, ![Ptr].val2 = y] = Append(u, g)
        /\ cs[Ptr] = f
    <3>1. [Append(u, f) EXCEPT ![Len(u) + 1] = g] = Append(u, g)
          /\ Append(u, f)[Len(u) + 1] = f
      BY <1>2, <2>4, <2>5, TopReplaced
    <3>2. [cs EXCEPT ![Ptr] = g] = Append(u, g) /\ cs[Ptr] = f /\ Ptr \in DOMAIN cs
      <4>1. Ptr \in DOMAIN Append(u, f)
        BY <1>2, <2>5
      <4> QED BY <1>2, <2>5, <3>1, <4>1
    <3>3. [cs EXCEPT ![Ptr].n = 2, ![Ptr].val = x, ![Ptr].val2 = y]
            = [cs EXCEPT ![Ptr] = [[[cs[Ptr] EXCEPT !.n = 2] EXCEPT !.val = x] EXCEPT !.val2 = y]]
      BY <3>2
    <3> QED BY <3>2, <3>3 DEF g, g2, g1
  <2>7. PICK i \in Int : i = IP_RESUME_BINREC - (Ptr - 1)
    BY <1>2, Bases
  <2>8. ChildOf(Ptr, IP_RESUME_BINREC) = Returning(f, Nowhere, i)
    BY <2>6, <2>7 DEF ChildOf
  <2>9. NamedBy(g, Len(u) + 1, Nowhere, i)
    <3>1. i = IP_RESUME_BINREC - ((Len(u) + 1) - 1)
      BY <1>2, <2>5, <2>7
    <3> QED BY <2>4, <3>1, Zenon DEF NamedBy
  <2>10. ~Open(g) /\ ~Guards(g)
    BY <2>4 DEF Open, Guards
  <2>11. Recurse(Append(u, g), Returning(f, Nowhere, i), s2)
    BY <2>1, <2>6, <2>8
  <2>12. /\ Len(u) < CsDepth /\ Stacked(u, g.prog, g.ip, l, V, I)
         /\ s2 \in Stacks(l, V, Opens(u, Len(u)))
         /\ f.kind \in {"linrec", "binrec"} /\ f \in Frames(l, V, I)
    BY <1>2, <1>4, <2>4, <2>5 DEF f
  <2> QED BY <2>4, <2>7, <2>9, <2>10, <2>11, <2>12, ChildStarts
<1> QED BY <1>5, <1>6, <1>7

-----------------------------------------------------------------------------
(* The places that name a frame *)

\* The kind of a frame by the place that names it: the places of one kind do not
\* run into those of the next.
LEMMA NamedAs ==
  ASSUME NEW f, NEW c \in Nat, c > 0, c <= CsDepth, NEW p, NEW i, i \in Int,
         NamedBy(f, c, p, i)
  PROVE  /\ i <= IP_RESUME_PRIMREC /\ i > IP_RESUME_LINREC =>
              f.kind = "primrec" /\ (IP_RESUME_PRIMREC - i) + 1 = c
         /\ i <= IP_RESUME_LINREC /\ i > IP_RESUME_BINREC =>
              f.kind = "linrec" /\ (IP_RESUME_LINREC - i) + 1 = c
         /\ i <= IP_RESUME_BINREC =>
              f.kind = "binrec" /\ (IP_RESUME_BINREC - i) + 1 = c
<1>1. PICK a, b, d \in Int : a = IP_RESUME_PRIMREC /\ b = IP_RESUME_LINREC
                             /\ d = IP_RESUME_BINREC
  BY Bases
<1>2. a - CsDepth >= b /\ b - CsDepth >= d /\ CsDepth \in Nat
  BY <1>1, Bases
<1>3. \/ f.kind = "primrec" /\ i = a - (c - 1)
      \/ f.kind = "linrec" /\ i = b - (c - 1)
      \/ f.kind = "binrec" /\ i = d - (c - 1)
  BY <1>1 DEF NamedBy
<1>4. CASE f.kind = "primrec" /\ i = a - (c - 1)
  <2>1. i > b /\ i > d /\ (a - i) + 1 = c
    BY <1>2, <1>4
  <2> QED BY <1>1, <1>4, <2>1
<1>5. CASE f.kind = "linrec" /\ i = b - (c - 1)
  <2>1. i <= b /\ i > d /\ (b - i) + 1 = c
    BY <1>2, <1>5
  <2> QED BY <1>1, <1>5, <2>1
<1>6. CASE f.kind = "binrec" /\ i = d - (c - 1)
  <2>1. i <= d /\ i <= b /\ (d - i) + 1 = c
    BY <1>2, <1>6
  <2> QED BY <1>1, <1>6, <2>1
<1> QED BY <1>3, <1>4, <1>5, <1>6

\* A place below 0 names the innermost frame, which waits.
LEMMA ResumingIs ==
  ASSUME NEW l, NEW V, NEW n, NEW I, Going(l, V, n, I), ip < 0
  PROVE  /\ Innermost \in Frames(l, V, I) /\ NamedBy(Innermost, Ptr, prog, ip)
         /\ Stacked(Outer, Innermost.prog, Innermost.ip, l, V, I)
         /\ Outer \in Seq(Frames(l, V, I)) /\ Len(Outer) \in Nat /\ Len(Outer) < CsDepth
         /\ cs = Append(Outer, Innermost) /\ Len(Outer) + 1 = Ptr
         /\ Ptr \in Nat /\ Ptr > 0 /\ Ptr <= CsDepth /\ ip \in Int
         /\ st \in Stacks(l, V, Opens(Outer, Len(Outer)))
<1>1. cs \in Seq(Frames(l, V, I)) /\ Ptr \in Nat /\ Ptr <= CsDepth
      /\ st \in Stacks(l, V, Opens(cs, Ptr)) /\ ip \in Int
  BY GoingIs
<1>2. ~Runs(prog, ip, I)
  BY <1>1 DEF Runs
<1>3. Stacked(cs, prog, ip, l, V, I)
  BY DEF Going, Good
<1>4. cs # <<>>
  BY <1>2, <1>3, StackedNil
<1>5. /\ Ptr > 0 /\ Outer \in Seq(Frames(l, V, I)) /\ Innermost \in Frames(l, V, I)
      /\ Len(Outer) = Ptr - 1 /\ cs = Append(Outer, Innermost)
  BY <1>1, <1>4, Topmost DEF Outer, Below, Innermost, Ptr
<1>6. PICK u, f : u = Outer /\ f = Innermost
  OBVIOUS
<1>7. u \in Seq(Frames(l, V, I)) /\ f \in Frames(l, V, I) /\ cs = Append(u, f)
  BY <1>5, <1>6
<1>8. Len(u) \in Nat /\ Len(u) + 1 = Ptr /\ Len(u) < CsDepth
  <2>1. Len(u) = Ptr - 1
    BY <1>5, <1>6
  <2>2. PICK p \in Nat : p = Ptr /\ p > 0 /\ p <= CsDepth
    BY <1>1, <1>5
  <2>3. CsDepth \in Nat
    BY Bases
  <2> QED BY <2>1, <2>2, <2>3
<1>9. /\ Stacked(u, f.prog, f.ip, l, V, I)
      /\ Rests(f, Len(u) + 1, prog, ip, I)
  <2>1. Stacked(Append(u, f), prog, ip, l, V, I)
    BY <1>3, <1>7
  <2> QED BY <1>7, <2>1, StackedAppend
<1>10. ~Open(f) /\ NamedBy(f, Ptr, prog, ip)
  BY <1>2, <1>8, <1>9 DEF Rests
<1>11. Opens(cs, Ptr) = Opens(u, Len(u))
  <2>1. Opens(Append(u, f), Len(u) + 1) = Opens(u, Len(u)) + 0
    BY <1>7, <1>10, OpensAppend
  <2>2. Opens(u, Len(u)) \in Nat
    BY <1>8, OpensIs
  <2> QED BY <1>7, <1>8, <2>1, <2>2
<1> QED BY <1>1, <1>5, <1>6, <1>7, <1>8, <1>9, <1>10, <1>11

\* The frame that is resumed is the innermost one, whatever its kind.
LEMMA ResumesInnermost ==
  ASSUME NEW l, NEW V, NEW n, NEW I, Going(l, V, n, I), NEW base, NEW next, NEW kind,
         Resuming(base, next),
         \/ base = IP_RESUME_PRIMREC /\ next = IP_RESUME_LINREC /\ kind = "primrec"
         \/ base = IP_RESUME_LINREC /\ next = IP_RESUME_BINREC /\ kind = "linrec"
         \/ base = IP_RESUME_BINREC /\ kind = "binrec"
  PROVE  /\ ip < 0 /\ Parent(base) = Ptr
         /\ Below(Parent(base) - 1) = Outer /\ cs[Parent(base)] = Innermost
         /\ Innermost.kind = kind
<1>1. ip <= base /\ ip > next
  BY DEF Resuming
<1>2. ip \in Int
  BY GoingIs
<1>3. ip < 0
  <2>1. PICK a, b, d \in Int : a = IP_RESUME_PRIMREC /\ b = IP_RESUME_LINREC
                               /\ d = IP_RESUME_BINREC
    BY Bases
  <2>2. a - CsDepth >= b /\ b - CsDepth >= d /\ CsDepth \in Nat /\ a < 0
    BY <2>1, Bases
  <2>3. base = a \/ base = b \/ base = d
    BY <2>1
  <2> QED BY <1>1, <1>2, <2>2, <2>3
<1>4. NamedBy(Innermost, Ptr, prog, ip) /\ Ptr \in Nat /\ Ptr > 0 /\ Ptr <= CsDepth
  BY <1>3, ResumingIs
<1>5. PICK i, c, f : i = ip /\ c = Ptr /\ f = Innermost
  OBVIOUS
<1>6. /\ i <= IP_RESUME_PRIMREC /\ i > IP_RESUME_LINREC =>
           f.kind = "primrec" /\ (IP_RESUME_PRIMREC - i) + 1 = c
      /\ i <= IP_RESUME_LINREC /\ i > IP_RESUME_BINREC =>
           f.kind = "linrec" /\ (IP_RESUME_LINREC - i) + 1 = c
      /\ i <= IP_RESUME_BINREC =>
           f.kind = "binrec" /\ (IP_RESUME_BINREC - i) + 1 = c
  BY <1>2, <1>4, <1>5, NamedAs
<1>7. Innermost.kind = kind /\ (base - ip) + 1 = Ptr
  BY <1>1, <1>5, <1>6
<1>8. Parent(base) = Ptr
  BY <1>7 DEF Parent
<1> QED BY <1>3, <1>7, <1>8 DEF Outer, Innermost

\* Another program of the parent, in its place.
LEMMA ResumeEnters ==
  ASSUME NEW l, NEW V, NEW n, NEW I, Going(l, V, n, I), ip < 0,
         NEW s \in Stacks(l, V, Opens(Outer, Len(Outer))), NEW body \in Seq(I),
         Enter(Outer, s, body, Innermost.prog, Innermost.ip)
  PROVE  Held(l, V, I, st', cs', prog', ip')
<1>1. PICK u, p, i : u = Outer /\ p = Innermost.prog /\ i = Innermost.ip
  OBVIOUS
<1>2. Good(l, V, I, s, u, p, i)
  BY <1>1, ResumingIs, Bases DEF Good
<1>3. Enter(u, s, body, p, i)
  BY <1>1
<1> QED BY <1>2, <1>3, Entering

LEMMA ResumePrimrecHeld ==
  ASSUME NEW l, NEW V, NEW n, NEW I, Going(l, V, n, I), ResumePrimrec
  PROVE  Held(l, V, I, st', cs', prog', ip')
<1> DEFINE k == Parent(IP_RESUME_PRIMREC)
<1>1. /\ Resuming(IP_RESUME_PRIMREC, IP_RESUME_LINREC)
      /\ Enter(Below(k - 1), st, cs[k].body2, cs[k].prog, cs[k].ip)
  BY DEF ResumePrimrec
<1>2. PICK base, next, kind : base = IP_RESUME_PRIMREC /\ next = IP_RESUME_LINREC
                              /\ kind = "primrec"
  OBVIOUS
<1>3. ip < 0 /\ Below(k - 1) = Outer /\ cs[k] = Innermost
  BY <1>1, <1>2, ResumesInnermost
<1>4. Innermost \in Frames(l, V, I) /\ st \in Stacks(l, V, Opens(Outer, Len(Outer)))
  BY <1>3, ResumingIs
<1>5. PICK body \in Seq(I) : body = Innermost.body2
  BY <1>4, FrameFields
<1>6. Enter(Outer, st, body, Innermost.prog, Innermost.ip)
  BY <1>1, <1>3, <1>5
<1> QED BY <1>3, <1>4, <1>6, ResumeEnters

LEMMA ResumeLinrecHeld ==
  ASSUME NEW l, NEW V, NEW n, NEW I, Going(l, V, n, I), ResumeLinrec
  PROVE  Held(l, V, I, st', cs', prog', ip')
<1> DEFINE k == Parent(IP_RESUME_LINREC)
<1>1. /\ Resuming(IP_RESUME_LINREC, IP_RESUME_BINREC)
      /\ Enter(Below(k - 1), st, cs[k].body4, cs[k].prog, cs[k].ip)
  BY DEF ResumeLinrec
<1>2. PICK base, next, kind : base = IP_RESUME_LINREC /\ next = IP_RESUME_BINREC
                              /\ kind = "linrec"
  OBVIOUS
<1>3. ip < 0 /\ Below(k - 1) = Outer /\ cs[k] = Innermost
  BY <1>1, <1>2, ResumesInnermost
<1>4. Innermost \in Frames(l, V, I) /\ st \in Stacks(l, V, Opens(Outer, Len(Outer)))
  BY <1>3, ResumingIs
<1>5. PICK body \in Seq(I) : body = Innermost.body4
  BY <1>4, FrameFields
<1>6. Enter(Outer, st, body, Innermost.prog, Innermost.ip)
  BY <1>1, <1>3, <1>5
<1> QED BY <1>3, <1>4, <1>6, ResumeEnters

LEMMA ResumeStops ==
  ASSUME NEW l, NEW V, NEW n, NEW I, Going(l, V, n, I), ip < 0,
         NEW s \in Stacks(l, V, Opens(Outer, Len(Outer))), ~Fine(s),
         st' = s, UNCHANGED <<cs, prog, ip>>
  PROVE  Held(l, V, I, st', cs', prog', ip')
<1>1. PICK c : c = Opens(Outer, Len(Outer))
  OBVIOUS
<1>2. c \in Nat
  BY <1>1, ResumingIs, OpensIs
<1> QED BY <1>1, <1>2, Stopping

LEMMA ResumeBinrecSecondHeld ==
  ASSUME NEW l, NEW V, NEW n, NEW I, Going(l, V, n, I), ResumeBinrecSecond
  PROVE  Held(l, V, I, st', cs', prog', ip')
<1> DEFINE k == Parent(IP_RESUME_BINREC)
           s == Push(Push(Pop(st), Innermost.val), Top(st))
<1>1. /\ Resuming(IP_RESUME_BINREC, 2 * IP_RESUME_BINREC)
      /\ LET s0 == Push(Push(Pop(st), cs[k].val), Top(st))
         IN  Then(s0, Enter(Below(k - 1), s0, cs[k].body4, cs[k].prog, cs[k].ip))
  BY DEF ResumeBinrecSecond
<1>2. PICK base, next, kind : base = IP_RESUME_BINREC /\ next = 2 * IP_RESUME_BINREC
                              /\ kind = "binrec"
  OBVIOUS
<1>3. ip < 0 /\ Below(k - 1) = Outer /\ cs[k] = Innermost
  BY <1>1, <1>2, ResumesInnermost
<1>4. Innermost \in Frames(l, V, I) /\ st \in Stacks(l, V, Opens(Outer, Len(Outer)))
  BY <1>3, ResumingIs
<1>5. PICK body \in Seq(I) : body = Innermost.body4
  BY <1>4, FrameFields
<1>6. s \in Stacks(l, V, Opens(Outer, Len(Outer)))
  <2>1. Innermost.val \in V
    BY <1>4, FrameFields
  <2> QED BY <1>4, <2>1, PopStays, TopTyped, PushStays DEF Going
<1>7. Then(s, Enter(Outer, s, body, Innermost.prog, Innermost.ip))
  BY <1>1, <1>3, <1>5
<1> HIDE DEF s
<1>8. CASE ~Fine(s)
  <2>1. st' = s /\ UNCHANGED <<cs, prog, ip>>
    BY <1>7, <1>8 DEF Then
  <2> QED BY <1>3, <1>6, <1>8, <2>1, ResumeStops
<1>9. CASE Fine(s)
  <2>1. Enter(Outer, s, body, Innermost.prog, Innermost.ip)
    BY <1>7, <1>9 DEF Then
  <2> QED BY <1>3, <1>6, <2>1, ResumeEnters
<1> QED BY <1>8, <1>9

LEMMA ResumeBinrecFirstHeld ==
  ASSUME NEW l, NEW V, NEW n, NEW I, Going(l, V, n, I), ResumeBinrecFirst
  PROVE  Held(l, V, I, st', cs', prog', ip')
<1> DEFINE k == Parent(IP_RESUME_BINREC)
           f == Innermost
           s == Push(Pop(st), f.val2)
           x == Top(st)
<1>1. /\ Resuming(IP_RESUME_BINREC, 2 * IP_RESUME_BINREC)
      /\ LET s0 == Push(Pop(st), cs[k].val2)
         IN  Then(s0, Recurse([cs EXCEPT ![k].n = 3, ![k].val = x],
                              ChildOf(k, IP_RESUME_BINREC), s0))
  BY DEF ResumeBinrecFirst
<1>2. PICK base, next, kind : base = IP_RESUME_BINREC /\ next = 2 * IP_RESUME_BINREC
                              /\ kind = "binrec"
  OBVIOUS
<1>3. ip < 0 /\ k = Ptr /\ cs[k] = f /\ f.kind = "binrec"
  BY <1>1, <1>2, ResumesInnermost
<1>4. /\ f \in Frames(l, V, I)
      /\ Stacked(Outer, f.prog, f.ip, l, V, I)
      /\ Outer \in Seq(Frames(l, V, I)) /\ Len(Outer) \in Nat /\ Len(Outer) < CsDepth
      /\ cs = Append(Outer, f) /\ Len(Outer) + 1 = Ptr
      /\ st \in Stacks(l, V, Opens(Outer, Len(Outer)))
  BY <1>3, ResumingIs
<1>5. s \in Stacks(l, V, Opens(Outer, Len(Outer))) /\ x \in V
  <2>1. f.val2 \in V
    BY <1>4, FrameFields
  <2> QED BY <1>4, <2>1, PopStays, TopTyped, PushStays DEF Going
<1>6. Then(s, Recurse([cs EXCEPT ![Ptr].n = 3, ![Ptr].val = x],
                      ChildOf(Ptr, IP_RESUME_BINREC), s))
  BY <1>1, <1>3
<1> HIDE DEF s, x, k
<1>7. CASE ~Fine(s)
  <2>1. st' = s /\ UNCHANGED <<cs, prog, ip>>
    BY <1>6, <1>7 DEF Then
  <2> QED BY <1>3, <1>5, <1>7, <2>1, ResumeStops
<1>8. CASE Fine(s)
  <2> DEFINE g1 == [f EXCEPT !.n = 3]
             g == [g1 EXCEPT !.val = x]
  <2>1. Recurse([cs EXCEPT ![Ptr].n = 3, ![Ptr].val = x],
                ChildOf(Ptr, IP_RESUME_BINREC), s)
    BY <1>6, <1>8 DEF Then
  <2>2. /\ g1 \in Frames(l, V, I)
        /\ g1.kind = "binrec" /\ g1.n = 3 /\ g1.prog = f.prog /\ g1.ip = f.ip
    <3>1. g1 \in Frames(l, V, I)
      <4>1. \A j \in Int : [f EXCEPT !.n = j] \in Frames(l, V, I)
        BY <1>4, FrameSet
      <4> QED BY <4>1
    <3> QED BY <1>3, <1>4, <3>1 DEF Frames
  <2> HIDE DEF f, g1
  <2>3. /\ g \in Frames(l, V, I)
        /\ g.kind = "binrec" /\ g.n = 3 /\ g.prog = f.prog /\ g.ip = f.ip
    <3>1. g \in Frames(l, V, I)
      BY <1>5, <2>2, FrameSet
    <3> QED BY <2>2, <3>1 DEF Frames
  <2> HIDE DEF g
  <2>4. PICK u : u = Outer
    OBVIOUS
  <2>5. [cs EXCEPT ![Ptr].n = 3, ![Ptr].val = x] = Append(u, g) /\ cs[Ptr] = f
    <3>1. [Append(u, f) EXCEPT ![Len(u) + 1] = g] = Append(u, g)
          /\ Append(u, f)[Len(u) + 1] = f
      BY <1>4, <2>3, <2>4, TopReplaced
    <3>2. [cs EXCEPT ![Ptr] = g] = Append(u, g) /\ cs[Ptr] = f /\ Ptr \in DOMAIN cs
      <4>1. Ptr \in DOMAIN Append(u, f)
        BY <1>4, <2>4
      <4> QED BY <1>4, <2>4, <3>1, <4>1
    <3>3. [cs EXCEPT ![Ptr].n = 3, ![Ptr].val = x]
            = [cs EXCEPT ![Ptr] = [[cs[Ptr] EXCEPT !.n = 3] EXCEPT !.val = x]]
      BY <3>2
    <3> QED BY <3>2, <3>3 DEF g, g1
  <2>6. PICK i \in Int : i = IP_RESUME_BINREC - (Ptr - 1)
    BY <1>4, Bases
  <2>7. ChildOf(Ptr, IP_RESUME_BINREC) = Returning(f, Nowhere, i)
    BY <2>5, <2>6 DEF ChildOf
  <2>8. NamedBy(g, Len(u) + 1, Nowhere, i)
    <3>1. i = IP_RESUME_BINREC - ((Len(u) + 1) - 1)
      BY <1>4, <2>4, <2>6
    <3> QED BY <2>3, <3>1, Zenon DEF NamedBy
  <2>9. ~Open(g) /\ ~Guards(g)
    BY <2>3 DEF Open, Guards
  <2>10. Recurse(Append(u, g), Returning(f, Nowhere, i), s)
    BY <2>1, <2>5, <2>7
  <2>11. /\ Len(u) < CsDepth /\ Stacked(u, g.prog, g.ip, l, V, I)
         /\ s \in Stacks(l, V, Opens(u, Len(u)))
         /\ f.kind \in {"linrec", "binrec"} /\ f \in Frames(l, V, I)
    BY <1>3, <1>4, <1>5, <2>3, <2>4 DEF f
  <2> QED BY <2>3, <2>6, <2>8, <2>9, <2>10, <2>11, ChildStarts
<1> QED BY <1>7, <1>8

-----------------------------------------------------------------------------
(* Every step of the loop *)

\* What is typed with few values is typed with more, frames too.
LEMMA MoreStacked ==
  ASSUME NEW l, NEW V, NEW W, V \subseteq W, NEW I, NEW frames, NEW p, NEW i,
         Stacked(frames, p, i, l, V, I)
  PROVE  Stacked(frames, p, i, l, W, I)
<1>1. Frames(l, V, I) \subseteq Frames(l, W, I)
  <2>1. Seq(V) \subseteq Seq(W) /\ Snapshots(l, V) \subseteq Snapshots(l, W)
    BY MoreValues
  <2>2. {<<>>} \cup {<<x>> : x \in Snapshots(l, V)}
          \subseteq {<<>>} \cup {<<x>> : x \in Snapshots(l, W)}
    BY <2>1
  <2> HIDE DEF Snapshots
  <2> QED BY <2>1, <2>2 DEF Frames
<1>2. Seq(Frames(l, V, I)) \subseteq Seq(Frames(l, W, I))
  BY <1>1, MoreValues
<1> QED BY <1>2 DEF Stacked

\* A primitive may make an array, and with it there are more values.
LEMMA PrimHeld ==
  ASSUME NEW U, NEW I, World(U, I), NEW l, NEW n \in Nat, n = Len(arrays),
         Going(l, U[n], n, I), arrays \in Seq(Seq(U[n])), Prim
  PROVE  \E m \in Nat : /\ m = Len(arrays') /\ arrays' \in Seq(Seq(U[m]))
                        /\ Held(l, U[m], I, st', cs', prog', ip')
<1>1. PICK w, m2 : /\ Running /\ ~Ends /\ w \in PrimitiveWords /\ m2 = Primitive(w, Memory)
                   /\ st' = m2.st /\ arrays' = m2.arrays
                   /\ ip' = ip + 1 /\ UNCHANGED <<cs, prog>>
  BY DEF Prim
<1>2. st \in Stacks(l, U[n], Opens(cs, Ptr)) /\ Opens(cs, Ptr) \in Nat /\ Ptr <= CsDepth
  BY GoingIs
<1>3. PICK f \in Nat : f = Opens(cs, Ptr)
  BY <1>2
<1>4. Memory \in Memories(l, U[n], f) /\ n = Len(Memory.arrays)
  BY <1>2, <1>3 DEF Memories, Memory
<1>5. Follows(U, l, f, n, m2)
  BY <1>1, <1>4, PrimitiveFollows
<1>6. PICK m \in Nat : /\ m2 \in Memories(l, U[m], f) /\ Len(m2.arrays) = m
                       /\ U[n] \subseteq U[m]
  <2>1. CASE m2 \in Memories(l, U[n], f) /\ Len(m2.arrays) = n
    BY <2>1
  <2>2. CASE m2 \in Memories(l, U[n + 1], f) /\ Len(m2.arrays) = n + 1
    <3>1. PICK j \in Nat : j = n + 1
      OBVIOUS
    <3>2. U[n] \subseteq U[j]
      BY <3>1 DEF World
    <3> QED BY <2>2, <3>1, <3>2
  <2> QED BY <1>5, <2>1, <2>2 DEF Follows
<1>7. m2.st \in Stacks(l, U[m], f) /\ m2.arrays \in Seq(Seq(U[m]))
  BY <1>6 DEF Memories
<1>8. PICK j : j = ip + 1
  OBVIOUS
<1>9. Stacked(cs, prog, j, l, U[m], I)
  <2>1. PICK V : V = U[n]
    OBVIOUS
  <2>2. Going(l, V, n, I)
    BY <2>1
  <2>3. Stacked(cs, prog, ip + 1, l, V, I)
    BY <1>1, <2>2, RunningIs
  <2> QED BY <1>6, <1>8, <2>1, <2>3, MoreStacked
<1>10. PICK s : s = m2.st
  OBVIOUS
<1>11. Good(l, U[m], I, s, cs, prog, j)
  BY <1>2, <1>3, <1>7, <1>9, <1>10 DEF Good, Ptr
<1>12. Held(l, U[m], I, s, cs, prog, j)
  BY <1>11, GoodHeld
<1>13. st' = s /\ cs' = cs /\ prog' = prog /\ ip' = j
  BY <1>1, <1>8, <1>10
<1>14. Held(l, U[m], I, st', cs', prog', ip')
  BY <1>12, <1>13
<1> QED BY <1>1, <1>6, <1>7, <1>14

\* A run that is over takes no step.
LEMMA StepsGoOn ==
  ASSUME Step \/ Unknown
  PROVE  Fine(st) /\ ~Done
<1>1. Running => Fine(st) /\ ~Done
  BY DEF Running, Done
<1>2. \A base, next : Resuming(base, next) => Fine(st) /\ ~Done
  BY DEF Resuming, Done
<1>3. Literal \/ Prim \/ CallWord \/ Body \/ Unknown => Running
  BY DEF Literal, Prim, CallWord, Body, Unknown, At
<1>4. CombI \/ CombX \/ CombDip \/ CombIfte \/ CombBranch \/ CombTimes => Running
  BY DEF CombI, CombX, CombDip, CombIfte, CombBranch, CombTimes, At
<1>5. CombEach \/ CombFold \/ CombReduce \/ CombWhile \/ CombRec \/ CombPrimrec => Running
  BY DEF CombEach, CombFold, CombReduce, CombWhile, CombRec, CombPrimrec, At
<1>6. ReturnTop \/ ReturnRet \/ ReturnTimes \/ ReturnDip \/ ReturnIfte \/ ReturnWhile
        => Running
  BY DEF ReturnTop, ReturnRet, ReturnTimes, ReturnDip, ReturnIfte, ReturnWhile, Returns
<1>7. ReturnStep \/ ReturnMap \/ ReturnFilter \/ ReturnFold \/ ReturnLinrec \/ ReturnBinrec
        => Running
  BY DEF ReturnStep, ReturnMap, ReturnFilter, ReturnFold, ReturnLinrec, ReturnBinrec, Returns
<1>8. ResumePrimrec \/ ResumeLinrec \/ ResumeBinrecFirst \/ ResumeBinrecSecond
        => \E base, next : Resuming(base, next)
  BY DEF ResumePrimrec, ResumeLinrec, ResumeBinrecFirst, ResumeBinrecSecond
<1> QED BY <1>1, <1>2, <1>3, <1>4, <1>5, <1>6, <1>7, <1>8 DEF Step

\* Only a primitive changes the arrays.
LEMMA ArraysStay ==
  ASSUME Step \/ Unknown, ~Prim
  PROVE  arrays' = arrays
<1>1. Literal \/ CallWord \/ Body \/ Unknown => arrays' = arrays
  BY DEF Literal, CallWord, Body, Unknown
<1>2. CombI \/ CombX \/ CombDip \/ CombIfte \/ CombBranch \/ CombTimes => arrays' = arrays
  BY DEF CombI, CombX, CombDip, CombIfte, CombBranch, CombTimes
<1>3. CombEach \/ CombFold \/ CombReduce \/ CombWhile \/ CombRec \/ CombPrimrec
        => arrays' = arrays
  BY DEF CombEach, CombFold, CombReduce, CombWhile, CombRec, CombPrimrec
<1>4. ReturnTop \/ ReturnRet \/ ReturnTimes \/ ReturnDip \/ ReturnIfte \/ ReturnWhile
        => arrays' = arrays
  BY DEF ReturnTop, ReturnRet, ReturnTimes, ReturnDip, ReturnIfte, ReturnWhile
<1>5. ReturnStep \/ ReturnMap \/ ReturnFilter \/ ReturnFold \/ ReturnLinrec \/ ReturnBinrec
        => arrays' = arrays
  BY DEF ReturnStep, ReturnMap, ReturnFilter, ReturnFold, ReturnLinrec, ReturnBinrec
<1>6. ResumePrimrec \/ ResumeLinrec \/ ResumeBinrecFirst \/ ResumeBinrecSecond
        => arrays' = arrays
  BY DEF ResumePrimrec, ResumeLinrec, ResumeBinrecFirst, ResumeBinrecSecond
<1> QED BY <1>1, <1>2, <1>3, <1>4, <1>5, <1>6 DEF Step

\* What holds after each of them.
LEMMA StepHeld ==
  ASSUME NEW l, NEW V, NEW n, NEW I, Going(l, V, n, I), Step \/ Unknown, ~Prim,
         \A w \in DOMAIN Dict : Dict[w] \in Seq(I)
  PROVE  Held(l, V, I, st', cs', prog', ip')
<1>1. Literal \/ CallWord \/ Body \/ Unknown => Held(l, V, I, st', cs', prog', ip')
  BY LiteralHeld, CallWordHeld, BodyHeld, UnknownHeld
<1>2. CombI \/ CombX \/ CombDip \/ CombIfte \/ CombBranch \/ CombTimes
        => Held(l, V, I, st', cs', prog', ip')
  BY CombIHeld, CombXHeld, CombDipHeld, CombIfteHeld, CombBranchHeld, CombTimesHeld
<1>3. CombEach \/ CombFold \/ CombReduce \/ CombWhile \/ CombRec \/ CombPrimrec
        => Held(l, V, I, st', cs', prog', ip')
  BY CombEachHeld, CombFoldHeld, CombReduceHeld, CombWhileHeld, CombRecHeld, CombPrimrecHeld
<1>4. ReturnTop \/ ReturnRet \/ ReturnTimes \/ ReturnDip \/ ReturnIfte \/ ReturnWhile
        => Held(l, V, I, st', cs', prog', ip')
  BY ReturnTopHeld, ReturnRetHeld, ReturnTimesHeld, ReturnDipHeld, ReturnIfteHeld,
     ReturnWhileHeld
<1>5. ReturnStep \/ ReturnMap \/ ReturnFilter \/ ReturnFold \/ ReturnLinrec \/ ReturnBinrec
        => Held(l, V, I, st', cs', prog', ip')
  BY ReturnStepHeld, ReturnMapHeld, ReturnFilterHeld, ReturnFoldHeld, ReturnLinrecHeld,
     ReturnBinrecHeld
<1>6. ResumePrimrec \/ ResumeLinrec \/ ResumeBinrecFirst \/ ResumeBinrecSecond
        => Held(l, V, I, st', cs', prog', ip')
  BY ResumePrimrecHeld, ResumeLinrecHeld, ResumeBinrecFirstHeld, ResumeBinrecSecondHeld
<1> QED BY <1>1, <1>2, <1>3, <1>4, <1>5, <1>6, Zenon DEF Step

-----------------------------------------------------------------------------
(* The run *)

\* The inductive invariant: the arrays there are tell which values there are,
\* and the stack, of whichever layout, and the call stack are in step.
InStep(U, I) ==
  \E n \in Nat : /\ n = Len(arrays) /\ arrays \in Seq(Seq(U[n]))
                 /\ \E l \in {"naive", "fragment"} : Held(l, U[n], I, st, cs, prog, ip)

LEMMA StartsInStep ==
  ASSUME NEW U, NEW I, World(U, I), Init
  PROVE  InStep(U, I)
<1>1. PICK V : V = U[0]
  OBVIOUS
<1>2. Values(V, 0, I) /\ source \in Seq(I)
  BY <1>1 DEF World, Init
<1>3. arrays = <<>> /\ cs = <<>> /\ prog = source /\ ip = 0
  BY DEF Init
<1>4. arrays \in Seq(Seq(V)) /\ Len(arrays) = 0
  BY <1>3
<1>5. Stacked(cs, prog, ip, "naive", V, I) /\ Stacked(cs, prog, ip, "fragment", V, I)
  <2>1. Runs(prog, ip, I)
    <3>1. Len(source) \in Nat
      BY <1>2, LenProperties
    <3> QED BY <1>2, <1>3, <3>1 DEF Runs
  <2> QED BY <1>3, <2>1, StackedNil
<1>6. Opens(cs, Len(cs)) = 0 /\ Len(cs) <= CsDepth
  <2>1. {j \in 1..0 : Open(cs[j])} = {}
    OBVIOUS
  <2>2. Len(cs) = 0
    BY <1>3
  <2> QED BY <2>1, <2>2, FS_EmptySet, Bases DEF Opens
<1>7. Fragments \in CacheStacks(V, 0) /\ Naive \in NaiveStacks(V)
  BY <1>2, FragmentsTyped
<1>8. \E l \in {"naive", "fragment"} : Held(l, V, I, st, cs, prog, ip)
  <2>1. CASE st = Naive
    <3>1. PICK l : l = "naive"
      OBVIOUS
    <3>2. st \in Stacks(l, V, 0)
      BY <1>7, <2>1, <3>1 DEF Stacks
    <3>3. Good(l, V, I, st, cs, prog, ip)
      BY <1>5, <1>6, <3>1, <3>2 DEF Good
    <3>4. Held(l, V, I, st, cs, prog, ip)
      BY <3>3, GoodHeld
    <3> QED BY <3>1, <3>4
  <2>2. CASE st = Fragments
    <3>1. PICK l : l = "fragment"
      OBVIOUS
    <3>2. st \in Stacks(l, V, 0)
      BY <1>7, <2>2, <3>1 DEF Stacks
    <3>3. Good(l, V, I, st, cs, prog, ip)
      BY <1>5, <1>6, <3>1, <3>2 DEF Good
    <3>4. Held(l, V, I, st, cs, prog, ip)
      BY <3>3, GoodHeld
    <3> QED BY <3>1, <3>4
  <2> QED BY <2>1, <2>2 DEF Init
<1> QED BY <1>1, <1>4, <1>8 DEF InStep

LEMMA StaysInStep ==
  ASSUME NEW U, NEW I, World(U, I), InStep(U, I), [Next]_vars
  PROVE  InStep(U, I)'
<1>1. PICK n \in Nat :
        /\ n = Len(arrays) /\ arrays \in Seq(Seq(U[n]))
        /\ \E l \in {"naive", "fragment"} : Held(l, U[n], I, st, cs, prog, ip)
  BY DEF InStep
<1>2. PICK l \in {"naive", "fragment"} : Held(l, U[n], I, st, cs, prog, ip)
  BY <1>1
<1>3. CASE UNCHANGED vars
  <2>1. arrays' = arrays /\ st' = st /\ cs' = cs /\ prog' = prog /\ ip' = ip
    BY <1>3 DEF vars
  <2>2. Held(l, U[n], I, st', cs', prog', ip')
    BY <1>2, <2>1
  <2> QED BY <1>1, <1>2, <2>1, <2>2 DEF InStep
<1>4. CASE Step \/ Unknown
  <2>1. Going(l, U[n], n, I)
    <3>1. Fine(st) /\ ~Done
      BY <1>4, StepsGoOn
    <3>2. Good(l, U[n], I, st, cs, prog, ip)
      BY <1>2, <3>1 DEF Held, Done
    <3> QED BY <3>1, <3>2 DEF Going, World
  <2>2. CASE Prim
    <3>1. PICK m \in Nat : /\ m = Len(arrays') /\ arrays' \in Seq(Seq(U[m]))
                           /\ Held(l, U[m], I, st', cs', prog', ip')
      BY <1>1, <2>1, <2>2, PrimHeld
    <3> QED BY <1>2, <3>1 DEF InStep
  <2>3. CASE ~Prim
    <3>1. PICK V : V = U[n]
      OBVIOUS
    <3>2. Going(l, V, n, I)
      BY <2>1, <3>1
    <3>3. \A w \in DOMAIN Dict : Dict[w] \in Seq(I)
      BY DEF World
    <3>4. Held(l, V, I, st', cs', prog', ip')
      BY <1>4, <2>3, <3>2, <3>3, StepHeld
    <3>5. arrays' = arrays
      BY <1>4, <2>3, ArraysStay
    <3>6. Held(l, U[n], I, st', cs', prog', ip')
      BY <3>1, <3>4
    <3> QED BY <1>1, <1>2, <3>5, <3>6 DEF InStep
  <2> QED BY <2>2, <2>3
<1> QED BY <1>3, <1>4 DEF Next

\* What the invariant says of the pointers: they lie in their arrays, and a cell
\* with an integer has no object.
LEMMA InStepTyped ==
  ASSUME NEW U, NEW I, World(U, I), InStep(U, I)
  PROVE  TypeOK
<1>1. PICK n \in Nat, l \in {"naive", "fragment"} :
        Held(l, U[n], I, st, cs, prog, ip)
  BY DEF InStep
<1>2. PICK V : V = U[n] /\ Values(V, n, I)
  BY DEF World
<1>3. PICK f \in Nat : st \in Stacks(l, V, f)
  BY <1>1, <1>2 DEF Held
<1>4. Len(cs) <= CsDepth /\ (prog = Nowhere \/ ip \in 0..Len(prog))
  BY <1>1 DEF Held
<1>5. ASSUME ~IsNaive(st)
      PROVE  /\ st.d \in 0..ActiveMax /\ st.sp \in 0..SpillSize /\ st.frag \in Nat
             /\ \A c \in {st.t0, st.t1} \cup {st.frame[k] : k \in DOMAIN st.frame} :
                  c.t = "int" => c.o = None
  <2>1. st \in CacheStacks(V, f)
    <3>1. l # "naive"
      BY <1>3, <1>5, NaiveFields DEF Stacks
    <3> QED BY <1>3, <3>1 DEF Stacks
  <2>2. /\ st.frag = f /\ st.t0 \in Cells(V) /\ st.t1 \in Cells(V)
        /\ st.d \in 0..ActiveMax /\ st.sp \in 0..SpillSize
        /\ st.frame \in [Frame0 -> Cells(V)]
    BY <2>1, CacheFields
  <2>3. \A k \in DOMAIN st.frame : st.frame[k] \in Cells(V)
    BY <2>2
  <2>4. \A c \in Cells(V) : c.t = "int" => c.o = None
    BY <1>2, CellTyped
  <2> QED BY <2>2, <2>3, <2>4
<1> QED BY <1>4, <1>5 DEF TypeOK

\* There is a fragment for each frame that runs a program.
LEMMA InStepPaired ==
  ASSUME NEW U, NEW I, InStep(U, I)
  PROVE  FragmentsPaired
<1>1. PICK n \in Nat, l \in {"naive", "fragment"} :
        Held(l, U[n], I, st, cs, prog, ip)
  BY DEF InStep
<1>2. PICK V : V = U[n]
  OBVIOUS
<1>3. SUFFICES ASSUME Fine(st), ~IsNaive(st)
               PROVE  st.frag = Cardinality({k \in DOMAIN cs : Open(cs[k])})
  BY DEF FragmentsPaired
<1>4. l # "naive"
  <2>1. PICK f \in Nat : st \in Stacks(l, V, f)
    BY <1>1, <1>2 DEF Held
  <2> QED BY <1>3, <2>1, NaiveFields DEF Stacks
<1>5. CASE Good(l, V, I, st, cs, prog, ip)
  <2>1. st \in CacheStacks(V, Opens(cs, Len(cs))) /\ cs \in Seq(Frames(l, V, I))
    BY <1>4, <1>5 DEF Good, Stacks, Stacked
  <2>2. st.frag = Opens(cs, Len(cs))
    BY <2>1, CacheFields
  <2>3. DOMAIN cs = 1..Len(cs)
    BY <2>1, LenProperties
  <2> QED BY <2>2, <2>3 DEF Opens
<1>6. CASE cs = <<>> /\ st \in Stacks(l, V, 0)
  <2>1. st.frag = 0
    BY <1>4, <1>6, CacheFields DEF Stacks
  <2>2. {k \in DOMAIN cs : Open(cs[k])} = {}
    BY <1>6
  <2> QED BY <2>1, <2>2, FS_EmptySet
<1> QED BY <1>1, <1>2, <1>3, <1>5, <1>6 DEF Held

LEMMA AlwaysInStep ==
  ASSUME NEW U, NEW I, World(U, I)
  PROVE  Spec => []InStep(U, I)
<1>1. Init => InStep(U, I)
  BY StartsInStep
<1>2. InStep(U, I) /\ [Next]_vars => InStep(U, I)'
  BY StaysInStep
<1> QED BY <1>1, <1>2, PTL DEF Spec

\* The pointers of the interpreter stay in their arrays, whatever the sizes of
\* these and whatever is run: an overflow is found before it is written, every ip
\* lies in its program or names a frame, and no cell has both an integer and an
\* object.
THEOREM FactorTyped ==
  ASSUME NEW U, NEW I, World(U, I)
  PROVE  Spec => []TypeOK
<1>1. InStep(U, I) => TypeOK
  BY InStepTyped
<1> QED BY <1>1, AlwaysInStep, PTL

\* push_fragment and pop_fragment_commit are paired across every combinator: the
\* fragments are as many as the frames that run a program, through early exits,
\* tail calls, restored snapshots and the children of linrec, binrec and primrec.
THEOREM FragmentsArePaired ==
  ASSUME NEW U, NEW I, World(U, I)
  PROVE  Spec => []FragmentsPaired
<1>1. InStep(U, I) => FragmentsPaired
  BY InStepPaired
<1> QED BY <1>1, AlwaysInStep, PTL

=============================================================================
