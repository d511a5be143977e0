------------------------- MODULE MetaStackNProofs -------------------------
(***************************************************************************)
(* Proofs about MetaStackN, for every number of scalar tops, frame, spill  *)
(* and call window: the frame-only layout is NTOP = 0.                     *)
(*                                                                         *)
(* The types hold for every snapshot.  The refinement needs a snapshot of  *)
(* all the tops, as catch_push_frame takes it (SnapTops = NTOP).           *)
(***************************************************************************)
EXTENDS MetaStackN, SequenceTheorems, WellFoundedInduction, TLAPS

CacheType ==
  [tops : [Tops -> Value], frame : [Slots -> Value], cache_depth : 0..ActiveMax]

SnapType ==
  [tops : [0..(SnapTops - 1) -> Value], frame : [Slots -> Value],
   cache_depth : 0..ActiveMax, spill_ptr : 0..SpillSize,
   saved : Seq(Value), low : Nat]

Typed == TypeOK /\ snaps \in Seq(SnapType)

\* What is a number, and how many cells there are.
LEMMA Numbers ==
  /\ NTOP \in Nat /\ FrameSize \in Nat \ {0} /\ SpillSize \in Nat /\ CallWindow \in Nat
  /\ ActiveMax \in Nat /\ ActiveMax = NTOP + FrameSize /\ CallWindow <= ActiveMax
  /\ CatchDepth \in Nat /\ SnapTops \in 0..NTOP /\ Zero \in Value
BY LayoutAssumption DEF ActiveMax
USE Numbers

-----------------------------------------------------------------------------
(* The cells                                                               *)

\* Every cached cell is a value.
LEMMA CachedType ==
  ASSUME NEW c \in CacheType, NEW d \in 0..(c.cache_depth - 1)
  PROVE  CachedAt(c, d) \in Value
<1>1. c.tops \in [Tops -> Value] /\ c.frame \in [Slots -> Value] /\ c.cache_depth \in 0..ActiveMax
  BY DEF CacheType
<1>2. CASE d < NTOP
  BY <1>1, <1>2 DEF CachedAt, Tops
<1>3. CASE d >= NTOP
  <2>1. c.cache_depth - 1 - d \in Slots
    BY <1>1, <1>3 DEF Slots
  <2> QED BY <1>1, <1>3, <2>1 DEF CachedAt
<1> QED BY <1>1, <1>2, <1>3

\* Cell number i, from the bottom, of depth cells: p in the spill, the rest in c.
CellIn(c, depth, cells, p, i) == IF i <= p THEN cells[i - 1] ELSE CachedAt(c, depth - i)
Cell(i) == CellIn(Cache, Depth, spill, spill_ptr, i)

\* The stack a program sees is a sequence of values, bottom first.
LEMMA StackType ==
  ASSUME TypeOK
  PROVE  /\ Stack \in Seq(Value) /\ Len(Stack) = Depth /\ Depth \in Nat
         /\ Cache \in CacheType
         /\ \A i \in 1..Depth : Stack[i] = Cell(i)
<1>1. Cache \in CacheType
  BY DEF TypeOK, Cache, CacheType
<1>2. Depth \in Nat /\ Depth = cache_depth + spill_ptr /\ cache_depth \in Nat
      /\ spill_ptr \in 0..SpillSize
  BY DEF TypeOK, Depth
<1>3. ASSUME NEW i \in 1..Depth PROVE Cell(i) \in Value
  <2>1. CASE i <= spill_ptr
    BY <1>2, <2>1 DEF TypeOK, Cell, CellIn, Cells
  <2>2. CASE i > spill_ptr
    <3>1. Depth - i \in 0..(Cache.cache_depth - 1)
      BY <1>2, <2>2 DEF Cache
    <3> QED BY <1>1, <1>2, <2>2, <3>1, CachedType DEF Cell, CellIn
  <2> QED BY <1>2, <2>1, <2>2
<1>4. Stack = [i \in 1..Depth |-> Cell(i)]
  BY DEF Stack, Cell, CellIn
<1>5. Stack \in [1..Depth -> Value]
  BY <1>3, <1>4
<1>6. Stack \in Seq(Value)
  BY <1>2, <1>5, SeqDef
<1>7. Len(Stack) = Depth
  BY <1>2, <1>5, <1>6, LenProperties
<1> QED BY <1>1, <1>2, <1>4, <1>6, <1>7

-----------------------------------------------------------------------------
(* Parking                                                                 *)

\* _park_one takes the deepest cell and leaves the others what they are.
LEMMA ParkOneKeeps ==
  ASSUME NEW c \in CacheType, c.cache_depth > 0
  PROVE  /\ ParkOne(c) \in CacheType
         /\ ParkOne(c).cache_depth = c.cache_depth - 1
         /\ \A d \in 0..(c.cache_depth - 2) : CachedAt(ParkOne(c), d) = CachedAt(c, d)
<1>1. c.tops \in [Tops -> Value] /\ c.frame \in [Slots -> Value] /\ c.cache_depth \in 0..ActiveMax
  BY DEF CacheType
<1>2. CASE c.cache_depth > NTOP
  <2> DEFINE f == ShiftedFrame(c.frame)
             p == ParkOne(c)
             g == IF NTOP = 0 THEN f
                  ELSE [f EXCEPT ![c.cache_depth - NTOP - 1] = c.tops[NTOP - 1]]
  <2>1. f \in [Slots -> Value]
    BY <1>1 DEF ShiftedFrame, Slots
  <2>2. \A i \in Slots : i < FrameSize - 1 => f[i] = c.frame[i + 1]
    BY DEF ShiftedFrame
  <2>3. NTOP # 0 => c.tops[NTOP - 1] \in Value
    BY <1>1 DEF Tops
  <2>4. p = [tops |-> c.tops, cache_depth |-> c.cache_depth - 1, frame |-> g]
    BY <1>2 DEF ParkOne
  <2> HIDE DEF f
  <2>5. g \in [Slots -> Value]
    BY <2>1, <2>3
  <2>6. \A i \in Slots : i # c.cache_depth - NTOP - 1 => g[i] = f[i]
    BY <2>1
  <2> HIDE DEF g, p
  <2>7. /\ p \in CacheType /\ p.cache_depth = c.cache_depth - 1
        /\ p.tops = c.tops /\ p.frame = g
    BY <1>1, <1>2, <2>4, <2>5 DEF CacheType
  <2>8. ASSUME NEW d \in 0..(c.cache_depth - 2)
        PROVE  CachedAt(p, d) = CachedAt(c, d)
    <3>1. CASE d < NTOP
      BY <2>7, <3>1 DEF CachedAt
    <3>2. CASE d >= NTOP
      <4> DEFINE i == c.cache_depth - 2 - d
      <4>1. /\ i \in Slots /\ i < FrameSize - 1 /\ i # c.cache_depth - NTOP - 1
            /\ i + 1 = c.cache_depth - 1 - d /\ (c.cache_depth - 1) - 1 - d = i
        BY <1>1, <3>2 DEF Slots
      <4> HIDE DEF i
      <4>2. g[i] = c.frame[i + 1]
        BY <2>2, <2>6, <4>1
      <4>3. CachedAt(p, d) = g[i]
        BY <1>1, <2>7, <3>2, <4>1 DEF CachedAt
      <4>4. CachedAt(c, d) = c.frame[i + 1]
        BY <1>1, <3>2, <4>1 DEF CachedAt
      <4> QED BY <4>2, <4>3, <4>4
    <3> QED BY <1>1, <3>1, <3>2
  <2> QED BY <2>7, <2>8 DEF p
<1>3. CASE c.cache_depth <= NTOP
  <2>1. ParkOne(c) = [c EXCEPT !.cache_depth = c.cache_depth - 1]
    BY <1>1, <1>3 DEF ParkOne
  <2>2. /\ ParkOne(c) \in CacheType /\ ParkOne(c).cache_depth = c.cache_depth - 1
        /\ ParkOne(c).tops = c.tops
    BY <1>1, <2>1 DEF CacheType
  <2> QED BY <1>1, <1>3, <2>2 DEF CachedAt
<1> QED BY <1>1, <1>2, <1>3

\* A set of naturals with an element has a least one.
LEMMA LeastNatural ==
  ASSUME NEW S \in SUBSET Nat, S # {}
  PROVE  \E m \in S : \A k \in S : m <= k
<1>1. PICK m \in S : \A k \in S : ~ (<<k, m>> \in OpToRel(<, Nat))
  BY NatLessThanWellFounded, WFMin
<1>2. \A k \in S : ~ (k < m)
  BY <1>1 DEF OpToRel
<1> QED BY <1>2

\* The caches on the way, each the last one with a cell parked.
Parking(f, n) == f = [k \in 0..n |-> IF k = 0 THEN Cache ELSE ParkOne(f[k - 1])]

\* There are such caches, however many cells are parked.
LEMMA ParkingExists == ASSUME NEW n \in Nat PROVE \E f : Parking(f, n)
<1> DEFINE bad == {m \in Nat : ~ \E f : Parking(f, m)}
<1> SUFFICES ASSUME bad # {} PROVE FALSE
  OBVIOUS
<1>1. PICK m \in bad : \A k \in bad : m <= k
  BY LeastNatural
<1>2. m # 0
  <2>1. Parking([k \in 0..0 |-> Cache], 0)
    BY DEF Parking
  <2> QED BY <2>1
<1>3. PICK f : Parking(f, m - 1)
  <2>1. m - 1 \in Nat /\ m - 1 \notin bad
    BY <1>1, <1>2
  <2> QED BY <2>1
<1> DEFINE g == [k \in 0..m |-> IF k = m THEN ParkOne(f[m - 1]) ELSE f[k]]
<1>4. ASSUME NEW k \in 0..m
      PROVE  g[k] = IF k = 0 THEN Cache ELSE ParkOne(g[k - 1])
  <2>1. CASE k = m
    <3>1. g[k] = ParkOne(f[m - 1]) /\ g[k - 1] = f[m - 1]
      BY <1>1, <1>2, <2>1
    <3> QED BY <1>2, <2>1, <3>1
  <2>2. CASE k # m
    <3>1. k \in 0..(m - 1) /\ g[k] = f[k]
      BY <1>1, <2>2
    <3>2. f[k] = IF k = 0 THEN Cache ELSE ParkOne(f[k - 1])
      BY <1>3, <3>1 DEF Parking
    <3>3. k # 0 => g[k - 1] = f[k - 1]
      BY <1>1, <3>1
    <3> QED BY <3>1, <3>2, <3>3
  <2> QED BY <2>1, <2>2
<1>5. Parking(g, m)
  BY <1>4 DEF Parking
<1> QED BY <1>5

\* What is left of the cache once its k deepest cells have been parked.
Left(c, k) ==
  /\ c \in CacheType /\ c.cache_depth = cache_depth - k
  /\ \A d \in 0..(cache_depth - k - 1) : CachedAt(c, d) = CachedAt(Cache, d)

\* Each cell parked leaves the others what they are.
LEMMA ParkingKeeps ==
  ASSUME TypeOK, NEW n \in 0..cache_depth, NEW f, Parking(f, n), NEW k \in 0..n
  PROVE  Left(f[k], k)
<1> DEFINE bad == {m \in 0..n : ~ Left(f[m], m)}
<1> SUFFICES ASSUME bad # {} PROVE FALSE
  OBVIOUS
<1>1. PICK m \in bad : \A i \in bad : m <= i
  <2>1. bad \in SUBSET Nat
    OBVIOUS
  <2> QED BY <2>1, LeastNatural
<1>2. cache_depth \in Nat /\ n \in Nat /\ m \in 0..n
  BY <1>1 DEF TypeOK
<1>3. f[m] = IF m = 0 THEN Cache ELSE ParkOne(f[m - 1])
  BY <1>2 DEF Parking
<1>4. CASE m = 0
  <2>1. Left(Cache, 0)
    BY StackType DEF Left, Cache, TypeOK
  <2> QED BY <1>1, <1>3, <1>4, <2>1
<1>5. CASE m > 0
  <2>1. m - 1 \in 0..n /\ m - 1 \notin bad
    BY <1>1, <1>2, <1>5
  <2>2. Left(f[m - 1], m - 1)
    BY <2>1
  <2> DEFINE c == f[m - 1]
  <2>3. /\ c \in CacheType /\ c.cache_depth = cache_depth - m + 1 /\ c.cache_depth > 0
        /\ \A d \in 0..(cache_depth - m) : CachedAt(c, d) = CachedAt(Cache, d)
    BY <1>2, <1>5, <2>2 DEF Left
  <2>4. f[m] = ParkOne(c)
    BY <1>3, <1>5
  <2> HIDE DEF c
  <2>5. /\ ParkOne(c) \in CacheType /\ ParkOne(c).cache_depth = cache_depth - m
        /\ \A d \in 0..(cache_depth - m - 1) : CachedAt(ParkOne(c), d) = CachedAt(c, d)
    BY <1>2, <2>3, ParkOneKeeps
  <2>6. Left(ParkOne(c), m)
    BY <1>2, <2>3, <2>5 DEF Left
  <2> QED BY <1>1, <2>4, <2>6
<1> QED BY <1>2, <1>4, <1>5

\* push_fragment_on's loop leaves the top cells of the cache.
LEMMA ParkingLeaves ==
  ASSUME TypeOK, NEW n \in 0..cache_depth
  PROVE  Left(AfterParking(n), n)
<1> DEFINE after == CHOOSE f : f = [k \in 0..n |-> IF k = 0 THEN Cache ELSE ParkOne(f[k - 1])]
<1>1. n \in Nat
  BY DEF TypeOK
<1>2. Parking(after, n)
  BY <1>1, ParkingExists DEF Parking
<1>3. AfterParking(n) = after[n]
  BY DEF AfterParking
<1> QED BY <1>1, <1>2, <1>3, ParkingKeeps

-----------------------------------------------------------------------------
(* Types                                                                   *)

\* A step that cuts the stack to k notes it in every live snapshot.
LEMMA TouchedFacts ==
  ASSUME NEW k \in Nat, snaps \in Seq(SnapType), Touched(k)
  PROVE  /\ snaps' \in Seq(SnapType) /\ Len(snaps') = Len(snaps) /\ Len(snaps) \in Nat
         /\ \A n \in 1..Len(snaps) : /\ snaps[n] \in SnapType
                                     /\ snaps'[n] = [snaps[n] EXCEPT !.low = Least(@, k)]
<1> DEFINE l == Len(snaps)
           e(n) == [snaps[n] EXCEPT !.low = Least(@, k)]
<1>1. l \in Nat /\ DOMAIN snaps = 1..l /\ \A n \in 1..l : snaps[n] \in SnapType
  BY LenProperties, ElementOfSeq
<1>2. \A n \in 1..l : e(n) \in SnapType
  <2> SUFFICES ASSUME NEW s \in SnapType PROVE [s EXCEPT !.low = Least(@, k)] \in SnapType
    BY <1>1
  <2>1. Least(s.low, k) \in Nat
    BY DEF SnapType, Least
  <2> QED BY <2>1 DEF SnapType
<1>3. snaps' = [n \in 1..l |-> e(n)]
  BY <1>1 DEF Touched
<1> HIDE DEF e, l
<1>4. snaps' \in [1..l -> SnapType] /\ \A n \in 1..l : snaps'[n] = e(n)
  BY <1>2, <1>3
<1>5. snaps' \in Seq(SnapType)
  BY <1>1, <1>4, SeqDef
<1>6. Len(snaps') = l
  BY <1>1, <1>4, <1>5, LenProperties
<1> QED BY <1>1, <1>4, <1>5, <1>6 DEF e, l

\* Dropping the innermost snapshot leaves the others as they were.
LEMMA DropFacts ==
  ASSUME snaps \in Seq(SnapType), snaps # <<>>, DropInnermost
  PROVE  /\ snaps' \in Seq(SnapType) /\ Len(snaps') = Len(snaps) - 1
         /\ \A n \in 1..(Len(snaps) - 1) : snaps'[n] = snaps[n]
         /\ Len(snaps) \in Nat \ {0} /\ snaps[Len(snaps)] \in SnapType
<1> DEFINE m == Len(snaps) - 1
<1>1. Len(snaps) \in Nat \ {0} /\ \A n \in 1..Len(snaps) : snaps[n] \in SnapType
  BY EmptySeq, ElementOfSeq
<1>2. m \in Nat /\ \A n \in 1..m : snaps[n] \in SnapType
  BY <1>1
<1>3. snaps' = SubSeq(snaps, 1, m)
  BY DEF DropInnermost
<1>4. Len(snaps) \in 1..Len(snaps)
  BY <1>1
<1> HIDE DEF m
<1>5. /\ SubSeq(snaps, 1, m) \in Seq(SnapType)
      /\ Len(SubSeq(snaps, 1, m)) = IF 1 <= m THEN m - 1 + 1 ELSE 0
      /\ \A i \in 1..(m - 1 + 1) : SubSeq(snaps, 1, m)[i] = snaps[1 + i - 1]
  BY <1>2, SubSeqProperties
<1>6. m - 1 + 1 = m /\ \A i \in 1..m : 1 + i - 1 = i
  BY <1>2
<1>7. Len(snaps') = m /\ \A i \in 1..m : snaps'[i] = snaps[i]
  BY <1>2, <1>3, <1>5, <1>6
<1> QED BY <1>1, <1>3, <1>4, <1>5, <1>7 DEF m

\* What a frame is after a push has sunk a cell into it.
LEMMA SinksType ==
  ASSUME TypeOK, NEW f \in [Slots -> Value], NEW dd \in Nat, NEW v \in Value
  PROVE  /\ ShiftedFrame(f) \in [Slots -> Value]
         /\ SinksInto(f, dd, v) \in [Slots -> Value]
         /\ PushTop(v) \in [Tops -> Value]
<1>1. ShiftedFrame(f) \in [Slots -> Value]
  BY DEF ShiftedFrame, Slots
<1>2. SinksInto(f, dd, v) \in [Slots -> Value]
  <2>1. NTOP # 0 => tops[NTOP - 1] \in Value
    BY DEF TypeOK, Tops
  <2> QED BY <2>1 DEF SinksInto
<1>3. PushTop(v) \in [Tops -> Value]
  BY DEF PushTop, TypeOK, Tops
<1> QED BY <1>1, <1>2, <1>3

\* _push
LEMMA PushTyped == ASSUME Typed, NEW v \in Value, Push(v) PROVE Typed'
<1>1. TypeOK /\ ActiveMax \in Nat \ {0}
  BY DEF Typed
<1>2. /\ tops' \in [Tops -> Value] /\ snaps' = snaps /\ out' = None
  BY <1>1, SinksType DEF Push, TypeOK
<1>3. CASE cache_depth < ActiveMax
  <2>1. frame' = SinksInto(frame, cache_depth, v) /\ cache_depth' = cache_depth + 1
        /\ spill' = spill /\ spill_ptr' = spill_ptr
    BY <1>1, <1>3 DEF Push, TypeOK
  <2>2. frame' \in [Slots -> Value]
    <3>1. frame \in [Slots -> Value] /\ cache_depth \in Nat
      BY <1>1 DEF TypeOK
    <3>2. SinksInto(frame, cache_depth, v) \in [Slots -> Value]
      BY <1>1, <3>1, SinksType
    <3> QED BY <2>1, <3>2
  <2> QED BY <1>2, <1>3, <2>1, <2>2 DEF Typed, TypeOK
<1>4. CASE cache_depth >= ActiveMax
  <2>1. /\ spill_ptr < SpillSize /\ spill' = [spill EXCEPT ![spill_ptr] = frame[0]]
        /\ spill_ptr' = spill_ptr + 1 /\ cache_depth' = cache_depth
        /\ frame' = SinksInto(ShiftedFrame(frame), cache_depth - 1, v)
    BY <1>1, <1>4 DEF Push, TypeOK
  <2>2. cache_depth - 1 \in Nat /\ frame[0] \in Value
    BY <1>1, <1>4 DEF TypeOK, Slots
  <2>3. ShiftedFrame(frame) \in [Slots -> Value]
    BY <1>1, SinksType DEF TypeOK
  <2>4. frame' \in [Slots -> Value]
    <3> DEFINE f == ShiftedFrame(frame)
               dd == cache_depth - 1
    <3>1. f \in [Slots -> Value] /\ dd \in Nat /\ frame' = SinksInto(f, dd, v)
      BY <2>1, <2>2, <2>3
    <3> HIDE DEF f, dd
    <3>2. SinksInto(f, dd, v) \in [Slots -> Value]
      BY <1>1, <3>1, SinksType
    <3> QED BY <3>1, <3>2
  <2>5. spill' \in [Cells -> Value] /\ spill_ptr' \in 0..SpillSize
    <3>1. spill \in [Cells -> Value] /\ spill_ptr \in 0..SpillSize
      BY <1>1 DEF TypeOK
    <3>2. [spill EXCEPT ![spill_ptr] = frame[0]] \in [Cells -> Value]
      BY <2>2, <3>1
    <3>3. spill' \in [Cells -> Value]
      BY <2>1, <3>2
    <3>4. spill_ptr' \in 0..SpillSize
      BY <2>1, <3>1
    <3> QED BY <3>3, <3>4
  <2> QED BY <1>1, <1>2, <2>1, <2>4, <2>5 DEF Typed, TypeOK
<1> QED BY <1>1, <1>3, <1>4 DEF TypeOK

\* _pop
LEMMA PopTyped == ASSUME Typed, Pop PROVE Typed' /\ Depth - 1 \in Nat
<1>1. TypeOK /\ cache_depth \in Nat /\ spill_ptr \in Nat
  BY DEF Typed, TypeOK
<1>2. Depth - 1 \in Nat
  BY <1>1 DEF Pop, Depth
<1>3. snaps' \in Seq(SnapType)
  BY <1>2, TouchedFacts DEF Typed, Pop
<1>4. CASE cache_depth > 0
  <2>1. out' = CachedAt(Cache, 0) /\ cache_depth' = cache_depth - 1 /\ spill_ptr' = spill_ptr
        /\ frame' = frame /\ spill' = spill
    BY <1>1, <1>4 DEF Pop
  <2>2. out' \in Value
    <3>1. Cache \in CacheType /\ 0 \in 0..(Cache.cache_depth - 1)
      BY <1>1, <1>4, StackType DEF Cache
    <3> QED BY <2>1, <3>1, CachedType
  <2>3. tops' \in [Tops -> Value]
    <3> DEFINE r == IF cache_depth > NTOP THEN frame[cache_depth - NTOP - 1] ELSE Zero
    <3>1. tops' = PopTop(r)
      BY <1>1, <1>4 DEF Pop
    <3>2. r \in Value
      BY <1>1 DEF TypeOK, Slots
    <3> HIDE DEF r
    <3> QED BY <1>1, <3>1, <3>2 DEF PopTop, TypeOK, Tops
  <2> QED BY <1>1, <1>2, <1>3, <1>4, <2>1, <2>2, <2>3 DEF Typed, TypeOK
<1>5. CASE cache_depth <= 0
  <2>1. /\ spill_ptr > 0 /\ out' = spill[spill_ptr - 1] /\ spill_ptr' = spill_ptr - 1
        /\ tops' = tops /\ cache_depth' = cache_depth /\ frame' = frame /\ spill' = spill
    BY <1>1, <1>5 DEF Pop
  <2>2. out' \in Value /\ spill_ptr' \in 0..SpillSize
    BY <1>1, <2>1 DEF TypeOK, Cells
  <2> QED BY <1>1, <1>2, <1>3, <2>1, <2>2 DEF Typed, TypeOK
<1> QED BY <1>1, <1>4, <1>5

\* poke_on
LEMMA PokeTyped ==
  ASSUME Typed, NEW d \in 0..(Depth - 1), NEW v \in Value, Poke(d, v)
  PROVE  Typed' /\ Depth - d - 1 \in Nat
<1>1. TypeOK /\ Depth \in Nat /\ d \in Nat /\ d < Depth
  BY StackType DEF Typed
<1>2. Depth - d - 1 \in Nat
  BY <1>1
<1>3. snaps' \in Seq(SnapType)
  BY <1>2, TouchedFacts DEF Typed, Poke
<1>4. /\ tops' \in [Tops -> Value] /\ frame' \in [Slots -> Value] /\ spill' \in [Cells -> Value]
  BY <1>1 DEF Poke, TypeOK
<1> QED BY <1>1, <1>2, <1>3, <1>4 DEF Typed, TypeOK, Poke

\* peek_on
LEMMA PeekType == ASSUME TypeOK, NEW d \in 0..(Depth - 1), Peek(d) PROVE out' \in Value
<1>1. Depth \in Nat /\ Cache \in CacheType /\ d \in Nat /\ d < Depth
  BY StackType
<1>2. CASE d < cache_depth
  <2>1. d \in 0..(Cache.cache_depth - 1)
    BY <1>1, <1>2 DEF Cache, TypeOK
  <2> QED BY <1>1, <1>2, <2>1, CachedType DEF Peek
<1>3. CASE d >= cache_depth
  <2>1. SpillIndex(d) \in Cells
    BY <1>1, <1>3 DEF SpillIndex, Depth, TypeOK, Cells
  <2> QED BY <1>1, <1>3, <2>1 DEF Peek, TypeOK
<1> QED BY <1>1, <1>2, <1>3 DEF TypeOK

\* Cells are parked on top of the spill, deepest first.
LEMMA ParkFacts ==
  ASSUME TypeOK, NEW n \in 0..cache_depth, spill_ptr + n <= SpillSize, Park(n)
  PROVE  /\ Cache' \in CacheType /\ cache_depth' = cache_depth - n
         /\ \A d \in 0..(cache_depth - n - 1) : CachedAt(Cache', d) = CachedAt(Cache, d)
         /\ spill' \in [Cells -> Value] /\ spill_ptr' = spill_ptr + n /\ snaps' = snaps
         /\ \A i \in 0..(spill_ptr - 1) : spill'[i] = spill[i]
         /\ \A i \in 0..(n - 1) : spill'[spill_ptr + i] = CachedAt(Cache, cache_depth - 1 - i)
<1> DEFINE c == AfterParking(n)
<1>1. Left(c, n)
  BY ParkingLeaves
<1>2. /\ tops' = c.tops /\ frame' = c.frame /\ cache_depth' = c.cache_depth
      /\ spill_ptr' = spill_ptr + n /\ snaps' = snaps
  BY DEF Park
<1>3. cache_depth \in Nat /\ n \in Nat /\ n <= cache_depth /\ spill_ptr \in Nat
  BY DEF TypeOK
<1> HIDE DEF c
<1>4. c \in CacheType /\ c.cache_depth = cache_depth - n
      /\ \A d \in 0..(cache_depth - n - 1) : CachedAt(c, d) = CachedAt(Cache, d)
  BY <1>1 DEF Left
<1>5. Cache' \in CacheType
  BY <1>2, <1>4 DEF Cache, CacheType
<1>6. \A d : CachedAt(Cache', d) = CachedAt(c, d)
  BY <1>2 DEF CachedAt, Cache
<1>7. ASSUME NEW i \in 0..(n - 1) PROVE CachedAt(Cache, cache_depth - 1 - i) \in Value
  <2>1. Cache \in CacheType /\ cache_depth - 1 - i \in 0..(Cache.cache_depth - 1)
    BY <1>3, StackType DEF Cache
  <2> QED BY <2>1, CachedType
<1>8. spill' = [i \in Cells |-> IF i \in spill_ptr..(spill_ptr + n - 1)
                                THEN CachedAt(Cache, cache_depth - 1 - (i - spill_ptr))
                                ELSE spill[i]]
  BY DEF Park
<1>9. spill' \in [Cells -> Value]
  <2>1. ASSUME NEW i \in Cells, i \in spill_ptr..(spill_ptr + n - 1)
        PROVE  CachedAt(Cache, cache_depth - 1 - (i - spill_ptr)) \in Value
    <3>1. i - spill_ptr \in 0..(n - 1)
      BY <1>3, <2>1
    <3> QED BY <1>7, <3>1
  <2> QED BY <1>8, <2>1 DEF TypeOK
<1>10. ASSUME NEW i \in 0..(spill_ptr - 1) PROVE spill'[i] = spill[i]
  <2>1. i \in Cells /\ i \notin spill_ptr..(spill_ptr + n - 1)
    BY <1>3 DEF Cells
  <2> QED BY <1>8, <2>1
<1>11. ASSUME NEW i \in 0..(n - 1)
       PROVE  spill'[spill_ptr + i] = CachedAt(Cache, cache_depth - 1 - i)
  <2>1. /\ spill_ptr + i \in Cells /\ spill_ptr + i \in spill_ptr..(spill_ptr + n - 1)
        /\ (spill_ptr + i) - spill_ptr = i
    BY <1>3 DEF Cells
  <2> QED BY <1>8, <2>1
<1> QED BY <1>2, <1>4, <1>5, <1>6, <1>9, <1>10, <1>11

\* push_fragment_on parks what it may, whether or not it overflows on the way.
LEMMA CallParks ==
  ASSUME TypeOK, Call \/ CallOverflow
  PROVE  \E n \in 0..cache_depth : /\ spill_ptr + n <= SpillSize /\ Park(n)
                                   /\ Call => n = ToPark
<1>1. cache_depth \in Nat /\ spill_ptr \in 0..SpillSize /\ ToPark \in 0..cache_depth
  BY DEF TypeOK, ToPark
<1>2. CASE Call
  BY <1>1, <1>2 DEF Call
<1>3. CASE CallOverflow
  <2>1. /\ SpillSize - spill_ptr \in 0..cache_depth /\ Park(SpillSize - spill_ptr)
        /\ ~ Call /\ spill_ptr + (SpillSize - spill_ptr) <= SpillSize
    BY <1>1, <1>3 DEF CallOverflow, Call
  <2> QED BY <2>1
<1> QED BY <1>2, <1>3

\* push_fragment_on
LEMMA CallTyped == ASSUME Typed, Call \/ CallOverflow PROVE Typed'
<1>1. TypeOK /\ snaps \in Seq(SnapType)
  BY DEF Typed
<1>2. PICK n \in 0..cache_depth : spill_ptr + n <= SpillSize /\ Park(n)
  BY <1>1, CallParks
<1>3. /\ Cache' \in CacheType /\ spill' \in [Cells -> Value]
      /\ spill_ptr' = spill_ptr + n /\ snaps' = snaps
  BY <1>1, <1>2, ParkFacts
<1>4. n \in Nat /\ spill_ptr \in Nat
  BY <1>1 DEF TypeOK
<1>5. /\ tops' \in [Tops -> Value] /\ frame' \in [Slots -> Value]
      /\ cache_depth' \in 0..ActiveMax
  BY <1>3 DEF Cache, CacheType
<1>6. spill_ptr' \in 0..SpillSize
  BY <1>2, <1>3, <1>4
<1>7. out' \in {None, Overflow}
  BY DEF Call, CallOverflow
<1> QED BY <1>1, <1>3, <1>5, <1>6, <1>7 DEF Typed, TypeOK

\* reset_on
LEMMA ClearTyped == ASSUME Typed, Clear PROVE Typed'
<1>1. snaps' \in Seq(SnapType)
  BY TouchedFacts DEF Typed, Clear
<1> QED BY <1>1 DEF Typed, TypeOK, Clear

\* What snapshot_cache copies.
Copied ==
  [tops |-> [k \in 0..(SnapTops - 1) |-> tops[k]], frame |-> frame,
   cache_depth |-> cache_depth, spill_ptr |-> spill_ptr, saved |-> Stack, low |-> Depth]

\* A new snapshot lies on top of the live ones.
LEMMA SnapshotFacts ==
  ASSUME Typed, Snapshot
  PROVE  /\ Copied \in SnapType /\ snaps' = Append(snaps, Copied)
         /\ snaps' \in Seq(SnapType) /\ Len(snaps') = Len(snaps) + 1 /\ Len(snaps) \in Nat
         /\ \A n \in 1..Len(snaps) : snaps'[n] = snaps[n]
         /\ snaps'[Len(snaps) + 1] = Copied
<1>1. TypeOK /\ snaps \in Seq(SnapType) /\ Len(snaps) \in Nat
  BY LenProperties DEF Typed
<1>2. Stack \in Seq(Value) /\ Depth \in Nat
  BY <1>1, StackType
<1>3. [k \in 0..(SnapTops - 1) |-> tops[k]] \in [0..(SnapTops - 1) -> Value]
  BY <1>1 DEF TypeOK, Tops
<1>4. Copied \in SnapType
  BY <1>1, <1>2, <1>3 DEF Copied, SnapType, TypeOK
<1>5. snaps' = Append(snaps, Copied)
  BY DEF Snapshot, Copied
<1> QED BY <1>1, <1>4, <1>5, AppendProperties

\* Snapshots are taken, restored and forgotten.
LEMMA SnapshotsTyped == ASSUME Typed, Snapshot \/ Restore \/ Forget PROVE Typed'
<1>1. CASE Snapshot
  <2>1. snaps' \in Seq(SnapType)
    BY <1>1, SnapshotFacts
  <2> QED BY <1>1, <2>1 DEF Typed, TypeOK, Snapshot, stackVars
<1>2. CASE Restore
  <2>1. snaps' \in Seq(SnapType) /\ snaps[Len(snaps)] \in SnapType
    BY <1>2, DropFacts DEF Restore, Typed
  <2> DEFINE s == snaps[Len(snaps)]
  <2>2. /\ tops' = [k \in Tops |-> IF k < SnapTops THEN s.tops[k] ELSE tops[k]]
        /\ frame' = s.frame /\ cache_depth' = s.cache_depth /\ spill_ptr' = s.spill_ptr
        /\ out' = None /\ spill' = spill
    BY <1>2 DEF Restore
  <2> HIDE DEF s
  <2>3. s \in SnapType /\ TypeOK
    BY <2>1 DEF s, Typed
  <2>4. tops' \in [Tops -> Value]
    BY <2>2, <2>3 DEF SnapType, TypeOK, Tops
  <2> QED BY <2>1, <2>2, <2>3, <2>4 DEF Typed, TypeOK, SnapType
<1>3. CASE Forget
  <2>1. snaps' \in Seq(SnapType)
    BY <1>3, DropFacts DEF Forget, Typed
  <2> QED BY <1>3, <2>1 DEF Typed, TypeOK, Forget, stackVars
<1> QED BY <1>1, <1>2, <1>3

\* Operations that change neither the stack nor the snapshots.
LEMMA QuietTyped ==
  ASSUME Typed, UNCHANGED <<stackVars, snaps>>, out' \in Value \cup {None, Overflow}
  PROVE  Typed'
BY DEF Typed, TypeOK, stackVars

\* The stack begins empty, within its arrays.
LEMMA InitTyped == Init => Typed
<1> SUFFICES ASSUME Init PROVE Typed
  OBVIOUS
<1>1. TypeOK
  BY DEF Init, TypeOK, Tops, Slots, Cells
<1> QED BY <1>1 DEF Init, Typed

\* The types are inductive, whatever a snapshot copies of the tops.
LEMMA NextTyped == Typed /\ [Next]_vars => Typed'
<1> SUFFICES ASSUME Typed, [Next]_vars PROVE Typed'
  OBVIOUS
<1>1. ASSUME NEW v \in Value, Push(v) PROVE Typed'
  BY <1>1, PushTyped
<1>2. CASE PushOverflow
  BY <1>2, QuietTyped DEF PushOverflow
<1>3. CASE Pop
  BY <1>3, PopTyped
<1>4. ASSUME NEW d \in 0..(Depth - 1), Peek(d) PROVE Typed'
  <2>1. out' \in Value
    BY <1>4, PeekType DEF Typed
  <2> QED BY <1>4, <2>1, QuietTyped DEF Peek
<1>5. ASSUME NEW d \in 0..(Depth - 1), NEW v \in Value, Poke(d, v) PROVE Typed'
  BY <1>5, PokeTyped
<1>6. CASE Call \/ CallOverflow
  BY <1>6, CallTyped
<1>7. CASE Clear
  BY <1>7, ClearTyped
<1>8. CASE Snapshot \/ Restore \/ Forget
  BY <1>8, SnapshotsTyped
<1>9. CASE UNCHANGED vars
  <2>1. out' \in Value \cup {None, Overflow} /\ UNCHANGED <<stackVars, snaps>>
    BY <1>9 DEF vars, stackVars, Typed, TypeOK
  <2> QED BY <2>1, QuietTyped
<1> QED
  BY <1>1, <1>2, <1>3, <1>4, <1>5, <1>6, <1>7, <1>8, <1>9 DEF Next

\* No index of the n-scalar layouts, nor of the frame-only one, leaves its array,
\* not even _park_one's write-back, whatever is pushed, called and thrown.
THEOREM LayoutTyped == Spec => []TypeOK
<1>1. Typed => TypeOK
  BY DEF Typed
<1> QED BY <1>1, InitTyped, NextTyped, PTL DEF Spec

-----------------------------------------------------------------------------
(* Snapshots                                                               *)

\* A snapshot is the stack it was taken of: its cache holds the cells it copied.
Agrees(s) ==
  /\ Len(s.saved) = s.cache_depth + s.spill_ptr
  /\ s.low <= Len(s.saved)
  /\ \A d \in 0..(s.cache_depth - 1) : s.saved[Len(s.saved) - d] = CachedAt(s, d)

\* How many of the cells a snapshot has not copied are promised to still be there.
Kept(s) == Least(s.low, s.spill_ptr)

\* They are, in a spill of p cells.
RestsOn(s, cells, p) ==
  Kept(s) <= p /\ \A i \in 0..(Kept(s) - 1) : cells[i] = s.saved[i + 1]

Faithful == \A n \in 1..Len(snaps) : Agrees(snaps[n])
Undisturbed == \A n \in 1..Len(snaps) : RestsOn(snaps[n], spill, spill_ptr)
\* Restoring an inner snapshot leaves an outer one restorable.
Nested == \A m, n \in 1..Len(snaps) : m < n => Kept(snaps[m]) <= snaps[n].spill_ptr

SnapInv == Faithful /\ Undisturbed /\ Nested
IInv == Typed /\ SnapInv

\* A snapshot's fields.
LEMMA SnapFields ==
  ASSUME NEW s \in SnapType
  PROVE  /\ s.low \in Nat /\ s.spill_ptr \in Nat /\ s.spill_ptr \in 0..SpillSize
         /\ s.cache_depth \in 0..ActiveMax /\ s.cache_depth \in Nat
         /\ s.saved \in Seq(Value) /\ Len(s.saved) \in Nat /\ Kept(s) \in Nat
         /\ s.frame \in [Slots -> Value] /\ s.tops \in [0..(SnapTops - 1) -> Value]
<1>1. /\ s.low \in Nat /\ s.spill_ptr \in 0..SpillSize /\ s.cache_depth \in 0..ActiveMax
      /\ s.saved \in Seq(Value)
      /\ s.frame \in [Slots -> Value] /\ s.tops \in [0..(SnapTops - 1) -> Value]
  BY DEF SnapType
<1>2. Len(s.saved) \in Nat
  BY <1>1, LenProperties
<1> QED BY <1>1, <1>2 DEF Kept, Least

\* A snapshot that learns of a cut at k relies on less, and is what it was.
LEMMA LoweredSnap ==
  ASSUME NEW s \in SnapType, NEW k \in Nat, NEW t, t = [s EXCEPT !.low = Least(@, k)]
  PROVE  /\ t \in SnapType /\ Kept(t) = Least(Kept(s), k)
         /\ t.saved = s.saved /\ t.spill_ptr = s.spill_ptr /\ t.cache_depth = s.cache_depth
         /\ t.frame = s.frame /\ t.tops = s.tops /\ t.low = Least(s.low, k)
         /\ Agrees(s) => Agrees(t)
<1>1. s.low \in Nat /\ s.spill_ptr \in Nat /\ Len(s.saved) \in Nat
  BY SnapFields
<1>2. Least(s.low, k) \in Nat
  BY <1>1 DEF Least
<1>3. /\ t \in SnapType /\ t.low = Least(s.low, k)
      /\ t.saved = s.saved /\ t.spill_ptr = s.spill_ptr /\ t.cache_depth = s.cache_depth
      /\ t.frame = s.frame /\ t.tops = s.tops
  BY <1>2 DEF SnapType
<1>4. Kept(t) = Least(Kept(s), k)
  BY <1>1, <1>3 DEF Kept, Least
<1>5. ASSUME Agrees(s) PROVE Agrees(t)
  <2>1. \A d : CachedAt(t, d) = CachedAt(s, d)
    BY <1>3 DEF CachedAt
  <2>2. t.low <= Len(t.saved)
    BY <1>1, <1>3, <1>5 DEF Agrees, Least
  <2> QED BY <1>3, <1>5, <2>1, <2>2 DEF Agrees
<1> QED BY <1>3, <1>4, <1>5

\* The live snapshots, one by one.
LEMMA LiveSnaps ==
  ASSUME IInv
  PROVE  /\ TypeOK /\ snaps \in Seq(SnapType) /\ Len(snaps) \in Nat /\ spill_ptr \in Nat
         /\ \A n \in 1..Len(snaps) : /\ snaps[n] \in SnapType /\ Agrees(snaps[n])
                                     /\ RestsOn(snaps[n], spill, spill_ptr)
         /\ \A m, n \in 1..Len(snaps) : m < n => Kept(snaps[m]) <= snaps[n].spill_ptr
<1>1. TypeOK /\ snaps \in Seq(SnapType) /\ spill_ptr \in Nat
  BY DEF IInv, Typed, TypeOK
<1>2. Len(snaps) \in Nat /\ \A n \in 1..Len(snaps) : snaps[n] \in SnapType
  BY <1>1, LenProperties, ElementOfSeq
<1> QED BY <1>1, <1>2 DEF IInv, SnapInv, Faithful, Undisturbed, Nested

\* A step that disturbs nothing below cell k leaves every snapshot usable.
LEMMA TouchedSnapInv ==
  ASSUME IInv, NEW k \in Nat, Touched(k), spill_ptr' \in Nat,
         Least(k, spill_ptr) <= spill_ptr',
         \A i \in 0..(Least(k, spill_ptr) - 1) : spill'[i] = spill[i]
  PROVE  SnapInv'
<1> DEFINE l == Len(snaps)
<1>1. /\ l \in Nat /\ spill_ptr \in Nat
      /\ \A n \in 1..l : /\ snaps[n] \in SnapType /\ Agrees(snaps[n])
                         /\ RestsOn(snaps[n], spill, spill_ptr)
      /\ \A m, n \in 1..l : m < n => Kept(snaps[m]) <= snaps[n].spill_ptr
  BY LiveSnaps
<1>2. /\ Len(snaps') = l
      /\ \A n \in 1..l : snaps'[n] = [snaps[n] EXCEPT !.low = Least(@, k)]
  BY TouchedFacts DEF IInv, Typed
<1> HIDE DEF l
<1>3. ASSUME NEW n \in 1..l
      PROVE  /\ Agrees(snaps'[n]) /\ Kept(snaps'[n]) = Least(Kept(snaps[n]), k)
             /\ snaps'[n].saved = snaps[n].saved /\ snaps'[n].spill_ptr = snaps[n].spill_ptr
             /\ snaps'[n] \in SnapType
  BY <1>1, <1>2, LoweredSnap
<1>4. ASSUME NEW n \in 1..l PROVE RestsOn(snaps'[n], spill', spill_ptr')
  <2> DEFINE b == Kept(snaps[n])
             c == Kept(snaps'[n])
  <2>1. b \in Nat /\ c = Least(b, k)
    BY <1>1, <1>3, SnapFields
  <2>2. b <= spill_ptr /\ \A i \in 0..(b - 1) : spill[i] = snaps[n].saved[i + 1]
    BY <1>1 DEF RestsOn
  <2> HIDE DEF b, c
  <2>3. c <= spill_ptr' /\ \A i \in 0..(c - 1) : spill'[i] = snaps[n].saved[i + 1]
    BY <1>1, <2>1, <2>2 DEF Least
  <2> QED BY <1>3, <2>3 DEF RestsOn, c
<1>5. ASSUME NEW m \in 1..l, NEW n \in 1..l, m < n
      PROVE  Kept(snaps'[m]) <= snaps'[n].spill_ptr
  <2>1. Kept(snaps[m]) \in Nat /\ snaps[n].spill_ptr \in Nat
    BY <1>1, SnapFields
  <2>2. Kept(snaps[m]) <= snaps[n].spill_ptr
    BY <1>1, <1>5
  <2>3. Least(Kept(snaps[m]), k) <= snaps[n].spill_ptr
    BY <2>1, <2>2 DEF Least
  <2> QED BY <1>3, <2>3
<1>6. Faithful'
  BY <1>2, <1>3 DEF Faithful, Agrees, CachedAt
<1>7. Undisturbed' /\ Nested'
  BY <1>2, <1>4, <1>5 DEF Undisturbed, Nested, RestsOn, Kept, Least
<1> QED BY <1>6, <1>7 DEF SnapInv

\* So does a step that touches no snapshot and only adds to the spill.
LEMMA GrowingSnapInv ==
  ASSUME IInv, UNCHANGED snaps, spill_ptr' \in Nat, spill_ptr <= spill_ptr',
         \A i \in 0..(spill_ptr - 1) : spill'[i] = spill[i]
  PROVE  SnapInv'
<1>1. /\ Len(snaps) \in Nat /\ spill_ptr \in Nat
      /\ \A n \in 1..Len(snaps) : /\ snaps[n] \in SnapType
                                  /\ RestsOn(snaps[n], spill, spill_ptr)
  BY LiveSnaps
<1>2. ASSUME NEW n \in 1..Len(snaps) PROVE RestsOn(snaps[n], spill', spill_ptr')
  <2>1. Kept(snaps[n]) \in Nat
    BY <1>1, SnapFields
  <2>2. /\ Kept(snaps[n]) <= spill_ptr
        /\ \A i \in 0..(Kept(snaps[n]) - 1) : spill[i] = snaps[n].saved[i + 1]
    BY <1>1 DEF RestsOn
  <2> DEFINE b == Kept(snaps[n])
  <2> HIDE DEF b
  <2>3. b <= spill_ptr' /\ \A i \in 0..(b - 1) : spill'[i] = snaps[n].saved[i + 1]
    BY <1>1, <2>1, <2>2 DEF b
  <2> QED BY <2>3 DEF b, RestsOn
<1>3. Undisturbed'
  BY <1>2 DEF Undisturbed, RestsOn, Kept, Least
<1>4. Faithful' /\ Nested'
  BY DEF IInv, SnapInv, Faithful, Agrees, Nested, Kept, Least, CachedAt
<1> QED BY <1>3, <1>4 DEF SnapInv

\* _push writes the spill only above what a snapshot relies on.
LEMMA PushIInv == ASSUME IInv, NEW v \in Value, Push(v) PROVE IInv'
<1>1. Typed /\ TypeOK
  BY DEF IInv, Typed
<1>2. Typed'
  BY <1>1, PushTyped
<1>3. /\ snaps' = snaps /\ spill_ptr' \in Nat /\ spill_ptr <= spill_ptr'
      /\ \A i \in 0..(spill_ptr - 1) : spill'[i] = spill[i]
  BY <1>1 DEF TypeOK, Push, Cells
<1>4. SnapInv'
  BY <1>3, GrowingSnapInv
<1> QED BY <1>2, <1>4 DEF IInv

\* _pop notes how low the stack has been.
LEMMA PopIInv == ASSUME IInv, Pop PROVE IInv'
<1>1. Typed /\ TypeOK
  BY DEF IInv, Typed
<1>2. Typed' /\ Depth - 1 \in Nat
  BY <1>1, PopTyped
<1>3. spill' = spill /\ Touched(Depth - 1)
  BY DEF Pop
<1>4. spill_ptr' \in Nat /\ Least(Depth - 1, spill_ptr) <= spill_ptr'
  BY <1>1 DEF TypeOK, Pop, Depth, Least
<1>5. SnapInv'
  BY <1>2, <1>3, <1>4, TouchedSnapInv
<1> QED BY <1>2, <1>5 DEF IInv

\* So does a write into the stack.
LEMMA PokeIInv ==
  ASSUME IInv, NEW d \in 0..(Depth - 1), NEW v \in Value, Poke(d, v)
  PROVE  IInv'
<1>1. Typed /\ TypeOK
  BY DEF IInv, Typed
<1>2. Typed' /\ Depth - d - 1 \in Nat
  BY <1>1, PokeTyped
<1>3. Touched(Depth - d - 1) /\ spill_ptr' = spill_ptr
  BY DEF Poke
<1>4. spill_ptr' \in Nat /\ Least(Depth - d - 1, spill_ptr) <= spill_ptr'
  BY <1>1, <1>2, <1>3 DEF TypeOK, Least
<1>5. ASSUME NEW i \in 0..(Least(Depth - d - 1, spill_ptr) - 1) PROVE spill'[i] = spill[i]
  <2>1. Depth = cache_depth + spill_ptr /\ cache_depth \in Nat /\ spill_ptr \in Nat /\ d \in Nat
    BY <1>1 DEF TypeOK, Depth
  <2>2. i # SpillIndex(d)
    BY <1>2, <2>1 DEF Least, SpillIndex
  <2> QED BY <1>1, <2>2 DEF Poke, TypeOK
<1>6. SnapInv'
  BY <1>2, <1>3, <1>4, <1>5, TouchedSnapInv
<1> QED BY <1>2, <1>6 DEF IInv

\* A call parks cells above what a snapshot relies on, even one that overflows.
LEMMA CallIInv == ASSUME IInv, Call \/ CallOverflow PROVE IInv'
<1>1. Typed /\ TypeOK
  BY DEF IInv, Typed
<1>2. Typed'
  BY <1>1, CallTyped
<1>3. PICK n \in 0..cache_depth : spill_ptr + n <= SpillSize /\ Park(n)
  BY <1>1, CallParks
<1>4. /\ spill_ptr' = spill_ptr + n /\ snaps' = snaps
      /\ \A i \in 0..(spill_ptr - 1) : spill'[i] = spill[i]
  BY <1>1, <1>3, ParkFacts
<1>5. spill_ptr' \in Nat /\ spill_ptr <= spill_ptr'
  BY <1>1, <1>4 DEF TypeOK
<1>6. SnapInv'
  BY <1>4, <1>5, GrowingSnapInv
<1> QED BY <1>2, <1>6 DEF IInv

\* ABORT cuts the stack to nothing.
LEMMA ClearIInv == ASSUME IInv, Clear PROVE IInv'
<1>1. Typed /\ TypeOK
  BY DEF IInv, Typed
<1>2. Typed'
  BY <1>1, ClearTyped
<1>3. Touched(0) /\ spill' = spill /\ spill_ptr' = 0 /\ Least(0, spill_ptr) = 0
  BY <1>1 DEF TypeOK, Clear, Least
<1>4. SnapInv'
  BY <1>3, TouchedSnapInv
<1> QED BY <1>2, <1>4 DEF IInv

\* A new snapshot agrees with the stack it is taken of.
LEMMA CopiedAgrees ==
  ASSUME TypeOK, SnapTops = NTOP
  PROVE  /\ Agrees(Copied) /\ RestsOn(Copied, spill, spill_ptr)
         /\ Copied.spill_ptr = spill_ptr /\ Copied.saved = Stack /\ Copied.low = Depth
<1>1. /\ Len(Stack) = Depth /\ Depth \in Nat /\ \A i \in 1..Depth : Stack[i] = Cell(i)
  BY StackType
<1>2. Depth = cache_depth + spill_ptr /\ cache_depth \in Nat /\ spill_ptr \in Nat
  BY DEF TypeOK, Depth
<1>3. tops = [k \in 0..(SnapTops - 1) |-> tops[k]]
  BY DEF TypeOK, Tops
<1> DEFINE c == Copied
<1>4. /\ c.tops = tops /\ c.frame = frame /\ c.cache_depth = cache_depth
      /\ c.spill_ptr = spill_ptr /\ c.saved = Stack /\ c.low = Depth
  BY <1>3 DEF Copied
<1> HIDE DEF c
<1>5. ASSUME NEW d \in 0..(cache_depth - 1) PROVE Stack[Depth - d] = CachedAt(c, d)
  <2>1. Depth - d \in 1..Depth /\ Depth - d > spill_ptr /\ Depth - (Depth - d) = d
    BY <1>2
  <2>2. Stack[Depth - d] = CachedAt(Cache, d)
    BY <1>1, <1>2, <2>1 DEF Cell, CellIn
  <2>3. CachedAt(c, d) = CachedAt(Cache, d)
    BY <1>4 DEF CachedAt, Cache
  <2> QED BY <2>2, <2>3
<1>6. Agrees(c)
  BY <1>1, <1>2, <1>4, <1>5 DEF Agrees
<1>7. Kept(c) = spill_ptr
  BY <1>2, <1>4 DEF Kept, Least
<1>8. ASSUME NEW i \in 0..(spill_ptr - 1) PROVE spill[i] = Stack[i + 1]
  <2>1. i + 1 \in 1..Depth /\ i + 1 <= spill_ptr /\ (i + 1) - 1 = i
    BY <1>2
  <2> QED BY <1>1, <2>1 DEF Cell, CellIn
<1>9. RestsOn(c, spill, spill_ptr)
  BY <1>2, <1>4, <1>7, <1>8 DEF RestsOn
<1> QED BY <1>4, <1>6, <1>9 DEF c

\* A new snapshot lies on the live ones.
LEMMA SnapshotIInv == ASSUME IInv, SnapTops = NTOP, Snapshot PROVE IInv'
<1> DEFINE l == Len(snaps)
<1>1. /\ l \in Nat /\ spill_ptr \in Nat /\ TypeOK
      /\ \A n \in 1..l : /\ snaps[n] \in SnapType /\ Agrees(snaps[n])
                         /\ RestsOn(snaps[n], spill, spill_ptr)
      /\ \A m, n \in 1..l : m < n => Kept(snaps[m]) <= snaps[n].spill_ptr
  BY LiveSnaps
<1>2. Typed'
  BY SnapshotsTyped DEF IInv
<1>3. /\ Len(snaps') = l + 1 /\ snaps'[l + 1] = Copied
      /\ \A n \in 1..l : snaps'[n] = snaps[n]
  BY SnapshotFacts DEF IInv
<1>4. /\ Agrees(Copied) /\ RestsOn(Copied, spill, spill_ptr) /\ Copied.spill_ptr = spill_ptr
  BY <1>1, CopiedAgrees
<1>5. spill' = spill /\ spill_ptr' = spill_ptr
  BY DEF Snapshot, stackVars
<1> DEFINE new == Copied
<1> HIDE DEF l, new
<1>6. ASSUME NEW n \in 1..(l + 1)
      PROVE  Agrees(snaps'[n]) /\ RestsOn(snaps'[n], spill', spill_ptr')
  <2>1. CASE n \in 1..l
    BY <1>1, <1>3, <1>5, <2>1
  <2>2. CASE n = l + 1
    BY <1>3, <1>4, <1>5, <2>2
  <2> QED BY <1>1, <2>1, <2>2
<1>7. ASSUME NEW m \in 1..(l + 1), NEW n \in 1..(l + 1), m < n
      PROVE  Kept(snaps'[m]) <= snaps'[n].spill_ptr
  <2>1. m \in 1..l /\ snaps'[m] = snaps[m]
    BY <1>1, <1>3, <1>7
  <2>2. CASE n \in 1..l
    BY <1>1, <1>3, <1>7, <2>1, <2>2
  <2>3. CASE n = l + 1
    <3>1. Kept(snaps[m]) <= spill_ptr
      BY <1>1, <2>1 DEF RestsOn
    <3>2. snaps'[n].spill_ptr = spill_ptr
      BY <1>3, <1>4, <2>3
    <3> QED BY <2>1, <3>1, <3>2
  <2> QED BY <1>1, <2>2, <2>3
<1>8. SnapInv'
  BY <1>3, <1>6, <1>7 DEF SnapInv, Faithful, Undisturbed, Nested, Agrees, CachedAt, RestsOn, Kept, Least
<1> QED BY <1>2, <1>8 DEF IInv

\* Dropping the innermost snapshot, with the spill and what is live of it as
\* it was or cut back to where the snapshot was taken.
LEMMA DropSnapInv ==
  ASSUME IInv, snaps # <<>>, DropInnermost, UNCHANGED spill,
         spill_ptr' = spill_ptr \/ spill_ptr' = snaps[Len(snaps)].spill_ptr
  PROVE  SnapInv'
<1> DEFINE l == Len(snaps) - 1
<1>1. /\ Len(snaps) \in Nat /\ spill_ptr \in Nat
      /\ \A n \in 1..Len(snaps) : /\ snaps[n] \in SnapType /\ Agrees(snaps[n])
                                  /\ RestsOn(snaps[n], spill, spill_ptr)
      /\ \A m, n \in 1..Len(snaps) : m < n => Kept(snaps[m]) <= snaps[n].spill_ptr
  BY LiveSnaps
<1>2. /\ Len(snaps') = l /\ l \in Nat /\ Len(snaps) = l + 1
      /\ \A n \in 1..l : snaps'[n] = snaps[n]
  BY DropFacts DEF IInv, Typed
<1> HIDE DEF l
<1>3. ASSUME NEW n \in 1..l
      PROVE  /\ n \in 1..Len(snaps) /\ n < Len(snaps) /\ Len(snaps) \in 1..Len(snaps)
             /\ snaps'[n] = snaps[n] /\ Agrees(snaps[n])
  BY <1>1, <1>2
<1>4. ASSUME NEW n \in 1..l PROVE RestsOn(snaps[n], spill, spill_ptr')
  <2>1. Kept(snaps[n]) <= spill_ptr'
    BY <1>1, <1>3 DEF RestsOn
  <2>2. \A i \in 0..(Kept(snaps[n]) - 1) : spill[i] = snaps[n].saved[i + 1]
    BY <1>1, <1>3 DEF RestsOn
  <2> QED BY <2>1, <2>2 DEF RestsOn
<1>5. ASSUME NEW m \in 1..l, NEW n \in 1..l, m < n
      PROVE  Kept(snaps'[m]) <= snaps'[n].spill_ptr
  BY <1>1, <1>3, <1>5
<1>6. Faithful'
  <2>1. \A n \in 1..l : Agrees(snaps'[n])
    BY <1>3
  <2> QED BY <1>2, <2>1 DEF Faithful, Agrees, CachedAt
<1>7. Undisturbed'
  BY <1>2, <1>3, <1>4 DEF Undisturbed, RestsOn, Kept, Least
<1>8. Nested'
  BY <1>2, <1>5 DEF Nested, Kept, Least
<1> QED BY <1>6, <1>7, <1>8 DEF SnapInv

\* Restoring or forgetting the innermost snapshot leaves the outer ones restorable.
LEMMA DropIInv == ASSUME IInv, Restore \/ Forget PROVE IInv'
<1>1. Typed'
  BY SnapshotsTyped DEF IInv
<1>2. SnapInv'
  BY DropSnapInv DEF Restore, Forget, stackVars
<1> QED BY <1>1, <1>2 DEF IInv

\* Operations that change neither the stack nor the snapshots.
LEMMA QuietIInv ==
  ASSUME IInv, UNCHANGED <<stackVars, snaps>>, out' \in Value \cup {None, Overflow}
  PROVE  IInv'
<1>1. Typed'
  BY QuietTyped DEF IInv
<1>2. SnapInv'
  BY DEF IInv, SnapInv, Faithful, Undisturbed, Nested, Agrees, CachedAt, RestsOn, Kept, Least,
     stackVars
<1> QED BY <1>1, <1>2 DEF IInv

\* Without snapshots the invariant is the types.
LEMMA InitIInv == Init => IInv
<1> SUFFICES ASSUME Init PROVE IInv
  OBVIOUS
<1>1. Len(snaps) = 0
  BY DEF Init
<1> QED BY <1>1, InitTyped DEF IInv, SnapInv, Faithful, Undisturbed, Nested

\* The invariant is inductive.
LEMMA NextIInv == ASSUME SnapTops = NTOP PROVE IInv /\ [Next]_vars => IInv'
<1> SUFFICES ASSUME IInv, [Next]_vars PROVE IInv'
  OBVIOUS
<1>1. ASSUME NEW v \in Value, Push(v) PROVE IInv'
  BY <1>1, PushIInv
<1>2. CASE PushOverflow
  BY <1>2, QuietIInv DEF PushOverflow
<1>3. CASE Pop
  BY <1>3, PopIInv
<1>4. ASSUME NEW d \in 0..(Depth - 1), Peek(d) PROVE IInv'
  <2>1. out' \in Value
    BY <1>4, PeekType DEF IInv, Typed
  <2> QED BY <1>4, <2>1, QuietIInv DEF Peek
<1>5. ASSUME NEW d \in 0..(Depth - 1), NEW v \in Value, Poke(d, v) PROVE IInv'
  BY <1>5, PokeIInv
<1>6. CASE Call \/ CallOverflow
  BY <1>6, CallIInv
<1>7. CASE Clear
  BY <1>7, ClearIInv
<1>8. CASE Snapshot
  BY <1>8, SnapshotIInv
<1>9. CASE Restore \/ Forget
  BY <1>9, DropIInv
<1>10. CASE UNCHANGED vars
  <2>1. out' \in Value \cup {None, Overflow} /\ UNCHANGED <<stackVars, snaps>>
    BY <1>10 DEF vars, stackVars, IInv, Typed, TypeOK
  <2> QED BY <2>1, QuietIInv
<1> QED
  BY <1>1, <1>2, <1>3, <1>4, <1>5, <1>6, <1>7, <1>8, <1>9, <1>10 DEF Next

-----------------------------------------------------------------------------
(***************************************************************************)
(* Refinement: every layout implements the plain stack.  Each lemma takes  *)
(* one action to the DataStack action of the same name.                    *)
(***************************************************************************)

\* The stack a program sees, before a step and after it.
LEMMA StackTypeHere ==
  TypeOK => /\ Stack \in Seq(Value) /\ Len(Stack) = Depth /\ Depth \in Nat
            /\ \A i \in 1..Depth : Stack[i] = Cell(i)
BY StackType

\* The same of the next state.
LEMMA StackTypeNext ==
 (TypeOK => /\ Stack \in Seq(Value) /\ Len(Stack) = Depth /\ Depth \in Nat
            /\ \A i \in 1..Depth : Stack[i] = Cell(i))'
BY StackTypeHere, PTL

\* Two stacks of equal depth that agree cell by cell are the same sequence.
LEMMA SameStack ==
  ASSUME TypeOK', NEW s \in Seq(Value), Len(s) = Depth',
         \A i \in 1..Depth' : s[i] = Cell(i)'
  PROVE  Stack' = s
<1>1. /\ Stack' \in Seq(Value) /\ Len(Stack') = Depth'
      /\ \A i \in 1..Depth' : Stack'[i] = Cell(i)'
  BY StackTypeNext
<1> QED BY <1>1, SeqEqual

\* What a step notes in the snapshots it notes in the marks.
LEMMA MarksTouched == ASSUME Typed, NEW k \in Nat, Touched(k) PROVE DS!Touched(k)
<1>1. DOMAIN snaps' = DOMAIN snaps /\ DOMAIN Marks = DOMAIN snaps
  BY DEF Touched, Marks
<1>2. ASSUME NEW n \in DOMAIN snaps
      PROVE  /\ snaps'[n].saved = Marks[n].saved
             /\ snaps'[n].spill_ptr = Marks[n].floor
             /\ snaps'[n].low = Least(Marks[n].low, k)
  <2>1. snaps[n] \in SnapType
    BY LenProperties, ElementOfSeq DEF Typed
  <2>2. snaps'[n] = [snaps[n] EXCEPT !.low = Least(@, k)]
    BY DEF Touched
  <2>3. /\ snaps'[n].saved = snaps[n].saved /\ snaps'[n].spill_ptr = snaps[n].spill_ptr
        /\ snaps'[n].low = Least(snaps[n].low, k)
    BY <2>1, <2>2, LoweredSnap
  <2> QED BY <2>3 DEF Marks
<1> QED BY <1>1, <1>2 DEF DS!Touched, DS!Least, Least, Marks

\* A push moves every cached cell one down, and the deepest to the spill if full.
LEMMA PushCells ==
  ASSUME TypeOK, NEW v \in Value, Push(v)
  PROVE  /\ Depth' = Depth + 1 /\ Depth < ActiveMax + SpillSize
         /\ CachedAt(Cache', 0) = v
         /\ \A d \in 1..(cache_depth' - 1) : CachedAt(Cache', d) = CachedAt(Cache, d - 1)
         /\ \A i \in 0..(spill_ptr - 1) : spill'[i] = spill[i]
         /\ \/ spill_ptr' = spill_ptr /\ cache_depth' = cache_depth + 1
            \/ /\ spill_ptr' = spill_ptr + 1 /\ cache_depth' = cache_depth /\ cache_depth > 0
               /\ spill'[spill_ptr] = CachedAt(Cache, cache_depth - 1)
<1>1. /\ cache_depth \in 0..ActiveMax /\ spill_ptr \in 0..SpillSize
      /\ tops \in [Tops -> Value] /\ frame \in [Slots -> Value] /\ spill \in [Cells -> Value]
  BY DEF TypeOK
<1>2. tops' = PushTop(v)
  BY DEF Push
<1>3. \A k \in Tops : tops'[k] = IF k = 0 THEN v ELSE tops[k - 1]
  BY <1>2 DEF PushTop
<1> DEFINE sunk == IF NTOP = 0 THEN v ELSE tops[NTOP - 1]
<1>4. CASE cache_depth < ActiveMax
  <2>1. frame' = SinksInto(frame, cache_depth, v) /\ cache_depth' = cache_depth + 1
        /\ spill' = spill /\ spill_ptr' = spill_ptr
    BY <1>1, <1>4 DEF Push
  <2>2. /\ cache_depth >= NTOP => frame' = [frame EXCEPT ![cache_depth - NTOP] = sunk]
        /\ cache_depth < NTOP => frame' = frame
    BY <1>1, <2>1 DEF SinksInto
  <2>3. ASSUME cache_depth >= NTOP
        PROVE  /\ frame'[cache_depth - NTOP] = sunk
               /\ \A i \in Slots : i # cache_depth - NTOP => frame'[i] = frame[i]
    <3>1. cache_depth - NTOP \in Slots
      BY <1>1, <1>4, <2>3 DEF Slots
    <3> QED BY <1>1, <2>2, <2>3, <3>1
  <2>4. CachedAt(Cache', 0) = v
    <3>1. CASE NTOP = 0
      BY <1>1, <2>1, <2>3, <3>1 DEF CachedAt, Cache
    <3>2. CASE NTOP > 0
      BY <1>3, <3>2 DEF CachedAt, Cache, Tops
    <3> QED BY <3>1, <3>2
  <2>5. ASSUME NEW d \in 1..(cache_depth' - 1)
        PROVE  CachedAt(Cache', d) = CachedAt(Cache, d - 1)
    <3>1. d \in 1..cache_depth
      BY <1>1, <2>1
    <3>2. CASE d < NTOP
      <4>1. d \in Tops /\ d # 0 /\ d - 1 < NTOP
        BY <3>1, <3>2 DEF Tops
      <4> QED BY <1>3, <3>2, <4>1 DEF CachedAt, Cache
    <3>3. CASE d = NTOP
      <4>1. CachedAt(Cache', d) = frame'[cache_depth - NTOP]
        BY <1>1, <2>1, <3>3 DEF CachedAt, Cache
      <4>2. CachedAt(Cache, d - 1) = tops[NTOP - 1]
        BY <3>1, <3>3 DEF CachedAt, Cache
      <4> QED BY <1>1, <2>3, <3>1, <3>3, <4>1, <4>2
    <3>4. CASE d > NTOP
      <4>1. CachedAt(Cache', d) = frame'[cache_depth - d]
        BY <1>1, <2>1, <3>1, <3>4 DEF CachedAt, Cache
      <4>2. CachedAt(Cache, d - 1) = frame[cache_depth - d]
        BY <1>1, <3>1, <3>4 DEF CachedAt, Cache
      <4>3. cache_depth - d \in Slots /\ cache_depth - d # cache_depth - NTOP /\ cache_depth >= NTOP
        BY <1>1, <3>1, <3>4 DEF Slots
      <4> QED BY <2>3, <4>1, <4>2, <4>3
    <3> QED BY <3>1, <3>2, <3>3, <3>4
  <2>6. Depth' = Depth + 1 /\ Depth < ActiveMax + SpillSize
    BY <1>1, <1>4, <2>1 DEF Depth
  <2> QED BY <2>1, <2>4, <2>5, <2>6
<1>5. CASE cache_depth >= ActiveMax
  <2>1. /\ spill_ptr < SpillSize /\ spill' = [spill EXCEPT ![spill_ptr] = frame[0]]
        /\ spill_ptr' = spill_ptr + 1 /\ cache_depth' = cache_depth /\ cache_depth = ActiveMax
        /\ frame' = SinksInto(ShiftedFrame(frame), cache_depth - 1, v)
    BY <1>1, <1>5 DEF Push
  <2> DEFINE f == ShiftedFrame(frame)
  <2>2. f \in [Slots -> Value] /\ \A i \in Slots : i < FrameSize - 1 => f[i] = frame[i + 1]
    BY <1>1 DEF ShiftedFrame, Slots
  <2>3. frame' = [f EXCEPT ![FrameSize - 1] = sunk]
    <3>1. cache_depth - 1 >= NTOP /\ cache_depth - 1 - NTOP = FrameSize - 1
      BY <2>1
    <3> QED BY <2>1, <3>1 DEF SinksInto
  <2> HIDE DEF f
  <2>4. /\ frame'[FrameSize - 1] = sunk
        /\ \A i \in Slots : i < FrameSize - 1 => frame'[i] = frame[i + 1]
    <3>1. FrameSize - 1 \in Slots
      BY DEF Slots
    <3> QED BY <2>2, <2>3, <3>1 DEF Slots
  <2>5. CachedAt(Cache', 0) = v
    <3>1. CASE NTOP = 0
      BY <1>1, <2>1, <2>4, <3>1 DEF CachedAt, Cache
    <3>2. CASE NTOP > 0
      BY <1>3, <3>2 DEF CachedAt, Cache, Tops
    <3> QED BY <3>1, <3>2
  <2>6. ASSUME NEW d \in 1..(cache_depth' - 1)
        PROVE  CachedAt(Cache', d) = CachedAt(Cache, d - 1)
    <3>1. d \in 1..(ActiveMax - 1)
      BY <2>1
    <3>2. CASE d < NTOP
      <4>1. d \in Tops /\ d # 0 /\ d - 1 < NTOP
        BY <3>1, <3>2 DEF Tops
      <4> QED BY <1>3, <3>2, <4>1 DEF CachedAt, Cache
    <3>3. CASE d = NTOP
      <4>1. CachedAt(Cache', d) = frame'[FrameSize - 1]
        BY <2>1, <3>3 DEF CachedAt, Cache
      <4>2. CachedAt(Cache, d - 1) = tops[NTOP - 1]
        BY <3>1, <3>3 DEF CachedAt, Cache
      <4> QED BY <2>4, <3>1, <3>3, <4>1, <4>2
    <3>4. CASE d > NTOP
      <4>1. CachedAt(Cache', d) = frame'[ActiveMax - 1 - d]
        BY <2>1, <3>1, <3>4 DEF CachedAt, Cache
      <4>2. CachedAt(Cache, d - 1) = frame[ActiveMax - d]
        BY <2>1, <3>1, <3>4 DEF CachedAt, Cache
      <4>3. /\ ActiveMax - 1 - d \in Slots /\ ActiveMax - 1 - d < FrameSize - 1
            /\ (ActiveMax - 1 - d) + 1 = ActiveMax - d
        BY <3>1, <3>4 DEF Slots
      <4> QED BY <2>4, <4>1, <4>2, <4>3
    <3> QED BY <3>1, <3>2, <3>3, <3>4
  <2>7. /\ spill'[spill_ptr] = CachedAt(Cache, cache_depth - 1)
        /\ \A i \in 0..(spill_ptr - 1) : spill'[i] = spill[i]
    <3>1. CachedAt(Cache, cache_depth - 1) = frame[0]
      BY <2>1 DEF CachedAt, Cache
    <3>2. spill_ptr \in Cells
      BY <1>1, <2>1 DEF Cells
    <3> QED BY <1>1, <2>1, <3>1, <3>2 DEF Cells
  <2>8. Depth' = Depth + 1 /\ Depth < ActiveMax + SpillSize
    BY <1>1, <2>1 DEF Depth
  <2> QED BY <2>1, <2>5, <2>6, <2>7, <2>8
<1> QED BY <1>1, <1>4, <1>5

\* From m cells in cache c and p in spill s, to n in e and q in t.
Pushed(c, m, s, p, e, n, t, q) ==
  /\ \A d \in 1..(n - 1) : CachedAt(e, d) = CachedAt(c, d - 1)
  /\ \A i \in 0..(p - 1) : t[i] = s[i]
  /\ \/ q = p /\ n = m + 1
     \/ q = p + 1 /\ n = m /\ m > 0 /\ t[p] = CachedAt(c, m - 1)

\* So the cells of the stack are what they were, under the new one.
LEMMA PushedCells ==
  ASSUME NEW c, NEW m \in Nat, NEW s, NEW p \in Nat,
         NEW e, NEW n \in Nat, NEW t, NEW q \in Nat, Pushed(c, m, s, p, e, n, t, q)
  PROVE  /\ \A i \in 1..(m + p) :
              CellIn(e, m + p + 1, t, q, i) = CellIn(c, m + p, s, p, i)
         /\ CellIn(e, m + p + 1, t, q, m + p + 1) = CachedAt(e, 0)
<1> USE DEF Pushed
<1>1. ASSUME NEW i \in 1..(m + p)
      PROVE  CellIn(e, m + p + 1, t, q, i) = CellIn(c, m + p, s, p, i)
  <2>1. CASE i <= p
    <3>1. i - 1 \in 0..(p - 1) /\ i <= q
      BY <2>1
    <3> QED BY <2>1, <3>1 DEF CellIn
  <2>2. CASE i > p /\ i <= q
    <3>1. i = p + 1 /\ t[p] = CachedAt(c, m - 1) /\ m + p - i = m - 1 /\ i - 1 = p
      BY <2>2
    <3> QED BY <2>2, <3>1 DEF CellIn
  <2>3. CASE i > q
    <3>1. m + p + 1 - i \in 1..(n - 1) /\ (m + p + 1 - i) - 1 = m + p - i /\ i > p
      BY <2>3
    <3>2. CachedAt(e, m + p + 1 - i) = CachedAt(c, m + p - i)
      BY <3>1
    <3> QED BY <2>3, <3>1, <3>2 DEF CellIn
  <2> QED BY <2>1, <2>2, <2>3
<1>2. ~ (m + p + 1 <= q) /\ (m + p + 1) - (m + p + 1) = 0
  OBVIOUS
<1> QED BY <1>1, <1>2 DEF CellIn

\* Each action is the one of its name.
LEMMA PushIsPush == ASSUME TypeOK, TypeOK', NEW v \in Value, Push(v) PROVE DS!Push(v)
<1>1. /\ Stack \in Seq(Value) /\ Len(Stack) = Depth /\ Depth \in Nat
      /\ \A i \in 1..Depth : Stack[i] = Cell(i)
  BY StackType
<1>2. /\ Depth' = Depth + 1 /\ Depth < ActiveMax + SpillSize
      /\ CachedAt(Cache', 0) = v
      /\ \A d \in 1..(cache_depth' - 1) : CachedAt(Cache', d) = CachedAt(Cache, d - 1)
      /\ \A i \in 0..(spill_ptr - 1) : spill'[i] = spill[i]
      /\ \/ spill_ptr' = spill_ptr /\ cache_depth' = cache_depth + 1
         \/ /\ spill_ptr' = spill_ptr + 1 /\ cache_depth' = cache_depth /\ cache_depth > 0
            /\ spill'[spill_ptr] = CachedAt(Cache, cache_depth - 1)
  BY PushCells
<1>3. /\ cache_depth \in Nat /\ spill_ptr \in Nat /\ Depth = cache_depth + spill_ptr
      /\ cache_depth' \in Nat /\ spill_ptr' \in Nat
  BY DEF TypeOK, Depth
<1>4. ASSUME NEW i PROVE Cell(i)' = CellIn(Cache', Depth + 1, spill', spill_ptr', i)
  BY <1>2 DEF Cell, CellIn, CachedAt
<1> DEFINE m == cache_depth
           p == spill_ptr
           n == cache_depth'
           q == spill_ptr'
           c == Cache
           e == Cache'
           s == spill
           t == spill'
<1>5. /\ m \in Nat /\ p \in Nat /\ n \in Nat /\ q \in Nat
      /\ Pushed(c, m, s, p, e, n, t, q)
      /\ CachedAt(e, 0) = v /\ Depth = m + p
      /\ \A i : Cell(i) = CellIn(c, Depth, s, p, i)
      /\ \A i : Cell(i)' = CellIn(e, Depth + 1, t, q, i)
  BY <1>2, <1>3, <1>4 DEF Cell, Pushed
<1> HIDE DEF m, p, n, q, c, e, s, t
<1>6. /\ \A i \in 1..Depth : Cell(i)' = Cell(i)
      /\ \A i : i = Depth + 1 => Cell(i)' = v
  <2>1. /\ \A i \in 1..(m + p) :
              CellIn(e, m + p + 1, t, q, i) = CellIn(c, m + p, s, p, i)
        /\ CellIn(e, m + p + 1, t, q, m + p + 1) = CachedAt(e, 0)
    BY <1>5, PushedCells
  <2>2. /\ \A i \in 1..Depth : CellIn(e, Depth + 1, t, q, i) = CellIn(c, Depth, s, p, i)
        /\ CellIn(e, Depth + 1, t, q, Depth + 1) = v
    BY <1>5, <2>1
  <2> QED BY <1>5, <2>2, Zenon
<1>7. Stack' = Append(Stack, v)
  <2>1. /\ Append(Stack, v) \in Seq(Value)
        /\ Len(Append(Stack, v)) = Depth + 1
        /\ \A i \in 1..Depth : Append(Stack, v)[i] = Stack[i]
        /\ Append(Stack, v)[Depth + 1] = v
    BY <1>1, AppendProperties
  <2>2. ASSUME NEW i \in 1..Depth' PROVE Append(Stack, v)[i] = Cell(i)'
    <3>1. CASE i \in 1..Depth
      BY <1>1, <1>6, <2>1, <3>1
    <3>2. CASE i = Depth + 1
      BY <1>6, <2>1, <3>2
    <3> QED BY <1>1, <1>2, <3>1, <3>2
  <2> QED BY <1>2, <2>1, <2>2, SameStack
<1>8. Marks' = Marks
  BY DEF Push, Marks
<1> QED BY <1>1, <1>2, <1>7, <1>8 DEF DS!Push, DS!Depth, Push

\* A pop moves every cached cell one up; with none cached it takes a spilled one.
LEMMA PopCells ==
  ASSUME TypeOK, Pop
  PROVE  /\ Depth > 0 /\ Depth' = Depth - 1 /\ out' = Cell(Depth)
         /\ \A i \in 1..(Depth - 1) :
              CellIn(Cache', Depth - 1, spill', spill_ptr', i) = Cell(i)
<1>1. /\ cache_depth \in 0..ActiveMax /\ spill_ptr \in 0..SpillSize
      /\ Depth = cache_depth + spill_ptr /\ cache_depth \in Nat /\ spill_ptr \in Nat
  BY DEF TypeOK, Depth
<1>2. spill' = spill /\ frame' = frame
  BY DEF Pop
<1>3. CASE cache_depth > 0
  <2>1. /\ cache_depth' = cache_depth - 1 /\ spill_ptr' = spill_ptr
        /\ out' = CachedAt(Cache, 0)
        /\ tops' = PopTop(IF cache_depth > NTOP THEN frame[cache_depth - NTOP - 1] ELSE Zero)
    BY <1>1, <1>3 DEF Pop
  <2>2. ASSUME NEW d \in 0..(cache_depth - 2)
        PROVE  CachedAt(Cache', d) = CachedAt(Cache, d + 1)
    <3>1. CASE d < NTOP - 1
      <4>1. d \in Tops /\ d # NTOP - 1
        BY <3>1 DEF Tops
      <4>2. tops'[d] = tops[d + 1]
        BY <2>1, <4>1 DEF PopTop
      <4> QED BY <3>1, <4>2 DEF CachedAt, Cache
    <3>2. CASE d = NTOP - 1
      <4>1. d \in Tops /\ cache_depth > NTOP /\ cache_depth - NTOP - 1 = cache_depth - 1 - (d + 1)
        BY <1>1, <3>2 DEF Tops
      <4>2. tops'[d] = frame[cache_depth - NTOP - 1]
        BY <2>1, <3>2, <4>1 DEF PopTop
      <4> QED BY <3>2, <4>1, <4>2 DEF CachedAt, Cache
    <3>3. CASE d > NTOP - 1
      <4>1. CachedAt(Cache', d) = frame[cache_depth - 1 - 1 - d]
        BY <1>2, <2>1, <3>3 DEF CachedAt, Cache
      <4>2. CachedAt(Cache, d + 1) = frame[cache_depth - 1 - (d + 1)]
        BY <3>3 DEF CachedAt, Cache
      <4>3. cache_depth - 1 - 1 - d = cache_depth - 1 - (d + 1)
        BY <1>1
      <4> QED BY <4>1, <4>2, <4>3
    <3> QED BY <3>1, <3>2, <3>3
  <2>3. ASSUME NEW i \in 1..(Depth - 1)
        PROVE  CellIn(Cache', Depth - 1, spill', spill_ptr', i) = Cell(i)
    <3>1. CASE i <= spill_ptr
      BY <1>2, <2>1, <3>1 DEF Cell, CellIn
    <3>2. CASE i > spill_ptr
      <4>1. Depth - 1 - i \in 0..(cache_depth - 2) /\ (Depth - 1 - i) + 1 = Depth - i
        BY <1>1, <3>2
      <4>2. CachedAt(Cache', Depth - 1 - i) = CachedAt(Cache, Depth - i)
        BY <2>2, <4>1
      <4> QED BY <1>1, <2>1, <3>2, <4>2 DEF Cell, CellIn
    <3> QED BY <1>1, <3>1, <3>2
  <2>4. out' = Cell(Depth)
    <3>1. ~ (Depth <= spill_ptr) /\ Depth - Depth = 0
      BY <1>1, <1>3
    <3> QED BY <2>1, <3>1 DEF Cell, CellIn
  <2>5. Depth > 0 /\ Depth' = Depth - 1
    BY <1>1, <1>3, <2>1 DEF Depth
  <2> QED BY <2>3, <2>4, <2>5
<1>4. CASE cache_depth <= 0
  <2>1. /\ spill_ptr > 0 /\ out' = spill[spill_ptr - 1] /\ spill_ptr' = spill_ptr - 1
        /\ cache_depth' = cache_depth /\ cache_depth = 0 /\ Depth = spill_ptr
    BY <1>1, <1>4 DEF Pop
  <2>2. ASSUME NEW i \in 1..(Depth - 1)
        PROVE  CellIn(Cache', Depth - 1, spill', spill_ptr', i) = Cell(i)
    BY <1>1, <1>2, <2>1 DEF Cell, CellIn
  <2>3. out' = Cell(Depth)
    BY <1>1, <2>1 DEF Cell, CellIn
  <2>4. Depth > 0 /\ Depth' = Depth - 1
    BY <1>1, <2>1 DEF Depth
  <2> QED BY <2>2, <2>3, <2>4
<1> QED BY <1>1, <1>3, <1>4

\* Popping the cache, or the spill when the cache is empty.
LEMMA PopIsPop == ASSUME Typed, TypeOK', Pop PROVE DS!Pop
<1>1. /\ Stack \in Seq(Value) /\ Len(Stack) = Depth /\ Depth \in Nat
      /\ \A i \in 1..Depth : Stack[i] = Cell(i)
  BY StackType DEF Typed
<1>2. /\ Depth > 0 /\ Depth' = Depth - 1 /\ out' = Cell(Depth)
      /\ \A i \in 1..(Depth - 1) :
           CellIn(Cache', Depth - 1, spill', spill_ptr', i) = Cell(i)
  BY PopCells DEF Typed
<1>3. \A i : Cell(i)' = CellIn(Cache', Depth - 1, spill', spill_ptr', i)
  BY <1>2 DEF Cell, CellIn, CachedAt
<1>4. Stack' = SubSeq(Stack, 1, Depth - 1)
  <2> DEFINE d == Depth - 1
  <2>1. d \in Nat /\ \A i \in 1..d : Stack[i] \in Value /\ Stack[i] = Cell(i)
    BY <1>1, <1>2, ElementOfSeq
  <2> HIDE DEF d
  <2>2. /\ SubSeq(Stack, 1, d) \in Seq(Value)
        /\ Len(SubSeq(Stack, 1, d)) = d
        /\ \A i \in 1..d : SubSeq(Stack, 1, d)[i] = Stack[i]
    <3>1. /\ SubSeq(Stack, 1, d) \in Seq(Value)
          /\ Len(SubSeq(Stack, 1, d)) = IF 1 <= d THEN d - 1 + 1 ELSE 0
          /\ \A i \in 1..(d - 1 + 1) : SubSeq(Stack, 1, d)[i] = Stack[1 + i - 1]
      BY <2>1, SubSeqProperties
    <3>2. d - 1 + 1 = d /\ \A i \in 1..d : 1 + i - 1 = i
      BY <2>1
    <3> QED BY <2>1, <3>1, <3>2
  <2>3. \A i \in 1..d : Cell(i)' = Stack[i]
    BY <1>2, <1>3, <2>1 DEF d
  <2>4. Depth' = d
    BY <1>2 DEF d
  <2> QED BY <2>2, <2>3, <2>4, SameStack DEF d
<1>5. DS!Touched(Depth - 1)
  BY <1>1, <1>2, MarksTouched DEF Pop
<1>6. out' = Stack[Depth]
  BY <1>1, <1>2
<1> QED BY <1>1, <1>2, <1>4, <1>5, <1>6 DEF DS!Pop, DS!Depth

\* A step that leaves the layout alone leaves the stack and the marks alone.
LEMMA QuietSteps ==
  ASSUME UNCHANGED <<stackVars, snaps>>
  PROVE  Stack' = Stack /\ Marks' = Marks
BY DEF stackVars, Stack, Marks, CachedAt, Cache, Depth

\* Reading a cell, wherever it lies.
LEMMA PeekIsPeek ==
  ASSUME TypeOK, NEW d \in 0..(Depth - 1), Peek(d)
  PROVE  DS!Peek(d) /\ d \in 0..(DS!Depth - 1)
<1>1. /\ Stack \in Seq(Value) /\ Len(Stack) = Depth /\ Depth \in Nat
      /\ \A i \in 1..Depth : Stack[i] = Cell(i)
  BY StackType
<1>2. /\ cache_depth \in Nat /\ spill_ptr \in Nat /\ Depth = cache_depth + spill_ptr
  BY DEF TypeOK, Depth
<1>3. d \in Nat /\ d < Depth /\ Depth - d \in 1..Depth /\ Depth - (Depth - d) = d
  BY <1>1
<1>4. out' = Cell(Depth - d)
  <2>1. CASE d < cache_depth
    <3>1. ~ (Depth - d <= spill_ptr)
      BY <1>2, <1>3, <2>1
    <3> QED BY <1>3, <2>1, <3>1 DEF Peek, Cell, CellIn
  <2>2. CASE ~ (d < cache_depth)
    <3>1. Depth - d <= spill_ptr /\ SpillIndex(d) = Depth - d - 1
      BY <1>2, <1>3, <2>2 DEF SpillIndex
    <3> QED BY <1>3, <2>2, <3>1 DEF Peek, Cell, CellIn
  <2> QED BY <2>1, <2>2
<1>5. Stack' = Stack /\ Marks' = Marks
  BY QuietSteps DEF Peek
<1>6. out' = Stack[Depth - d]
  BY <1>1, <1>3, <1>4
<1> QED BY <1>1, <1>3, <1>5, <1>6 DEF DS!Peek, DS!Depth

\* Writing a cell writes no other.
LEMMA PokeCells ==
  ASSUME TypeOK, NEW d \in 0..(Depth - 1), NEW v \in Value, Poke(d, v)
  PROVE  /\ Depth' = Depth
         /\ \A i \in 1..Depth : CellIn(Cache', Depth, spill', spill_ptr', i)
                                  = IF i = Depth - d THEN v ELSE Cell(i)
<1>1. /\ cache_depth \in 0..ActiveMax /\ spill_ptr \in 0..SpillSize
      /\ Depth = cache_depth + spill_ptr /\ cache_depth \in Nat /\ spill_ptr \in Nat
      /\ tops \in [Tops -> Value] /\ frame \in [Slots -> Value] /\ spill \in [Cells -> Value]
  BY DEF TypeOK, Depth
<1>2. d \in Nat /\ d < Depth /\ cache_depth' = cache_depth /\ spill_ptr' = spill_ptr
  BY <1>1 DEF Poke
<1>3. Depth' = Depth
  BY <1>2 DEF Depth
<1>4. CASE ~ (d < cache_depth)
  <2>1. /\ tops' = tops /\ frame' = frame /\ spill' = [spill EXCEPT ![SpillIndex(d)] = v]
    BY <1>1, <1>2, <1>4 DEF Poke
  <2>2. SpillIndex(d) = Depth - d - 1 /\ SpillIndex(d) \in Cells
    BY <1>1, <1>2, <1>4 DEF SpillIndex, Cells
  <2>3. ASSUME NEW i \in 1..Depth
        PROVE  CellIn(Cache', Depth, spill', spill_ptr', i)
                 = IF i = Depth - d THEN v ELSE Cell(i)
    <3>1. CASE i <= spill_ptr
      <4>1. i - 1 \in Cells /\ (i - 1 = SpillIndex(d) <=> i = Depth - d)
        BY <1>1, <1>2, <2>2, <3>1 DEF Cells
      <4>2. spill'[i - 1] = IF i = Depth - d THEN v ELSE spill[i - 1]
        BY <1>1, <2>1, <4>1
      <4> QED BY <1>2, <3>1, <4>2 DEF Cell, CellIn
    <3>2. CASE ~ (i <= spill_ptr)
      <4>1. i # Depth - d
        BY <1>1, <1>2, <1>4, <3>2
      <4>2. Cache' = Cache
        BY <1>2, <2>1 DEF Cache
      <4> QED BY <1>2, <3>2, <4>1, <4>2 DEF Cell, CellIn
    <3> QED BY <3>1, <3>2
  <2> QED BY <1>3, <2>3
<1>5. CASE d < cache_depth
  <2>1. spill' = spill
    BY <1>1, <1>2, <1>5 DEF Poke
  <2>2. ASSUME NEW j \in 0..(cache_depth - 1)
        PROVE  CachedAt(Cache', j) = IF j = d THEN v ELSE CachedAt(Cache, j)
    <3>1. CASE d < NTOP
      <4>1. tops' = [tops EXCEPT ![d] = v] /\ frame' = frame /\ d \in Tops
        BY <1>2, <1>5, <3>1 DEF Poke, Tops
      <4>2. CASE j < NTOP
        <5>1. j \in Tops
          BY <4>2 DEF Tops
        <5> QED BY <1>1, <4>1, <4>2, <5>1 DEF CachedAt, Cache
      <4>3. CASE ~ (j < NTOP)
        BY <1>2, <3>1, <4>1, <4>3 DEF CachedAt, Cache
      <4> QED BY <4>2, <4>3
    <3>2. CASE ~ (d < NTOP)
      <4>1. /\ frame' = [frame EXCEPT ![cache_depth - 1 - d] = v] /\ tops' = tops
            /\ cache_depth - 1 - d \in Slots
        BY <1>1, <1>2, <1>5, <3>2 DEF Poke, Slots
      <4>2. CASE j < NTOP
        BY <1>2, <3>2, <4>1, <4>2 DEF CachedAt, Cache
      <4>3. CASE ~ (j < NTOP)
        <5>1. /\ cache_depth - 1 - j \in Slots
              /\ (cache_depth - 1 - j = cache_depth - 1 - d <=> j = d)
          BY <1>1, <1>2, <4>3 DEF Slots
        <5>2. frame'[cache_depth - 1 - j] = IF j = d THEN v ELSE frame[cache_depth - 1 - j]
          BY <1>1, <4>1, <5>1
        <5> QED BY <1>2, <4>3, <5>2 DEF CachedAt, Cache
      <4> QED BY <4>2, <4>3
    <3> QED BY <3>1, <3>2
  <2>3. ASSUME NEW i \in 1..Depth
        PROVE  CellIn(Cache', Depth, spill', spill_ptr', i)
                 = IF i = Depth - d THEN v ELSE Cell(i)
    <3>1. CASE i <= spill_ptr
      <4>1. i # Depth - d
        BY <1>1, <1>2, <1>5, <3>1
      <4> QED BY <1>2, <2>1, <3>1, <4>1 DEF Cell, CellIn
    <3>2. CASE ~ (i <= spill_ptr)
      <4>1. Depth - i \in 0..(cache_depth - 1) /\ (Depth - i = d <=> i = Depth - d)
        BY <1>1, <1>2, <3>2
      <4>2. CachedAt(Cache', Depth - i) = IF i = Depth - d THEN v ELSE CachedAt(Cache, Depth - i)
        BY <2>2, <4>1
      <4> QED BY <1>2, <3>2, <4>2 DEF Cell, CellIn
    <3> QED BY <3>1, <3>2
  <2> QED BY <1>3, <2>3
<1> QED BY <1>4, <1>5

\* Writing a cell, wherever it lies.
LEMMA PokeIsPoke ==
  ASSUME Typed, TypeOK', NEW d \in 0..(Depth - 1), NEW v \in Value, Poke(d, v)
  PROVE  DS!Poke(d, v) /\ d \in 0..(DS!Depth - 1)
<1>1. /\ Stack \in Seq(Value) /\ Len(Stack) = Depth /\ Depth \in Nat
      /\ \A i \in 1..Depth : Stack[i] = Cell(i)
  BY StackType DEF Typed
<1>2. d \in Nat /\ d < Depth /\ Depth - d \in 1..Depth /\ Depth - d - 1 \in Nat
  BY <1>1
<1>3. /\ Depth' = Depth
      /\ \A i \in 1..Depth : CellIn(Cache', Depth, spill', spill_ptr', i)
                               = IF i = Depth - d THEN v ELSE Cell(i)
  BY PokeCells DEF Typed
<1>4. \A i : Cell(i)' = CellIn(Cache', Depth, spill', spill_ptr', i)
  BY <1>3 DEF Cell, CellIn, CachedAt
<1>5. Stack' = [Stack EXCEPT ![Depth - d] = v]
  <2> DEFINE s == [Stack EXCEPT ![Depth - d] = v]
  <2>1. /\ s \in Seq(Value) /\ Len(s) = Depth
        /\ \A i \in 1..Depth : s[i] = IF i = Depth - d THEN v ELSE Stack[i]
    BY <1>1, <1>2, ExceptSeq
  <2> HIDE DEF s
  <2>2. \A i \in 1..Depth' : s[i] = Cell(i)'
    BY <1>1, <1>3, <1>4, <2>1
  <2>3. Stack' = s
    BY <1>3, <2>1, <2>2, SameStack
  <2> QED BY <2>3 DEF s
<1>6. DS!Touched(Depth - d - 1)
  BY <1>2, MarksTouched DEF Poke
<1> QED BY <1>1, <1>2, <1>5, <1>6 DEF DS!Poke, DS!Depth, Poke

\* Parking moves cells to the spill and changes none.
LEMMA ParkingHides ==
  ASSUME TypeOK, TypeOK', NEW n \in 0..cache_depth, spill_ptr + n <= SpillSize, Park(n)
  PROVE  Stack' = Stack /\ Marks' = Marks
<1>1. /\ Stack \in Seq(Value) /\ Len(Stack) = Depth /\ Depth \in Nat
      /\ \A i \in 1..Depth : Stack[i] = Cell(i)
  BY StackType
<1>2. /\ cache_depth \in Nat /\ spill_ptr \in Nat /\ Depth = cache_depth + spill_ptr
      /\ n \in Nat /\ n <= cache_depth
  BY DEF TypeOK, Depth
<1>3. /\ cache_depth' = cache_depth - n /\ spill_ptr' = spill_ptr + n /\ snaps' = snaps
      /\ \A d \in 0..(cache_depth - n - 1) : CachedAt(Cache', d) = CachedAt(Cache, d)
      /\ \A i \in 0..(spill_ptr - 1) : spill'[i] = spill[i]
      /\ \A i \in 0..(n - 1) : spill'[spill_ptr + i] = CachedAt(Cache, cache_depth - 1 - i)
  BY ParkFacts
<1>4. Depth' = Depth
  BY <1>2, <1>3 DEF Depth
<1>5. ASSUME NEW i \in 1..Depth
      PROVE  CellIn(Cache', Depth, spill', spill_ptr', i) = Cell(i)
  <2>1. CASE i <= spill_ptr
    <3>1. i - 1 \in 0..(spill_ptr - 1) /\ i <= spill_ptr + n
      BY <1>2, <2>1
    <3> QED BY <1>3, <2>1, <3>1 DEF Cell, CellIn
  <2>2. CASE i > spill_ptr /\ i <= spill_ptr + n
    <3> DEFINE j == i - 1 - spill_ptr
    <3>1. /\ j \in 0..(n - 1) /\ spill_ptr + j = i - 1 /\ cache_depth - 1 - j = Depth - i
          /\ ~ (i <= spill_ptr)
      BY <1>2, <2>2
    <3> HIDE DEF j
    <3>2. spill'[i - 1] = CachedAt(Cache, Depth - i)
      BY <1>3, <3>1
    <3> QED BY <1>3, <2>2, <3>1, <3>2 DEF Cell, CellIn
  <2>3. CASE i > spill_ptr + n
    <3>1. /\ Depth - i \in 0..(cache_depth - n - 1) /\ ~ (i <= spill_ptr)
          /\ ~ (i <= spill_ptr + n)
      BY <1>2, <2>3
    <3> QED BY <1>3, <3>1 DEF Cell, CellIn
  <2> QED BY <1>2, <2>1, <2>2, <2>3
<1>6. \A i : Cell(i)' = CellIn(Cache', Depth, spill', spill_ptr', i)
  BY <1>4 DEF Cell, CellIn, CachedAt
<1>7. \A i \in 1..Depth' : Stack[i] = Cell(i)'
  BY <1>1, <1>4, <1>5, <1>6
<1>8. Stack' = Stack
  <2> DEFINE s == Stack
  <2>1. s \in Seq(Value) /\ Len(s) = Depth' /\ \A i \in 1..Depth' : s[i] = Cell(i)'
    BY <1>1, <1>4, <1>7
  <2> HIDE DEF s
  <2>2. Stack' = s
    BY <2>1, SameStack
  <2> QED BY <2>2 DEF s
<1>9. Marks' = Marks
  BY <1>3 DEF Marks
<1> QED BY <1>8, <1>9

\* A call is invisible, and overflows exactly at the plain stack's limit, even
\* though by then it has parked what the spill could take.
LEMMA CallIsCall ==
  ASSUME TypeOK, TypeOK', Call \/ CallOverflow
  PROVE  DS!Call \/ DS!CallOverflow
<1>1. Len(Stack) = Depth
  BY StackType
<1>2. PICK n \in 0..cache_depth : spill_ptr + n <= SpillSize /\ Park(n)
  BY CallParks
<1>3. Stack' = Stack /\ Marks' = Marks
  BY <1>2, ParkingHides
<1>4. /\ cache_depth \in Nat /\ spill_ptr \in 0..SpillSize /\ Depth = cache_depth + spill_ptr
      /\ ToPark = IF cache_depth > CallWindow THEN cache_depth - CallWindow ELSE 0
  BY DEF TypeOK, Depth, ToPark
<1>5. CASE Call
  <2>1. Depth <= CallWindow + SpillSize /\ out' = None
    BY <1>4, <1>5 DEF Call
  <2> QED BY <1>1, <1>3, <2>1 DEF DS!Call, DS!Depth
<1>6. CASE CallOverflow
  <2>1. Depth > CallWindow + SpillSize /\ out' = Overflow
    BY <1>4, <1>6 DEF CallOverflow
  <2> QED BY <1>1, <1>3, <2>1 DEF DS!CallOverflow, DS!Depth
<1> QED BY <1>5, <1>6

\* A push overflows exactly when the plain stack is full.
LEMMA OverflowIsOverflow == ASSUME TypeOK, PushOverflow PROVE DS!PushOverflow
<1>1. Len(Stack) = Depth
  BY StackType
<1>2. Stack' = Stack /\ Marks' = Marks /\ out' = Overflow
  BY QuietSteps DEF PushOverflow
<1>3. Depth >= ActiveMax + SpillSize
  BY DEF TypeOK, PushOverflow, Depth
<1> QED BY <1>1, <1>2, <1>3 DEF DS!PushOverflow, DS!Depth

\* Clearing.
LEMMA ClearIsClear == ASSUME Typed, TypeOK', Clear PROVE DS!Clear
<1>1. Depth' = 0
  BY DEF Clear, Depth
<1>2. Stack' \in Seq(Value) /\ Len(Stack') = 0
  BY <1>1, StackTypeNext
<1>3. Stack' = <<>>
  BY <1>2, EmptySeq
<1>4. DS!Touched(0)
  BY MarksTouched DEF Clear
<1> QED BY <1>3, <1>4 DEF DS!Clear, Clear

MarkType == [saved : Seq(Value), floor : Nat, low : Nat]
MarkOf(s) == [saved |-> s.saved, floor |-> s.spill_ptr, low |-> s.low]

\* The marks are the snapshots', one by one.
LEMMA MarksType ==
  Typed => /\ Marks \in Seq(MarkType) /\ Len(Marks) = Len(snaps) /\ Len(snaps) \in Nat
           /\ \A n \in 1..Len(snaps) : Marks[n] = MarkOf(snaps[n])
<1> SUFFICES ASSUME Typed
             PROVE  /\ Marks \in Seq(MarkType) /\ Len(Marks) = Len(snaps) /\ Len(snaps) \in Nat
                    /\ \A n \in 1..Len(snaps) : Marks[n] = MarkOf(snaps[n])
  OBVIOUS
<1>1. /\ snaps \in Seq(SnapType) /\ Len(snaps) \in Nat /\ DOMAIN snaps = 1..Len(snaps)
      /\ \A n \in 1..Len(snaps) : snaps[n] \in SnapType
  BY LenProperties, ElementOfSeq DEF Typed
<1>2. ASSUME NEW n \in 1..Len(snaps) PROVE MarkOf(snaps[n]) \in MarkType
  <2>1. /\ snaps[n].low \in Nat /\ snaps[n].spill_ptr \in Nat /\ snaps[n].saved \in Seq(Value)
    BY <1>1, SnapFields
  <2> QED BY <2>1 DEF MarkOf, MarkType
<1>3. Marks = [n \in 1..Len(snaps) |-> MarkOf(snaps[n])]
  BY <1>1 DEF Marks, MarkOf
<1>4. Marks \in [1..Len(snaps) -> MarkType]
  BY <1>2, <1>3
<1>5. Marks \in Seq(MarkType)
  BY <1>1, <1>4, SeqDef
<1>6. Len(Marks) = Len(snaps)
  BY <1>1, <1>4, <1>5, LenProperties
<1> QED BY <1>1, <1>3, <1>5, <1>6

\* The same of the next state.
LEMMA MarksTypeNext ==
 (Typed => /\ Marks \in Seq(MarkType) /\ Len(Marks) = Len(snaps) /\ Len(snaps) \in Nat
           /\ \A n \in 1..Len(snaps) : Marks[n] = MarkOf(snaps[n]))'
BY MarksType, PTL

\* A snapshot promises the whole stack, though it copies the cache only.
LEMMA SnapshotIsSnapshot ==
  ASSUME Typed, Typed', SnapTops = NTOP, Snapshot
  PROVE  DS!Snapshot
<1> DEFINE l == Len(snaps)
           new == Copied
           mark == [saved |-> Stack, floor |-> spill_ptr, low |-> Depth]
<1>1. Stack \in Seq(Value) /\ Len(Stack) = Depth /\ Depth \in Nat
  BY StackType DEF Typed
<1>2. /\ Marks \in Seq(MarkType) /\ Len(Marks) = l /\ l \in Nat
      /\ \A n \in 1..l : Marks[n] = MarkOf(snaps[n])
  BY MarksType
<1>3. /\ Len(snaps') = l + 1 /\ snaps'[l + 1] = new
      /\ \A n \in 1..l : snaps'[n] = snaps[n]
  BY SnapshotFacts
<1>4. /\ Marks' \in Seq(MarkType) /\ Len(Marks') = Len(snaps')
      /\ \A n \in 1..Len(snaps') : Marks'[n] = MarkOf(snaps'[n])
  BY MarksTypeNext DEF MarkOf
<1>5. mark \in MarkType
  BY <1>1 DEF MarkType, Typed, TypeOK
<1>6. MarkOf(new) = mark
  <2>1. new.spill_ptr = spill_ptr /\ new.saved = Stack /\ new.low = Depth
    BY CopiedAgrees DEF Typed
  <2> HIDE DEF new
  <2> QED BY <2>1 DEF MarkOf
<1>7. Marks' = Append(Marks, mark)
  <2> HIDE DEF mark, new, l
  <2>1. /\ Append(Marks, mark) \in Seq(MarkType)
        /\ Len(Append(Marks, mark)) = l + 1
        /\ \A n \in 1..l : Append(Marks, mark)[n] = Marks[n]
        /\ Append(Marks, mark)[l + 1] = mark
    BY <1>2, <1>5, AppendProperties
  <2>2. ASSUME NEW n \in 1..(l + 1) PROVE Marks'[n] = Append(Marks, mark)[n]
    <3>1. Marks'[n] = MarkOf(snaps'[n])
      BY <1>3, <1>4
    <3>2. CASE n \in 1..l
      BY <1>2, <1>3, <2>1, <3>1, <3>2
    <3>3. CASE n = l + 1
      BY <1>3, <1>6, <2>1, <3>1, <3>3
    <3> QED BY <1>2, <3>2, <3>3
  <2> QED BY <1>3, <1>4, <2>1, <2>2, SeqEqual
<1>8. spill_ptr \in 0..Depth
  BY DEF Typed, TypeOK, Depth
<1>9. Stack' = Stack /\ out' = None /\ l < CatchDepth
  BY DEF Snapshot, stackVars, Stack, CachedAt, Cache, Depth
<1> QED BY <1>1, <1>2, <1>7, <1>8, <1>9 DEF DS!Snapshot, DS!Depth

\* Dropping a snapshot drops its mark.
LEMMA MarksDropped ==
  ASSUME Typed, Typed', snaps # <<>>, DropInnermost
  PROVE  /\ Marks # <<>>
         /\ Marks' = SubSeq(Marks, 1, Len(Marks) - 1)
         /\ Marks[Len(Marks)] = MarkOf(snaps[Len(snaps)])
<1> DEFINE l == Len(snaps)
<1>1. /\ Len(snaps') = l - 1 /\ l \in Nat \ {0}
      /\ \A n \in 1..(l - 1) : snaps'[n] = snaps[n]
  BY DropFacts DEF Typed
<1>2. /\ Marks \in Seq(MarkType) /\ Len(Marks) = l
      /\ \A n \in 1..l : Marks[n] = MarkOf(snaps[n])
  BY MarksType
<1>3. /\ Marks' \in Seq(MarkType) /\ Len(Marks') = Len(snaps')
      /\ \A n \in 1..Len(snaps') : Marks'[n] = MarkOf(snaps'[n])
  BY MarksTypeNext DEF MarkOf
<1> HIDE DEF l
<1>4. ASSUME NEW n \in 1..(l - 1) PROVE Marks'[n] = Marks[n]
  <2>1. n \in 1..l
    BY <1>1
  <2>2. Marks'[n] = MarkOf(snaps'[n])
    BY <1>1, <1>3
  <2> QED BY <1>1, <1>2, <2>1, <2>2
<1>5. Marks' = SubSeq(Marks, 1, l - 1)
  <2> DEFINE m == l - 1
  <2>1. m \in Nat /\ \A n \in 1..m : Marks[n] \in MarkType
    BY <1>1, <1>2, ElementOfSeq
  <2>2. Len(Marks') = m /\ \A n \in 1..m : Marks'[n] = Marks[n]
    BY <1>1, <1>3, <1>4
  <2> HIDE DEF m
  <2>3. /\ SubSeq(Marks, 1, m) \in Seq(MarkType)
        /\ Len(SubSeq(Marks, 1, m)) = IF 1 <= m THEN m - 1 + 1 ELSE 0
        /\ \A n \in 1..(m - 1 + 1) : SubSeq(Marks, 1, m)[n] = Marks[1 + n - 1]
    BY <2>1, SubSeqProperties
  <2>4. m - 1 + 1 = m /\ \A n \in 1..m : 1 + n - 1 = n
    BY <2>1
  <2>5. /\ Len(SubSeq(Marks, 1, m)) = m
        /\ \A n \in 1..m : SubSeq(Marks, 1, m)[n] = Marks[n]
    BY <2>1, <2>3, <2>4
  <2>6. Marks' = SubSeq(Marks, 1, m)
    BY <1>3, <2>2, <2>3, <2>5, SeqEqual
  <2> QED BY <2>6 DEF m
<1>6. Marks # <<>> /\ l \in 1..l
  BY <1>1, <1>2
<1> QED BY <1>1, <1>2, <1>5, <1>6 DEF l

\* The cells a restore brings back.
LEMMA RestoredCells ==
  ASSUME NEW s \in SnapType, Agrees(s), RestsOn(s, spill, spill_ptr), SnapTops = NTOP,
         NEW c, c.cache_depth = s.cache_depth, c.frame = s.frame,
         \A k \in Tops : c.tops[k] = s.tops[k],
         NEW i \in 1..Len(s.saved), i > s.spill_ptr \/ i <= s.low
  PROVE  CellIn(c, Len(s.saved), spill, s.spill_ptr, i) = s.saved[i]
<1> DEFINE l == Len(s.saved)
<1>1. /\ s.low \in Nat /\ s.spill_ptr \in Nat /\ s.cache_depth \in Nat /\ l \in Nat
      /\ Kept(s) \in Nat
  BY SnapFields
<1>2. /\ l = s.cache_depth + s.spill_ptr
      /\ \A d \in 0..(s.cache_depth - 1) : s.saved[l - d] = CachedAt(s, d)
  BY DEF Agrees
<1>3. \A j \in 0..(Kept(s) - 1) : spill[j] = s.saved[j + 1]
  BY DEF RestsOn
<1>4. CASE i > s.spill_ptr
  <2> DEFINE d == l - i
  <2>1. d \in 0..(s.cache_depth - 1) /\ l - d = i /\ ~ (i <= s.spill_ptr)
    <3> DEFINE m == s.cache_depth
               p == s.spill_ptr
    <3>1. m \in Nat /\ p \in Nat /\ l = m + p /\ i \in 1..l /\ i > p
      BY <1>1, <1>2, <1>4
    <3> HIDE DEF m, p, l
    <3>2. l - i \in 0..(m - 1) /\ l - (l - i) = i /\ ~ (i <= p)
      BY <3>1
    <3> QED BY <3>2 DEF m, p
  <2>2. CellIn(c, l, spill, s.spill_ptr, i) = CachedAt(c, d)
    BY <2>1 DEF CellIn
  <2> HIDE DEF d, l
  <2>3. s.saved[i] = CachedAt(s, d)
    BY <1>2, <2>1
  <2>4. CachedAt(c, d) = CachedAt(s, d)
    <3>1. d < NTOP => d \in Tops
      BY <2>1 DEF Tops
    <3> QED BY <3>1 DEF CachedAt
  <2> QED BY <2>2, <2>3, <2>4 DEF l
<1>5. CASE i <= s.spill_ptr
  <2>1. i <= s.low /\ i - 1 \in 0..(Kept(s) - 1) /\ (i - 1) + 1 = i
    BY <1>1, <1>5 DEF Kept, Least
  <2>2. spill[i - 1] = s.saved[i]
    BY <1>3, <2>1
  <2> QED BY <1>5, <2>2 DEF CellIn
<1> QED BY <1>1, <1>4, <1>5

\* A restore brings back what the mark promises.
LEMMA RestoreIsRestore == ASSUME IInv, Typed', SnapTops = NTOP, Restore PROVE DS!Restore
<1> DEFINE s == snaps[Len(snaps)]
<1>1. /\ Marks # <<>>
      /\ Marks' = SubSeq(Marks, 1, Len(Marks) - 1)
      /\ Marks[Len(Marks)] = MarkOf(s)
  BY MarksDropped DEF Restore, IInv
<1>2. s \in SnapType /\ Agrees(s) /\ RestsOn(s, spill, spill_ptr)
  <2>1. Len(snaps) \in Nat \ {0}
    BY DropFacts DEF IInv, Typed, Restore
  <2> QED BY <2>1, LiveSnaps
<1>3. /\ tops' = [k \in Tops |-> IF k < SnapTops THEN s.tops[k] ELSE tops[k]]
      /\ frame' = s.frame /\ cache_depth' = s.cache_depth /\ spill_ptr' = s.spill_ptr
      /\ out' = None /\ spill' = spill
  BY DEF Restore
<1> HIDE DEF s
<1>4. Depth' = Len(s.saved) /\ Len(s.saved) \in Nat
  BY <1>2, <1>3, SnapFields DEF Depth, Agrees
<1>5. \A k \in Tops : tops'[k] = s.tops[k]
  <2>1. \A k \in Tops : k < SnapTops
    BY DEF Tops
  <2> QED BY <1>3, <2>1
<1>6. Len(Stack') = Depth' /\ \A i \in 1..Depth' : Stack'[i] = Cell(i)'
  BY StackTypeNext DEF Typed
<1>7. \A i : Cell(i)' = CellIn(Cache', Len(s.saved), spill, s.spill_ptr, i)
  BY <1>3, <1>4 DEF Cell, CellIn, CachedAt
<1> DEFINE c == Cache'
<1>8. /\ c.cache_depth = s.cache_depth /\ c.frame = s.frame
      /\ \A k \in Tops : c.tops[k] = s.tops[k]
  BY <1>3, <1>5 DEF Cache
<1> HIDE DEF c
<1>9. ASSUME NEW i \in 1..Len(s.saved), i > s.spill_ptr \/ i <= s.low
      PROVE  Stack'[i] = s.saved[i]
  <2>1. CellIn(c, Len(s.saved), spill, s.spill_ptr, i) = s.saved[i]
    BY <1>2, <1>8, <1>9, RestoredCells
  <2>2. Stack'[i] = CellIn(c, Len(s.saved), spill, s.spill_ptr, i)
    BY <1>4, <1>6, <1>7 DEF c
  <2> QED BY <2>1, <2>2
<1>10. DS!RestoredFrom(Marks[Len(Marks)], Stack')
  BY <1>1, <1>4, <1>6, <1>9 DEF DS!RestoredFrom, MarkOf
<1> QED BY <1>1, <1>3, <1>10 DEF DS!Restore

\* Forgetting a snapshot.
LEMMA ForgetIsForget == ASSUME Typed, Typed', Forget PROVE DS!Forget
<1>1. Marks # <<>> /\ Marks' = SubSeq(Marks, 1, Len(Marks) - 1)
  BY MarksDropped DEF Forget
<1>2. Stack' = Stack /\ out' = None
  BY DEF Forget, stackVars, Stack, CachedAt, Cache, Depth
<1> QED BY <1>1, <1>2 DEF DS!Forget

\* Both begin empty.
LEMMA InitIsInit == Init => DS!Init
<1> SUFFICES ASSUME Init PROVE DS!Init
  OBVIOUS
<1>1. Typed /\ Depth = 0
  BY InitTyped DEF Init, Depth
<1>2. Stack = <<>>
  BY <1>1, StackType, EmptySeq DEF Typed
<1>3. Marks = <<>>
  <2>1. Len(snaps) = 0
    BY DEF Init
  <2> QED BY <1>1, <2>1, MarksType, EmptySeq
<1> QED BY <1>2, <1>3 DEF Init, DS!Init

\* Every step is one of the plain stack, or none.
LEMMA StepIsStep ==
  ASSUME SnapTops = NTOP
  PROVE  IInv /\ IInv' /\ [Next]_vars => [DS!Next]_(DS!vars)
<1> SUFFICES ASSUME IInv, IInv', [Next]_vars PROVE [DS!Next]_(DS!vars)
  OBVIOUS
<1>0. Typed /\ Typed' /\ TypeOK /\ TypeOK'
  BY DEF IInv, Typed
<1>1. ASSUME NEW v \in Value, Push(v) PROVE DS!Next
  BY <1>0, <1>1, PushIsPush DEF DS!Next
<1>2. CASE PushOverflow
  BY <1>0, <1>2, OverflowIsOverflow DEF DS!Next
<1>3. CASE Pop
  BY <1>0, <1>3, PopIsPop DEF DS!Next
<1>4. ASSUME NEW d \in 0..(Depth - 1), Peek(d) PROVE DS!Next
  BY <1>0, <1>4, PeekIsPeek DEF DS!Next
<1>5. ASSUME NEW d \in 0..(Depth - 1), NEW v \in Value, Poke(d, v) PROVE DS!Next
  BY <1>0, <1>5, PokeIsPoke DEF DS!Next
<1>6. CASE Call \/ CallOverflow
  BY <1>0, <1>6, CallIsCall DEF DS!Next
<1>7. CASE Clear
  BY <1>0, <1>7, ClearIsClear DEF DS!Next
<1>8. CASE Snapshot
  BY <1>0, <1>8, SnapshotIsSnapshot DEF DS!Next
<1>9. CASE Restore
  BY <1>0, <1>9, RestoreIsRestore DEF DS!Next
<1>10. CASE Forget
  BY <1>0, <1>10, ForgetIsForget DEF DS!Next
<1>11. CASE UNCHANGED vars
  BY <1>11, QuietSteps DEF vars, stackVars, DS!vars
<1> QED
  BY <1>1, <1>2, <1>3, <1>4, <1>5, <1>6, <1>7, <1>8, <1>9, <1>10, <1>11 DEF Next

\* With catch_push_frame's snapshots, which copy every top, the n-scalar layouts and
\* the frame-only one implement the plain data stack: a program cannot tell them
\* apart, not even after a call that overflowed with half its cells parked.
THEOREM LayoutIsDataStack == ASSUME SnapTops = NTOP PROVE Spec => IsDataStack
<1>1. Init => DS!Init
  BY InitIsInit
<1>2. IInv /\ [Next]_vars => IInv'
  BY NextIInv
<1>3. IInv /\ IInv' /\ [Next]_vars => [DS!Next]_(DS!vars)
  BY StepIsStep
<1> QED BY <1>1, <1>2, <1>3, InitIInv, PTL DEF Spec, IsDataStack, DS!Spec
=============================================================================
