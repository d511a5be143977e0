----------------------------- MODULE MetaStackN -----------------------------
(***************************************************************************)
(* The integer data stack in its other layouts: NTOP scalar tops over a    *)
(* frame and a spill (metastack_int_ntop.py; NTOP is 4, 8 or 16), and the  *)
(* frame alone (metastack_int_frameonly.py; NTOP is 0).  Unlike MetaStack, *)
(* a call parks its cells one by one, tops included when CallWindow is     *)
(* smaller than NTOP, and may park some before the spill overflows.        *)
(***************************************************************************)
EXTENDS Integers, Sequences

CONSTANTS
  Value, Zero,
  NTOP,        \* EFFECTIVE_NTOP
  FrameSize,   \* FRAME_SIZE
  SpillSize,   \* SPILL_SIZE
  CallWindow,  \* CALL_WINDOW: cells a call leaves in the cache
  CatchDepth,  \* snapshots that may be live at once
  SnapTops     \* how many tops a snapshot copies

CONSTANTS None, Overflow

ASSUME LayoutAssumption ==
  /\ NTOP \in Nat /\ FrameSize \in Nat \ {0} /\ SpillSize \in Nat
  /\ CallWindow \in Nat /\ CallWindow <= NTOP + FrameSize
  /\ CatchDepth \in Nat /\ SnapTops \in 0..NTOP
  /\ Zero \in Value

ActiveMax == NTOP + FrameSize
Tops == 0..(NTOP - 1)
Slots == 0..(FrameSize - 1)
Cells == 0..(SpillSize - 1)

VARIABLES
  tops,         \* t0 .. t15, the first NTOP of them
  cache_depth,
  frame,
  spill, spill_ptr,
  snaps,        \* live snapshots, innermost last
  out           \* what the last operation returned or raised

stackVars == <<tops, cache_depth, frame, spill, spill_ptr>>
vars == <<tops, cache_depth, frame, spill, spill_ptr, snaps, out>>

Depth == cache_depth + spill_ptr

\* The cell d below the top, in a cache with these tops, frame and depth.
CachedAt(c, d) ==
  IF d < NTOP THEN c.tops[d] ELSE c.frame[c.cache_depth - 1 - d]

Cache == [tops |-> tops, frame |-> frame, cache_depth |-> cache_depth]

Stack ==
  [i \in 1..Depth |-> IF i <= spill_ptr THEN spill[i - 1]
                                        ELSE CachedAt(Cache, Depth - i)]

Least(a, b) == IF a <= b THEN a ELSE b

\* History, as in MetaStack.
Touched(k) ==
  snaps' = [n \in DOMAIN snaps |-> [snaps[n] EXCEPT !.low = Least(@, k)]]

-----------------------------------------------------------------------------
Init ==
  /\ tops = [k \in Tops |-> Zero]
  /\ cache_depth = 0
  /\ frame = [i \in Slots |-> Zero]
  /\ spill = [i \in Cells |-> Zero]
  /\ spill_ptr = 0
  /\ snaps = <<>>
  /\ out = None

\* _spill_bottom and _park_one lose frame[0]; the rest slide down.
ShiftedFrame(f) == [i \in Slots |-> IF i < FrameSize - 1 THEN f[i + 1] ELSE f[i]]

\* _push_scalar
PushTop(v) == [k \in Tops |-> IF k = 0 THEN v ELSE tops[k - 1]]

\* Mutant of PopTop: the lowest top is not refilled.
PopTopNoRefill(refill) == [k \in Tops |-> IF k = NTOP - 1 THEN tops[k] ELSE tops[k + 1]]

\* _pop_scalar_shift
PopTop(refill) == [k \in Tops |-> IF k = NTOP - 1 THEN refill ELSE tops[k + 1]]

\* The cell the frame receives when v is pushed over dd cached cells.
SinksInto(f, dd, v) ==
  IF dd >= NTOP
  THEN [f EXCEPT ![dd - NTOP] = IF NTOP = 0 THEN v ELSE tops[NTOP - 1]]
  ELSE f

\* Mutant of Push: no test for a full spill.
PushUnchecked(v) ==
  /\ \/ /\ cache_depth < ActiveMax
        /\ frame' = SinksInto(frame, cache_depth, v)
        /\ cache_depth' = cache_depth + 1
        /\ UNCHANGED <<spill, spill_ptr>>
     \/ /\ cache_depth >= ActiveMax
        /\ spill' = [spill EXCEPT ![spill_ptr] = frame[0]]
        /\ spill_ptr' = spill_ptr + 1
        /\ frame' = SinksInto(ShiftedFrame(frame), cache_depth - 1, v)
        /\ UNCHANGED cache_depth
  /\ tops' = PushTop(v)
  /\ out' = None
  /\ UNCHANGED snaps

Push(v) ==
  /\ \/ /\ cache_depth < ActiveMax
        /\ frame' = SinksInto(frame, cache_depth, v)
        /\ cache_depth' = cache_depth + 1
        /\ UNCHANGED <<spill, spill_ptr>>
     \/ /\ cache_depth >= ActiveMax
        /\ spill_ptr < SpillSize
        /\ spill' = [spill EXCEPT ![spill_ptr] = frame[0]]
        /\ spill_ptr' = spill_ptr + 1
        /\ frame' = SinksInto(ShiftedFrame(frame), cache_depth - 1, v)
        /\ UNCHANGED cache_depth
  /\ tops' = PushTop(v)
  /\ out' = None
  /\ UNCHANGED snaps

PushOverflow ==
  /\ cache_depth >= ActiveMax
  /\ spill_ptr >= SpillSize
  /\ out' = Overflow
  /\ UNCHANGED <<stackVars, snaps>>

Pop ==
  /\ \/ /\ cache_depth > 0
        /\ out' = CachedAt(Cache, 0)
        /\ tops' = PopTop(IF cache_depth > NTOP THEN frame[cache_depth - NTOP - 1]
                                                ELSE Zero)
        /\ cache_depth' = cache_depth - 1
        /\ UNCHANGED spill_ptr
     \/ /\ cache_depth <= 0
        /\ spill_ptr > 0
        /\ out' = spill[spill_ptr - 1]
        /\ spill_ptr' = spill_ptr - 1
        /\ UNCHANGED <<tops, cache_depth>>
  /\ Touched(Depth - 1)
  /\ UNCHANGED <<frame, spill>>

SpillIndex(d) == spill_ptr - 1 - (d - cache_depth)

Peek(d) ==
  /\ d < Depth
  /\ out' = IF d < cache_depth THEN CachedAt(Cache, d) ELSE spill[SpillIndex(d)]
  /\ UNCHANGED <<stackVars, snaps>>

Poke(d, v) ==
  /\ d < Depth
  /\ LET top == d < cache_depth /\ d < NTOP
         framed == d < cache_depth /\ d >= NTOP
     IN  /\ tops' = IF top THEN [tops EXCEPT ![d] = v] ELSE tops
         /\ frame' = IF framed THEN [frame EXCEPT ![cache_depth - 1 - d] = v] ELSE frame
         /\ spill' = IF d >= cache_depth THEN [spill EXCEPT ![SpillIndex(d)] = v] ELSE spill
  /\ out' = None
  /\ Touched(Depth - d - 1)
  /\ UNCHANGED <<cache_depth, spill_ptr>>

\* push_fragment_on's loop: how many cells it parks if the spill allows.
ToPark == IF cache_depth > CallWindow THEN cache_depth - CallWindow ELSE 0

\* _park_one, and the frame-only layout's _spill_bottom, on cache c.  The last
\* slot written back is above the frame's cells: its value is never read.
ParkOne(c) ==
  IF c.cache_depth > NTOP
  THEN [tops |-> c.tops, cache_depth |-> c.cache_depth - 1,
        frame |-> IF NTOP = 0 THEN ShiftedFrame(c.frame)
                  ELSE [ShiftedFrame(c.frame) EXCEPT
                          ![c.cache_depth - NTOP - 1] = c.tops[NTOP - 1]]]
  ELSE [c EXCEPT !.cache_depth = c.cache_depth - 1]

\* The cache once its deepest n cells have been parked.
AfterParking(n) ==
  LET after[k \in 0..n] == IF k = 0 THEN Cache ELSE ParkOne(after[k - 1])
  IN  after[n]

Park(n) ==
  LET c == AfterParking(n) IN
    /\ tops' = c.tops
    /\ frame' = c.frame
    /\ cache_depth' = c.cache_depth
    /\ spill' = [i \in Cells |-> IF i \in spill_ptr..(spill_ptr + n - 1)
                                 THEN CachedAt(Cache, cache_depth - 1 - (i - spill_ptr))
                                 ELSE spill[i]]
    /\ spill_ptr' = spill_ptr + n
    /\ UNCHANGED snaps

Call ==
  /\ spill_ptr + ToPark <= SpillSize
  /\ Park(ToPark)
  /\ out' = None

\* DataStackOverflow on the way: what has been parked stays parked.
CallOverflow ==
  /\ spill_ptr + ToPark > SpillSize
  /\ Park(SpillSize - spill_ptr)
  /\ out' = Overflow

Clear ==
  /\ tops' = [k \in Tops |-> Zero]
  /\ cache_depth' = 0
  /\ spill_ptr' = 0
  /\ out' = None
  /\ UNCHANGED <<frame, spill>>
  /\ Touched(0)

\* catch_push_frame copies every top.  The CATCH of a primitive goes through
\* metastack_int.snapshot_cache, which copies t0 and t1.
Snapshot ==
  /\ Len(snaps) < CatchDepth
  /\ snaps' = Append(snaps,
       [tops |-> [k \in 0..(SnapTops - 1) |-> tops[k]], frame |-> frame,
        cache_depth |-> cache_depth, spill_ptr |-> spill_ptr,
        saved |-> Stack, low |-> Depth])
  /\ out' = None
  /\ UNCHANGED stackVars

DropInnermost == snaps' = SubSeq(snaps, 1, Len(snaps) - 1)

Restore ==
  /\ snaps # <<>>
  /\ LET s == snaps[Len(snaps)] IN
       /\ tops' = [k \in Tops |-> IF k < SnapTops THEN s.tops[k] ELSE tops[k]]
       /\ frame' = s.frame
       /\ cache_depth' = s.cache_depth
       /\ spill_ptr' = s.spill_ptr
  /\ DropInnermost
  /\ out' = None
  /\ UNCHANGED spill

Forget ==
  /\ snaps # <<>>
  /\ DropInnermost
  /\ out' = None
  /\ UNCHANGED stackVars

Next ==
  \/ \E v \in Value : Push(v)
  \/ PushOverflow
  \/ Pop
  \/ \E d \in 0..(Depth - 1) : Peek(d)
  \/ \E d \in 0..(Depth - 1), v \in Value : Poke(d, v)
  \/ Call
  \/ CallOverflow
  \/ Clear
  \/ Snapshot
  \/ Restore
  \/ Forget

Spec == Init /\ [][Next]_vars

-----------------------------------------------------------------------------
\* The write-back index of _park_one and every other index stay in range.
TypeOK ==
  /\ tops \in [Tops -> Value]
  /\ cache_depth \in 0..ActiveMax
  /\ frame \in [Slots -> Value]
  /\ spill \in [Cells -> Value]
  /\ spill_ptr \in 0..SpillSize
  /\ out \in Value \cup {None, Overflow}

Marks ==
  [n \in DOMAIN snaps |-> [saved |-> snaps[n].saved,
                           floor |-> snaps[n].spill_ptr,
                           low |-> snaps[n].low]]

DS == INSTANCE DataStack WITH
        stack <- Stack, marks <- Marks,
        Capacity <- ActiveMax + SpillSize,
        CallCapacity <- CallWindow + SpillSize,
        MaxMarks <- CatchDepth

\* The plain stack again, with the same two limits: a program cannot tell the
\* layouts apart, not even by a call that overflows half-way.
IsDataStack == DS!Spec
=============================================================================
