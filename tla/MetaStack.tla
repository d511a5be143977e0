----------------------------- MODULE MetaStack -----------------------------
(***************************************************************************)
(* The integer data stack in its flagship layout (metastack_int.py): the   *)
(* top NTOP cells in the scalars t0 and t1, the next FrameSize cells in    *)
(* frame, everything deeper in spill[0 .. spill_ptr-1].  A call parks the  *)
(* caller's cells in the spill, a return moves nothing, CATCH copies the   *)
(* cache but not the spill.                                                *)
(*                                                                         *)
(* Stack below is the stack a Forth word sees; the refinement DS says that *)
(* every operation of this layout is the DataStack operation of that name. *)
(* The float stack (metastack_float.py) is the same code over ft0, ft1,    *)
(* fframe, fspill: it is this module with other names for the variables.   *)
(***************************************************************************)
EXTENDS Integers, Sequences

CONSTANTS
  Value,      \* the values a cell may hold
  Zero,       \* what a fresh cell holds
  FrameSize,  \* FRAME_SIZE
  SpillSize,  \* SPILL_SIZE
  CatchDepth  \* snapshots that may be live at once (CATCH_DEPTH)

CONSTANTS None, Overflow

ASSUME SizeAssumption ==
  /\ FrameSize \in Nat \ {0}
  /\ SpillSize \in Nat
  /\ CatchDepth \in Nat

ASSUME ValueAssumption == Zero \in Value

NTOP == 2
ActiveMax == NTOP + FrameSize

Slots == 0..(FrameSize - 1)
Cells == 0..(SpillSize - 1)

VARIABLES
  t0, t1,       \* the two scalar tops
  cache_depth,  \* cells held by t0, t1 and frame
  frame,        \* the cells below the tops, frame[0] deepest
  spill,        \* the shared arena, spill[0] deepest
  spill_ptr,    \* cells parked in the arena
  snaps,        \* live snapshots, innermost last
  out           \* what the last operation returned or raised

cacheVars == <<t0, t1, cache_depth, frame>>
stackVars == <<t0, t1, cache_depth, frame, spill, spill_ptr>>
vars == <<t0, t1, cache_depth, frame, spill, spill_ptr, snaps, out>>

Depth == cache_depth + spill_ptr

\* Cell number j of cache c, counted from its deepest.
CachedCell(c, j) ==
  IF j = c.cache_depth - 1 THEN c.t0
  ELSE IF j = c.cache_depth - 2 THEN c.t1
  ELSE c.frame[j]

\* Cell number i of the stack, counted from the bottom, when the cache is c.
CellOf(c, i) ==
  IF i < c.spill_ptr THEN spill[i] ELSE CachedCell(c, i - c.spill_ptr)

Cache == [t0 |-> t0, t1 |-> t1, cache_depth |-> cache_depth,
          frame |-> frame, spill_ptr |-> spill_ptr]

Stack == [i \in 1..Depth |-> CellOf(Cache, i - 1)]

Least(a, b) == IF a <= b THEN a ELSE b

\* History: `low` of each live snapshot drops to k when a step may change a
\* cell at or above k; the code keeps no such record.
Touched(k) ==
  snaps' = [n \in DOMAIN snaps |-> [cache |-> snaps[n].cache,
                                     saved |-> snaps[n].saved,
                                     low   |-> Least(snaps[n].low, k)]]

-----------------------------------------------------------------------------
Init ==
  /\ t0 = Zero /\ t1 = Zero
  /\ cache_depth = 0
  /\ frame = [i \in Slots |-> Zero]
  /\ spill = [i \in Cells |-> Zero]
  /\ spill_ptr = 0
  /\ snaps = <<>>
  /\ out = None

\* push_on with room in the cache: t1 slides into the frame, t0 into t1.
PushCached(v) ==
  /\ cache_depth < ActiveMax
  /\ frame' = IF cache_depth >= NTOP
              THEN [frame EXCEPT ![cache_depth - NTOP] = t1]
              ELSE frame
  /\ cache_depth' = cache_depth + 1
  /\ UNCHANGED <<spill, spill_ptr>>

\* _spill_bottom: what the frame is once its deepest cell has gone to the spill.
Shifted == [i \in Slots |-> IF i < FrameSize - 1 THEN frame[i + 1] ELSE frame[i]]

\* Mutant of PushSpilling: no test for a full spill.
PushSpillingUnchecked(v) ==
  /\ cache_depth >= ActiveMax
  /\ spill' = [spill EXCEPT ![spill_ptr] = frame[0]]
  /\ spill_ptr' = spill_ptr + 1
  /\ frame' = [Shifted EXCEPT ![cache_depth - 1 - NTOP] = t1]
  /\ UNCHANGED cache_depth

\* push_on with the cache full: frame[0] is parked first.
PushSpilling(v) ==
  /\ cache_depth >= ActiveMax
  /\ spill_ptr < SpillSize
  /\ spill' = [spill EXCEPT ![spill_ptr] = frame[0]]
  /\ spill_ptr' = spill_ptr + 1
  /\ frame' = [Shifted EXCEPT ![cache_depth - 1 - NTOP] = t1]
  /\ UNCHANGED cache_depth

Push(v) ==
  /\ PushCached(v) \/ PushSpilling(v)
  /\ t1' = t0
  /\ t0' = v
  /\ out' = None
  /\ UNCHANGED snaps

\* DataStackOverflow from _spill_bottom, raised before anything is written.
PushOverflow ==
  /\ cache_depth >= ActiveMax
  /\ spill_ptr >= SpillSize
  /\ out' = Overflow
  /\ UNCHANGED <<stackVars, snaps>>

PopCached ==
  /\ cache_depth > 0
  /\ out' = t0
  /\ t0' = t1
  /\ t1' = IF cache_depth > NTOP THEN frame[cache_depth - NTOP - 1] ELSE t1
  /\ cache_depth' = cache_depth - 1
  /\ UNCHANGED <<frame, spill, spill_ptr>>

\* _pop_from_spill: the cell stays in the arena, only spill_ptr moves.
PopSpill ==
  /\ cache_depth <= 0
  /\ spill_ptr > 0
  /\ out' = spill[spill_ptr - 1]
  /\ spill_ptr' = spill_ptr - 1
  /\ UNCHANGED <<cacheVars, spill>>

Pop ==
  /\ PopCached \/ PopSpill
  /\ Touched(Depth - 1)

\* peek_on; below an empty stack the code's assertion fails.
Peek(d) ==
  /\ d < Depth
  /\ out' = IF d < cache_depth
            THEN IF d = 0 THEN t0 ELSE IF d = 1 THEN t1
                 ELSE frame[cache_depth - 1 - d]
            ELSE spill[spill_ptr - 1 - (d - cache_depth)]
  /\ UNCHANGED <<stackVars, snaps>>

\* poke_on in the cache.
PokeCached(d, v) ==
  /\ d < cache_depth
  /\ t0' = IF d = 0 THEN v ELSE t0
  /\ t1' = IF d = 1 THEN v ELSE t1
  /\ frame' = IF d >= NTOP THEN [frame EXCEPT ![cache_depth - 1 - d] = v] ELSE frame
  /\ UNCHANGED <<cache_depth, spill, spill_ptr>>

\* poke_on in a parked cell.
PokeSpill(d, v) ==
  /\ d >= cache_depth
  /\ spill' = [spill EXCEPT ![spill_ptr - 1 - (d - cache_depth)] = v]
  /\ UNCHANGED <<cacheVars, spill_ptr>>

Poke(d, v) ==
  /\ d < Depth
  /\ PokeCached(d, v) \/ PokeSpill(d, v)
  /\ out' = None
  /\ Touched(Depth - d - 1)

\* push_fragment_on at a call: all but NTOP cached cells go to the spill.
Parked == IF cache_depth > NTOP THEN cache_depth - NTOP ELSE 0

\* Mutant of Call: parks one cell too low.
CallTooLow ==
  /\ Parked = 0 \/ spill_ptr + Parked <= SpillSize
  /\ spill' = [i \in Cells |-> IF i \in (spill_ptr - 1)..(spill_ptr + Parked - 2)
                               THEN frame[i - spill_ptr + 1] ELSE spill[i]]
  /\ spill_ptr' = spill_ptr + Parked
  /\ cache_depth' = cache_depth - Parked
  /\ out' = None
  /\ UNCHANGED <<t0, t1, frame, snaps>>

Call ==
  /\ Parked = 0 \/ spill_ptr + Parked <= SpillSize
  /\ spill' = [i \in Cells |-> IF i \in spill_ptr..(spill_ptr + Parked - 1)
                               THEN frame[i - spill_ptr] ELSE spill[i]]
  /\ spill_ptr' = spill_ptr + Parked
  /\ cache_depth' = cache_depth - Parked
  /\ out' = None
  /\ UNCHANGED <<t0, t1, frame, snaps>>

CallOverflow ==
  /\ Parked > 0
  /\ spill_ptr + Parked > SpillSize
  /\ out' = Overflow
  /\ UNCHANGED <<stackVars, snaps>>

\* reset_on: frame and spill keep their contents.
Clear ==
  /\ t0' = Zero /\ t1' = Zero
  /\ cache_depth' = 0
  /\ spill_ptr' = 0
  /\ out' = None
  /\ UNCHANGED <<frame, spill>>
  /\ Touched(0)

\* Mutant of Snapshot: t1 is saved from t0.
SnapshotMixed ==
  /\ Len(snaps) < CatchDepth
  /\ snaps' = Append(snaps, [cache |-> [Cache EXCEPT !.t1 = t0],
                             saved |-> Stack, low |-> Depth])
  /\ out' = None
  /\ UNCHANGED stackVars

\* snapshot_cache.  `saved` and `low` are history: the stack it was taken of,
\* and how far down that stack has been disturbed since.
Snapshot ==
  /\ Len(snaps) < CatchDepth
  /\ snaps' = Append(snaps, [cache |-> Cache, saved |-> Stack, low |-> Depth])
  /\ out' = None
  /\ UNCHANGED stackVars

Innermost == snaps[Len(snaps)]
DropInnermost == snaps' = SubSeq(snaps, 1, Len(snaps) - 1)

\* Mutant of Restore: the spill pointer is left where it is.
RestoreNoSpill ==
  /\ snaps # <<>>
  /\ LET c == Innermost.cache IN
       /\ t0' = c.t0
       /\ t1' = c.t1
       /\ cache_depth' = c.cache_depth
       /\ frame' = c.frame
  /\ DropInnermost
  /\ out' = None
  /\ UNCHANGED <<spill, spill_ptr>>

\* restore_cache: the spill's contents are left in place.
Restore ==
  /\ snaps # <<>>
  /\ LET c == Innermost.cache IN
       /\ t0' = c.t0
       /\ t1' = c.t1
       /\ cache_depth' = c.cache_depth
       /\ frame' = c.frame
       /\ spill_ptr' = c.spill_ptr
  /\ DropInnermost
  /\ out' = None
  /\ UNCHANGED spill

\* The protected word returned normally: catch_drop_frame.
Forget ==
  /\ snaps # <<>>
  /\ DropInnermost
  /\ out' = None
  /\ UNCHANGED stackVars

Next ==
  \/ \E v \in Value : Push(v)
  \/ PushOverflow
  \/ Pop
  \/ \E d \in 0..(Depth - 1) : Peek(d)
  \/ \E d \in 0..(Depth - 1), v \in Value : Poke(d, v)
  \/ Call
  \/ CallOverflow
  \/ Clear
  \/ Snapshot
  \/ Restore
  \/ Forget

Spec == Init /\ [][Next]_vars

-----------------------------------------------------------------------------
CacheType ==
  [t0 : Value, t1 : Value, cache_depth : 0..ActiveMax,
   frame : [Slots -> Value], spill_ptr : 0..SpillSize]

SnapType == [cache : CacheType, saved : Seq(Value), low : Nat]

\* Pointers stay inside their arrays, whatever is pushed, called or thrown:
\* the translated interpreter indexes frame and spill without a bounds check.
TypeOK ==
  /\ t0 \in Value /\ t1 \in Value
  /\ cache_depth \in 0..ActiveMax
  /\ frame \in [Slots -> Value]
  /\ spill \in [Cells -> Value]
  /\ spill_ptr \in 0..SpillSize
  /\ snaps \in Seq(SnapType)
  /\ out \in Value \cup {None, Overflow}

\* A snapshot agrees with the stack it was taken of on every cell it copied.
SnapshotFaithful ==
  \A n \in DOMAIN snaps :
    LET s == snaps[n] IN
      /\ Len(s.saved) = s.cache.cache_depth + s.cache.spill_ptr
      /\ s.low <= Len(s.saved)
      /\ \A j \in 0..(s.cache.cache_depth - 1) :
           s.saved[s.cache.spill_ptr + j + 1] = CachedCell(s.cache, j)

\* What makes CATCH's uncopied spill usable: below the point a protected word
\* has cut the stack to, nothing parked there has been overwritten, and the
\* spill still reaches that high.
SpillUndisturbed ==
  \A n \in DOMAIN snaps :
    LET s == snaps[n]
        k == Least(s.low, s.cache.spill_ptr)
    IN  /\ spill_ptr >= k
        /\ \A i \in 0..(k - 1) : spill[i] = s.saved[i + 1]

\* The same for a live snapshot nested in another: restoring the inner one
\* must leave the outer one restorable.
NestedSnapshots ==
  \A m, n \in DOMAIN snaps :
    m < n => snaps[n].cache.spill_ptr
               >= Least(snaps[m].low, snaps[m].cache.spill_ptr)

IInv == TypeOK /\ SnapshotFaithful /\ SpillUndisturbed /\ NestedSnapshots

-----------------------------------------------------------------------------
Marks ==
  [n \in DOMAIN snaps |-> [saved |-> snaps[n].saved,
                           floor |-> snaps[n].cache.spill_ptr,
                           low |-> snaps[n].low]]

DS == INSTANCE DataStack WITH
        stack <- Stack, marks <- Marks,
        Capacity <- ActiveMax + SpillSize,
        CallCapacity <- NTOP + SpillSize,
        MaxMarks <- CatchDepth

\* Every step of the layout is a step of the plain stack: no cell is lost,
\* duplicated or reordered by a spill, a call, a return or a restore, and
\* overflow is raised exactly when the stack is too deep.
IsDataStack == DS!Spec
=============================================================================
