---------------------------- MODULE FactorStack ----------------------------
(***************************************************************************)
(* The two stacks rpyfactor can be built with (stackrep.py), as operators  *)
(* on a stack s:                                                           *)
(*   - NaiveStack, a list;                                                 *)
(*   - the fragment cache: two scalar tops, a frame, and a spill shared by *)
(*     all fragments, in which a call parks its caller's cells.            *)
(* A cell of the cache lies in three planes: an integer, a tag, an object. *)
(* The field err is the FactorError on its way to entry_point; once it is  *)
(* raised no operation does anything.                                      *)
(***************************************************************************)
EXTENDS Integers, Sequences

CONSTANTS
  FrameSize,  \* FRAME_SIZE
  SpillSize   \* SPILL_SIZE

ASSUME FactorSizes == FrameSize \in Nat \ {0} /\ SpillSize \in Nat

NTOP == 2
ActiveMax == NTOP + FrameSize

Ok == "none"
None == <<"none">>
IsInt(v) == v[1] = "int"
IntV(n) == <<"int", n>>

\* _value_parts and _cell_to_value
Parts(v) == IF IsInt(v) THEN [i |-> v[2], t |-> "int", o |-> None]
                        ELSE [i |-> 0, t |-> "obj", o |-> v]
CellValue(c) == IF c.t = "int" THEN IntV(c.i) ELSE c.o

Blank == [i |-> 0, t |-> "obj", o |-> None]
Naive == [layout |-> "naive", items |-> <<>>, err |-> Ok]
Fragments ==
  [layout |-> "fragment", t0 |-> Blank, t1 |-> Blank, d |-> 0,
   frame |-> [k \in 0..(FrameSize - 1) |-> Blank], frag |-> 0,
   spill |-> [k \in 0..(SpillSize - 1) |-> Blank], sp |-> 0, err |-> Ok]

IsNaive(s) == s.layout = "naive"
Fine(s) == s.err = Ok
Raise(s, e) == IF Fine(s) THEN [s EXCEPT !.err = e] ELSE s

Size(s) == IF IsNaive(s) THEN Len(s.items) ELSE s.d + s.sp

-----------------------------------------------------------------------------
\* Mutant of SpillBottom: the end of the spill is not looked for.
SpillBottomUnchecked(s) ==
  [s EXCEPT !.spill = [k \in DOMAIN @ |-> IF k = s.sp THEN s.frame[0] ELSE @[k]],
            !.sp = @ + 1,
            !.frame = [k \in DOMAIN @ |-> IF k < FrameSize - 1 THEN @[k + 1] ELSE @[k]],
            !.d = @ - 1]

\* _spill_bottom: the deepest cell of the frame goes to the spill.
SpillBottom(s) ==
  IF s.sp >= SpillSize THEN Raise(s, "overflow")
  ELSE [s EXCEPT !.spill[s.sp] = s.frame[0],
                 !.sp = s.sp + 1,
                 !.frame = [k \in DOMAIN s.frame |->
                              IF k < FrameSize - 1 THEN s.frame[k + 1] ELSE s.frame[k]],
                 !.d = s.d - 1]

\* _push_parts once there is room in the cache
PushCached(s, c) ==
  [s EXCEPT !.frame = IF s.d >= NTOP THEN [s.frame EXCEPT ![s.d - NTOP] = s.t1]
                      ELSE s.frame,
            !.t1 = s.t0,
            !.t0 = c,
            !.d = s.d + 1]

PushCell(s, c) ==
  IF ~Fine(s) THEN s
  ELSE IF IsNaive(s) THEN [s EXCEPT !.items = Append(@, CellValue(c))]
  ELSE LET room == IF s.d >= ActiveMax THEN SpillBottom(s) ELSE s
       IN  IF Fine(room) THEN PushCached(room, c) ELSE room

Push(s, v) == PushCell(s, Parts(v))
PushInt(s, n) == Push(s, IntV(n))

\* _peek_parts at depth n, which the stack must have
CellAt(s, n) ==
  IF IsNaive(s) THEN Parts(s.items[Len(s.items) - n])
  ELSE IF n >= s.d THEN s.spill[s.sp - 1 - (n - s.d)]
  ELSE IF n = 0 THEN s.t0
  ELSE IF n = 1 THEN s.t1
  ELSE s.frame[s.d - 1 - n]

Need(s, n) == IF Size(s) < n THEN Raise(s, "underflow") ELSE s
Top(s) == IF Size(s) > 0 THEN CellValue(CellAt(s, 0)) ELSE None

\* top_is_int asks the tag plane only.
TopIsInt(s) ==
  IF IsNaive(s) THEN Size(s) > 0 /\ IsInt(Top(s))
  ELSE IF s.d > 0 THEN s.t0.t = "int"
  ELSE s.sp > 0 /\ s.spill[s.sp - 1].t = "int"

PopCached(s) ==
  [s EXCEPT !.t0 = s.t1,
            !.t1 = IF s.d > NTOP THEN s.frame[s.d - NTOP - 1] ELSE s.t1,
            !.d = s.d - 1]

Pop(s) ==
  IF ~Fine(s) THEN s
  ELSE IF Size(s) = 0 THEN Raise(s, "underflow")
  ELSE IF IsNaive(s) THEN [s EXCEPT !.items = SubSeq(@, 1, Len(@) - 1)]
  ELSE IF s.d > 0 THEN PopCached(s)
  ELSE [s EXCEPT !.sp = @ - 1]

-----------------------------------------------------------------------------
\* Mutant of PushFragment: the cells are parked upside down.
PushFragmentReversed(s) ==
  LET n == s.d - NTOP
  IN  IF ~Fine(s) \/ IsNaive(s) THEN s
      ELSE IF n <= 0 THEN [s EXCEPT !.frag = @ + 1]
      ELSE IF s.sp + n > SpillSize THEN Raise([s EXCEPT !.frag = @ + 1], "overflow")
      ELSE [s EXCEPT !.frag = @ + 1,
                     !.spill = [k \in DOMAIN @ |->
                                  IF k \in s.sp..(s.sp + n - 1)
                                  THEN s.frame[n - 1 - (k - s.sp)] ELSE @[k]],
                     !.sp = @ + n,
                     !.d = NTOP]

\* push_fragment: the cells below the tops are parked.
PushFragment(s) ==
  LET n == s.d - NTOP
  IN  IF ~Fine(s) \/ IsNaive(s) THEN s
      ELSE IF n <= 0 THEN [s EXCEPT !.frag = @ + 1]
      ELSE IF s.sp + n > SpillSize THEN Raise([s EXCEPT !.frag = @ + 1], "overflow")
      ELSE [s EXCEPT !.frag = s.frag + 1,
                     !.spill = [k \in DOMAIN s.spill |->
                                  IF k \in s.sp..(s.sp + n - 1)
                                  THEN s.frame[k - s.sp] ELSE s.spill[k]],
                     !.sp = s.sp + n,
                     !.d = NTOP]

CommitFragment(s) ==
  IF ~Fine(s) \/ IsNaive(s) THEN s
  ELSE IF s.frag = 0 THEN Raise(s, "fragment underflow")
  ELSE [s EXCEPT !.frag = s.frag - 1]

\* A snapshot of the cache has the pointer into the spill, not its cells.
SnapshotCache(s) ==
  IF IsNaive(s) THEN [items |-> s.items]
  ELSE [t0 |-> s.t0, t1 |-> s.t1, d |-> s.d, frame |-> s.frame,
        frag |-> s.frag, sp |-> s.sp]

RestoreCache(s, snap) ==
  IF ~Fine(s) THEN s
  ELSE IF IsNaive(s) THEN [s EXCEPT !.items = snap.items]
  ELSE [s EXCEPT !.t0 = snap.t0, !.t1 = snap.t1, !.d = snap.d,
                 !.frame = snap.frame, !.frag = snap.frag, !.sp = snap.sp]

\* snapshot_flat: the values, deepest first.
Flat(s) ==
  IF IsNaive(s) THEN s.items
  ELSE [k \in 1..Size(s) |-> CellValue(CellAt(s, Size(s) - k))]

Reset(s) ==
  IF IsNaive(s) THEN [s EXCEPT !.items = <<>>]
  ELSE [Fragments EXCEPT !.spill = s.spill]

\* replace_items: reset, keeping the count of fragments, and push them all.
ReplaceItems(s, vs) ==
  LET empty == IF IsNaive(s) THEN Reset(s) ELSE [Reset(s) EXCEPT !.frag = s.frag]
      filled[k \in 0..Len(vs)] ==
        IF k = 0 THEN empty ELSE Push(filled[k - 1], vs[k])
  IN  IF Fine(s) THEN filled[Len(vs)] ELSE s
=============================================================================
