-------------------------- MODULE MetaStackProofs --------------------------
EXTENDS MetaStack, SequenceTheorems, TLAPS

\* The stack begins empty, within its arrays.
LEMMA InitTypeOK == Init => TypeOK
BY SizeAssumption, ValueAssumption DEF Init, TypeOK, Slots, Cells, ActiveMax, NTOP

\* A step that cuts the stack to k notes it in every live snapshot.
LEMMA TouchedFacts ==
  ASSUME NEW k \in Nat, snaps \in Seq(SnapType), Touched(k)
  PROVE  /\ snaps' \in Seq(SnapType)
         /\ Len(snaps') = Len(snaps)
         /\ \A n \in 1..Len(snaps) :
              /\ snaps'[n].cache = snaps[n].cache
              /\ snaps'[n].saved = snaps[n].saved
              /\ snaps'[n].low = Least(snaps[n].low, k)
<1> DEFINE e(n) == [cache |-> snaps[n].cache,
                    saved |-> snaps[n].saved,
                    low   |-> Least(snaps[n].low, k)]
<1>1. /\ Len(snaps) \in Nat
      /\ DOMAIN snaps = 1..Len(snaps)
      /\ \A n \in 1..Len(snaps) : snaps[n] \in SnapType
  BY LenProperties, ElementOfSeq
<1>2. \A n \in 1..Len(snaps) : e(n) \in SnapType
  BY <1>1 DEF SnapType, Least
<1>3. snaps' = [n \in 1..Len(snaps) |-> e(n)]
  BY <1>1 DEF Touched
<1> HIDE DEF e
<1>4. snaps' \in [1..Len(snaps) -> SnapType]
  BY <1>2, <1>3
<1>5. snaps' \in Seq(SnapType)
  BY <1>1, <1>4, SeqDef
<1>6. Len(snaps') = Len(snaps)
  BY <1>1, <1>4, <1>5, LenProperties
<1> USE DEF e
<1>7. ASSUME NEW n \in 1..Len(snaps)
      PROVE  /\ snaps'[n].cache = snaps[n].cache
             /\ snaps'[n].saved = snaps[n].saved
             /\ snaps'[n].low = Least(snaps[n].low, k)
  <2>1. snaps'[n] = e(n)
    BY <1>3, Zenon
  <2> QED BY <2>1
<1> QED BY <1>5, <1>6, <1>7

\* Dropping the innermost snapshot leaves the others as they were.
LEMMA DropFacts ==
  ASSUME snaps \in Seq(SnapType), snaps # <<>>, DropInnermost
  PROVE  /\ snaps' \in Seq(SnapType)
         /\ Len(snaps') = Len(snaps) - 1
         /\ \A n \in 1..(Len(snaps) - 1) : snaps'[n] = snaps[n]
         /\ Len(snaps) \in Nat \ {0}
         /\ Innermost = snaps[Len(snaps)] /\ Innermost \in SnapType
<1>1. Len(snaps) \in Nat \ {0}
  BY EmptySeq
<1>2. \A n \in 1..Len(snaps) : snaps[n] \in SnapType
  BY ElementOfSeq
<1>3. \A n \in 1..(Len(snaps) - 1) : snaps[n] \in SnapType
  BY <1>1, <1>2
<1>4. /\ snaps' \in Seq(SnapType)
      /\ Len(snaps') = IF 1 <= Len(snaps) - 1 THEN (Len(snaps) - 1) - 1 + 1 ELSE 0
      /\ \A i \in 1..((Len(snaps) - 1) - 1 + 1) : snaps'[i] = snaps[1 + i - 1]
  <2> DEFINE S == SnapType
             m == Len(snaps) - 1
  <2>1. m \in Int BY <1>1
  <2>2. \A i \in 1..m : snaps[i] \in S BY <1>3
  <2>3. snaps' = SubSeq(snaps, 1, m) BY DEF DropInnermost
  <2> HIDE DEF S, m
  <2>4. /\ SubSeq(snaps, 1, m) \in Seq(S)
        /\ Len(SubSeq(snaps, 1, m)) = IF 1 <= m THEN m - 1 + 1 ELSE 0
        /\ \A i \in 1..(m - 1 + 1) : SubSeq(snaps, 1, m)[i] = snaps[1 + i - 1]
    BY <2>1, <2>2, SubSeqProperties
  <2> QED BY <2>3, <2>4 DEF S, m
<1>5. Len(snaps') = Len(snaps) - 1
  <2> DEFINE l == Len(snaps)
             k == Len(snaps')
  <2>1. l \in Nat \ {0} /\ k = IF 1 <= l - 1 THEN (l - 1) - 1 + 1 ELSE 0
    BY <1>1, <1>4
  <2> HIDE DEF l, k
  <2>2. k = l - 1
    BY <2>1
  <2> QED BY <2>2 DEF l, k
<1>6. ASSUME NEW n \in 1..(Len(snaps) - 1)
      PROVE  snaps'[n] = snaps[n]
  <2>1. n \in 1..((Len(snaps) - 1) - 1 + 1) /\ 1 + n - 1 = n
    BY <1>1
  <2> QED BY <2>1, <1>4
<1> QED BY <1>1, <1>2, <1>4, <1>5, <1>6 DEF Innermost

\* The stack a program sees is a sequence of values, bottom first.
LEMMA StackType ==
  ASSUME TypeOK
  PROVE  /\ Stack \in Seq(Value) /\ Len(Stack) = Depth /\ Depth \in Nat
         /\ Cache \in CacheType
         /\ \A i \in 1..Depth : Stack[i] = CellOf(Cache, i - 1)
<1> USE SizeAssumption DEF TypeOK
<1>1. Cache \in CacheType
  BY DEF Cache, CacheType
<1>2. Depth \in Nat
  BY DEF Depth, ActiveMax, NTOP
<1>3. ASSUME NEW i \in 1..Depth PROVE CellOf(Cache, i - 1) \in Value
  BY <1>3 DEF Cache, CellOf, CachedCell, Depth, Slots, Cells, ActiveMax, NTOP
<1>4. Stack \in [1..Depth -> Value]
  BY <1>3 DEF Stack
<1>5. Stack \in Seq(Value)
  BY <1>2, <1>4, SeqDef
<1>6. Len(Stack) = Depth
  BY <1>2, <1>4, <1>5, LenProperties
<1> QED BY <1>1, <1>2, <1>5, <1>6 DEF Stack

\* The snapshots' part of the invariant.
SnapInv == SnapshotFaithful /\ SpillUndisturbed /\ NestedSnapshots

\* A step that disturbs nothing below cell k leaves every snapshot usable.
LEMMA TouchedSnapInv ==
  ASSUME IInv, NEW k \in Nat, Touched(k), spill_ptr' \in Nat,
         Least(k, spill_ptr) <= spill_ptr',
         \A i \in 0..(Least(k, spill_ptr) - 1) : spill'[i] = spill[i]
  PROVE  snaps' \in Seq(SnapType) /\ SnapInv'
<1>1. snaps \in Seq(SnapType) /\ spill_ptr \in Nat
  BY SizeAssumption DEF IInv, TypeOK, SnapType
<1>2. /\ snaps' \in Seq(SnapType)
      /\ Len(snaps') = Len(snaps)
      /\ \A n \in 1..Len(snaps) :
           /\ snaps'[n].cache = snaps[n].cache
           /\ snaps'[n].saved = snaps[n].saved
           /\ snaps'[n].low = Least(snaps[n].low, k)
  BY <1>1, TouchedFacts
<1>3. DOMAIN snaps = 1..Len(snaps) /\ DOMAIN snaps' = 1..Len(snaps)
  BY <1>1, <1>2, LenProperties
<1>4. \A n \in 1..Len(snaps) :
        /\ snaps[n].low \in Nat
        /\ snaps[n].cache.spill_ptr \in Nat
        /\ snaps[n].cache.cache_depth \in Nat
        /\ Len(snaps[n].saved) \in Nat
  <2>1. ASSUME NEW n \in 1..Len(snaps) PROVE snaps[n] \in SnapType
    BY <1>1, <2>1, ElementOfSeq
  <2> QED BY <2>1, SizeAssumption DEF SnapType, CacheType, ActiveMax, NTOP
<1>5. SnapshotFaithful'
  <2> SUFFICES ASSUME NEW n \in 1..Len(snaps)
               PROVE  /\ Len(snaps[n].saved) = snaps[n].cache.cache_depth + snaps[n].cache.spill_ptr
                      /\ Least(snaps[n].low, k) <= Len(snaps[n].saved)
                      /\ \A j \in 0..(snaps[n].cache.cache_depth - 1) :
                           snaps[n].saved[snaps[n].cache.spill_ptr + j + 1]
                             = CachedCell(snaps[n].cache, j)
    BY <1>2, <1>3 DEF SnapshotFaithful
  <2>1. /\ Len(snaps[n].saved) = snaps[n].cache.cache_depth + snaps[n].cache.spill_ptr
        /\ snaps[n].low <= Len(snaps[n].saved)
        /\ \A j \in 0..(snaps[n].cache.cache_depth - 1) :
             snaps[n].saved[snaps[n].cache.spill_ptr + j + 1]
               = CachedCell(snaps[n].cache, j)
    BY <1>3 DEF IInv, SnapshotFaithful
  <2>2. Least(snaps[n].low, k) <= Len(snaps[n].saved)
    <3> DEFINE low == snaps[n].low
               len == Len(snaps[n].saved)
    <3>1. low \in Nat /\ len \in Nat /\ low <= len
      BY <2>1, <1>4
    <3> HIDE DEF low, len
    <3>2. Least(low, k) <= len
      BY <3>1 DEF Least
    <3> QED BY <3>2 DEF low, len
  <2> QED BY <2>1, <2>2
<1>6. SpillUndisturbed'
  <2> SUFFICES ASSUME NEW n \in 1..Len(snaps)
               PROVE  LET b == Least(Least(snaps[n].low, k), snaps[n].cache.spill_ptr)
                      IN  /\ spill_ptr' >= b
                          /\ \A i \in 0..(b - 1) : spill'[i] = snaps[n].saved[i + 1]
    BY <1>2, <1>3 DEF SpillUndisturbed
  <2>1. LET b == Least(snaps[n].low, snaps[n].cache.spill_ptr)
        IN  /\ spill_ptr >= b
            /\ \A i \in 0..(b - 1) : spill[i] = snaps[n].saved[i + 1]
    BY <1>3 DEF IInv, SpillUndisturbed
  <2> DEFINE low == snaps[n].low
             floor == snaps[n].cache.spill_ptr
             saved == snaps[n].saved
  <2>2. low \in Nat /\ floor \in Nat
    BY <1>4
  <2>3. /\ spill_ptr >= Least(low, floor)
        /\ \A i \in 0..(Least(low, floor) - 1) : spill[i] = saved[i + 1]
    BY <2>1
  <2> HIDE DEF low, floor, saved
  <2>4. /\ spill_ptr' >= Least(Least(low, k), floor)
        /\ \A i \in 0..(Least(Least(low, k), floor) - 1) : spill'[i] = saved[i + 1]
    BY <2>2, <2>3, <1>1 DEF Least
  <2> QED BY <2>4 DEF low, floor, saved
<1>7. NestedSnapshots'
  <2> SUFFICES ASSUME NEW m \in 1..Len(snaps), NEW n \in 1..Len(snaps), m < n
               PROVE  snaps[n].cache.spill_ptr
                        >= Least(Least(snaps[m].low, k), snaps[m].cache.spill_ptr)
    BY <1>2, <1>3 DEF NestedSnapshots
  <2> DEFINE low == snaps[m].low
             floor == snaps[m].cache.spill_ptr
             inner == snaps[n].cache.spill_ptr
  <2>1. low \in Nat /\ floor \in Nat /\ inner \in Nat
    BY <1>4
  <2>2. inner >= Least(low, floor)
    BY <1>3 DEF IInv, NestedSnapshots
  <2> HIDE DEF low, floor, inner
  <2>3. inner >= Least(Least(low, k), floor)
    BY <2>1, <2>2 DEF Least
  <2> QED BY <2>3 DEF low, floor, inner
<1> QED BY <1>2, <1>5, <1>6, <1>7 DEF SnapInv

\* So does a step that touches no snapshot and only adds to the spill.
LEMMA GrowingSnapInv ==
  ASSUME IInv, UNCHANGED snaps, spill_ptr' \in Nat, spill_ptr <= spill_ptr',
         \A i \in 0..(spill_ptr - 1) : spill'[i] = spill[i]
  PROVE  snaps' \in Seq(SnapType) /\ SnapInv'
<1>1. snaps \in Seq(SnapType) /\ spill_ptr \in Nat
  BY SizeAssumption DEF IInv, TypeOK, SnapType
<1>2. DOMAIN snaps = 1..Len(snaps)
  BY <1>1, LenProperties
<1>3. ASSUME NEW n \in 1..Len(snaps)
      PROVE  snaps[n].low \in Nat /\ snaps[n].cache.spill_ptr \in Nat
  <2>1. snaps[n] \in SnapType
    BY <1>1, <1>3, ElementOfSeq
  <2> QED BY <2>1, SizeAssumption DEF SnapType, CacheType
<1>4. SpillUndisturbed'
  BY <1>1, <1>2, <1>3 DEF IInv, SpillUndisturbed, Least
<1>5. SnapshotFaithful' /\ NestedSnapshots'
  BY DEF IInv, SnapshotFaithful, NestedSnapshots, CachedCell
<1> QED BY <1>1, <1>4, <1>5 DEF SnapInv

\* _push writes the spill only above what a snapshot relies on.
LEMMA PushIInv == ASSUME IInv, NEW v \in Value, Push(v) PROVE IInv'
<1> USE SizeAssumption DEF Slots, Cells, ActiveMax, NTOP
<1>1. TypeOK BY DEF IInv
<1>2. CASE PushCached(v)
  <2>1. TypeOK'
    BY <1>1, <1>2 DEF TypeOK, Push, PushCached
  <2>2. SnapInv'
    BY <1>1, <1>2, GrowingSnapInv DEF TypeOK, Push, PushCached
  <2> QED BY <2>1, <2>2 DEF IInv, SnapInv
<1>3. CASE PushSpilling(v)
  <2>1. Shifted \in [Slots -> Value]
    BY <1>1 DEF TypeOK, Shifted
  <2>2. frame' \in [Slots -> Value] /\ spill' \in [Cells -> Value]
    BY <1>1, <1>3, <2>1 DEF TypeOK, PushSpilling
  <2>3. TypeOK'
    BY <1>1, <1>3, <2>2 DEF TypeOK, Push, PushSpilling
  <2>4. \A i \in 0..(spill_ptr - 1) : spill'[i] = spill[i]
    BY <1>1, <1>3 DEF TypeOK, PushSpilling
  <2>5. spill_ptr' \in Nat /\ spill_ptr <= spill_ptr'
    BY <1>1, <1>3 DEF TypeOK, PushSpilling
  <2>6. SnapInv'
    BY <2>4, <2>5, GrowingSnapInv DEF Push
  <2> QED BY <2>3, <2>6 DEF IInv, SnapInv
<1> QED BY <1>2, <1>3 DEF Push

\* _pop notes how low the stack has been.
LEMMA PopIInv == ASSUME IInv, Pop PROVE IInv'
<1> USE SizeAssumption DEF Slots, Cells, ActiveMax, NTOP
<1>1. TypeOK BY DEF IInv
<1>2. spill' = spill /\ Touched(Depth - 1)
  BY DEF Pop, PopCached, PopSpill
<1>3. Depth - 1 \in Nat /\ spill_ptr' \in Nat /\ Least(Depth - 1, spill_ptr) <= spill_ptr'
  BY <1>1 DEF TypeOK, Pop, PopCached, PopSpill, Depth, Least
<1>4. snaps' \in Seq(SnapType) /\ SnapInv'
  BY <1>2, <1>3, TouchedSnapInv
<1>5. TypeOK'
  <2>1. CASE PopCached
    BY <1>1, <1>4, <2>1 DEF TypeOK, PopCached
  <2>2. CASE PopSpill
    BY <1>1, <1>4, <2>2 DEF TypeOK, PopSpill, cacheVars
  <2> QED BY <2>1, <2>2 DEF Pop
<1> QED BY <1>4, <1>5 DEF IInv, SnapInv

\* So does a write into the stack.
LEMMA PokeIInv ==
  ASSUME IInv, NEW d \in 0..(Depth - 1), NEW v \in Value, Poke(d, v)
  PROVE  IInv'
<1> USE SizeAssumption DEF Slots, Cells, ActiveMax, NTOP
<1>1. TypeOK BY DEF IInv
<1>2. Depth \in Nat /\ d \in Nat /\ d < Depth
  BY <1>1 DEF TypeOK, Depth
<1>3. Touched(Depth - d - 1) /\ Depth - d - 1 \in Nat
  BY <1>2 DEF Poke
<1>4. spill_ptr' = spill_ptr
  BY DEF Poke, PokeCached, PokeSpill
<1>5. \A i \in 0..(Least(Depth - d - 1, spill_ptr) - 1) : spill'[i] = spill[i]
  BY <1>1, <1>2 DEF TypeOK, Poke, PokeCached, PokeSpill, Least, Depth
<1>6. snaps' \in Seq(SnapType) /\ SnapInv'
  <2>1. spill_ptr' \in Nat /\ Least(Depth - d - 1, spill_ptr) <= spill_ptr'
    BY <1>1, <1>3, <1>4 DEF TypeOK, Least
  <2> QED BY <2>1, <1>3, <1>5, TouchedSnapInv
<1>7. TypeOK'
  <2>1. CASE PokeCached(d, v)
    BY <1>1, <1>2, <1>6, <2>1 DEF TypeOK, Poke, PokeCached
  <2>2. CASE PokeSpill(d, v)
    BY <1>1, <1>2, <1>6, <2>2 DEF TypeOK, Poke, PokeSpill, cacheVars
  <2> QED BY <2>1, <2>2 DEF Poke
<1> QED BY <1>6, <1>7 DEF IInv, SnapInv

\* A call parks cells above what a snapshot relies on.
LEMMA CallIInv == ASSUME IInv, Call PROVE IInv'
<1> USE SizeAssumption DEF Slots, Cells, ActiveMax, NTOP
<1>1. TypeOK BY DEF IInv
<1>2. Parked \in Nat /\ Parked <= cache_depth /\ Parked <= FrameSize
  BY <1>1 DEF TypeOK, Parked
<1>3. /\ spill_ptr' \in 0..SpillSize /\ cache_depth' \in 0..ActiveMax
      /\ spill_ptr <= spill_ptr' /\ spill_ptr' \in Nat
  BY <1>1, <1>2 DEF TypeOK, Call
<1>4. spill' \in [Cells -> Value]
  BY <1>1, <1>2 DEF TypeOK, Call
<1>5. \A i \in 0..(spill_ptr - 1) : spill'[i] = spill[i]
  BY <1>1, <1>2 DEF TypeOK, Call
<1>6. SnapInv'
  BY <1>3, <1>5, GrowingSnapInv DEF Call
<1>7. TypeOK'
  BY <1>1, <1>3, <1>4 DEF TypeOK, Call
<1> QED BY <1>6, <1>7 DEF IInv, SnapInv

\* ABORT cuts the stack to nothing.
LEMMA ClearIInv == ASSUME IInv, Clear PROVE IInv'
<1> USE SizeAssumption DEF Slots, Cells, ActiveMax, NTOP
<1>1. TypeOK BY DEF IInv
<1>2. Least(0, spill_ptr) = 0
  BY <1>1 DEF TypeOK, Least
<1>3. snaps' \in Seq(SnapType) /\ SnapInv'
  BY <1>2, TouchedSnapInv DEF Clear
<1>4. TypeOK'
  BY <1>1, <1>3, ValueAssumption DEF TypeOK, Clear
<1> QED BY <1>3, <1>4 DEF IInv, SnapInv

\* Operations that change neither the stack nor the snapshots.
LEMMA QuietIInv ==
  ASSUME IInv, UNCHANGED <<stackVars, snaps>>, out' \in Value \cup {None, Overflow}
  PROVE  IInv'
BY DEF IInv, TypeOK, SnapshotFaithful, SpillUndisturbed, NestedSnapshots,
       CachedCell, stackVars

\* Every cell that can be read is a value.
LEMMA PeekType ==
  ASSUME TypeOK, NEW d \in 0..(Depth - 1), Peek(d)
  PROVE  out' \in Value
BY SizeAssumption DEF TypeOK, Peek, Depth, Slots, Cells, ActiveMax, NTOP

\* A new snapshot agrees with the stack it is taken of.
LEMMA SnapshotIInv == ASSUME IInv, Snapshot PROVE IInv'
<1> USE SizeAssumption
<1> DEFINE new == [cache |-> Cache, saved |-> Stack, low |-> Depth]
           l == Len(snaps)
<1>1. TypeOK BY DEF IInv
<1>2. /\ Stack \in Seq(Value) /\ Len(Stack) = Depth /\ Depth \in Nat
      /\ Cache \in CacheType
      /\ \A i \in 1..Depth : Stack[i] = CellOf(Cache, i - 1)
  BY <1>1, StackType
<1>3. new \in SnapType
  BY <1>2 DEF SnapType
<1>4. snaps \in Seq(SnapType) /\ l \in Nat /\ DOMAIN snaps = 1..l
  BY <1>1, LenProperties DEF TypeOK
<1>5. snaps' = Append(snaps, new)
  BY DEF Snapshot
<1> HIDE DEF new
<1>6. /\ snaps' \in Seq(SnapType) /\ Len(snaps') = l + 1
      /\ \A n \in 1..l : snaps'[n] = snaps[n]
      /\ snaps'[l + 1] = new
  BY <1>3, <1>4, <1>5, AppendProperties
<1>7. DOMAIN snaps' = 1..(l + 1)
  BY <1>6, LenProperties
<1>8. UNCHANGED stackVars /\ out' = None
  BY DEF Snapshot
<1>9. TypeOK'
  BY <1>1, <1>6, <1>8 DEF TypeOK, stackVars
<1> HIDE DEF l
<1>10. ASSUME NEW n \in 1..(l + 1) PROVE n \in 1..l \/ n = l + 1
  BY <1>4, <1>10
<1>11. SnapshotFaithful'
  <2>1. /\ Len(new.saved) = new.cache.cache_depth + new.cache.spill_ptr
        /\ new.low <= Len(new.saved)
    BY <1>2 DEF new, Cache, Depth
  <2>2. ASSUME NEW j \in 0..(cache_depth - 1)
        PROVE  Stack[spill_ptr + j + 1] = CachedCell(Cache, j)
    BY <1>1, <1>2, <2>2 DEF TypeOK, CellOf, Cache, Depth, ActiveMax, NTOP
  <2>3. \A j \in 0..(new.cache.cache_depth - 1) :
          new.saved[new.cache.spill_ptr + j + 1] = CachedCell(new.cache, j)
    BY <2>2 DEF new, Cache
  <2>4. ASSUME NEW n \in 1..l
        PROVE  LET s == snaps[n] IN
                 /\ Len(s.saved) = s.cache.cache_depth + s.cache.spill_ptr
                 /\ s.low <= Len(s.saved)
                 /\ \A j \in 0..(s.cache.cache_depth - 1) :
                      s.saved[s.cache.spill_ptr + j + 1] = CachedCell(s.cache, j)
    BY <1>4 DEF IInv, SnapshotFaithful
  <2> SUFFICES ASSUME NEW n \in 1..(l + 1)
               PROVE  LET s == snaps'[n] IN
                 /\ Len(s.saved) = s.cache.cache_depth + s.cache.spill_ptr
                 /\ s.low <= Len(s.saved)
                 /\ \A j \in 0..(s.cache.cache_depth - 1) :
                      s.saved[s.cache.spill_ptr + j + 1] = CachedCell(s.cache, j)
    BY <1>7 DEF SnapshotFaithful, CachedCell
  <2>5. CASE n \in 1..l
    <3>1. snaps'[n] = snaps[n]
      BY <1>6, <2>5
    <3> QED BY <3>1, <2>4, <2>5
  <2>6. CASE n = l + 1
    <3>1. snaps'[n] = new
      BY <1>6, <2>6
    <3> QED BY <3>1, <2>1, <2>3
  <2> QED BY <1>10, <2>5, <2>6
<1>12. SpillUndisturbed'
  <2>1. Least(new.low, new.cache.spill_ptr) = spill_ptr
    BY <1>1 DEF TypeOK, new, Cache, Depth, Least
  <2>2. \A i \in 0..(spill_ptr - 1) : spill[i] = new.saved[i + 1]
    BY <1>1, <1>2 DEF TypeOK, new, Cache, CellOf, Depth
  <2> SUFFICES ASSUME NEW n \in 1..(l + 1)
               PROVE  LET s == snaps'[n]
                          k == Least(s.low, s.cache.spill_ptr)
                      IN  /\ spill_ptr >= k
                          /\ \A i \in 0..(k - 1) : spill[i] = s.saved[i + 1]
    BY <1>7, <1>8 DEF SpillUndisturbed, stackVars
  <2>3. CASE n \in 1..l
    <3>1. snaps'[n] = snaps[n]
      BY <1>6, <2>3
    <3> QED BY <3>1, <1>4, <2>3 DEF IInv, SpillUndisturbed
  <2>4. CASE n = l + 1
    <3>1. snaps'[n] = new
      BY <1>6, <2>4
    <3>2. spill_ptr \in Nat
      BY <1>1 DEF TypeOK
    <3> QED BY <3>1, <3>2, <2>1, <2>2
  <2> QED BY <1>10, <2>3, <2>4
<1>13. NestedSnapshots'
  <2> SUFFICES ASSUME NEW m \in 1..(l + 1), NEW n \in 1..(l + 1), m < n
               PROVE  snaps'[n].cache.spill_ptr
                        >= Least(snaps'[m].low, snaps'[m].cache.spill_ptr)
    BY <1>7 DEF NestedSnapshots
  <2>1. m \in 1..l /\ snaps'[m] = snaps[m]
    BY <1>4, <1>6
  <2>2. CASE n \in 1..l
    <3>1. snaps'[n] = snaps[n]
      BY <1>6, <2>2
    <3> QED BY <3>1, <2>1, <2>2, <1>4 DEF IInv, NestedSnapshots
  <2>3. CASE n = l + 1
    <3>1. snaps'[n].cache.spill_ptr = spill_ptr
      BY <1>6, <2>3 DEF new, Cache
    <3> QED BY <3>1, <2>1, <1>4 DEF IInv, SpillUndisturbed
  <2> QED BY <1>10, <2>2, <2>3
<1> QED BY <1>9, <1>11, <1>12, <1>13 DEF IInv

\* Dropping the innermost snapshot, with the spill and what is live of it as
\* it was or cut back to where the snapshot was taken.
LEMMA DropSnapInv ==
  ASSUME IInv, snaps # <<>>, DropInnermost, UNCHANGED spill,
         spill_ptr' = spill_ptr \/ spill_ptr' = Innermost.cache.spill_ptr
  PROVE  snaps' \in Seq(SnapType) /\ Innermost \in SnapType /\ SnapInv'
<1> DEFINE l == Len(snaps) - 1
<1>1. snaps \in Seq(SnapType)
  BY DEF IInv, TypeOK
<1>2. /\ snaps' \in Seq(SnapType) /\ Len(snaps') = l
      /\ \A n \in 1..l : snaps'[n] = snaps[n]
      /\ l \in Nat /\ Innermost = snaps[l + 1] /\ Innermost \in SnapType
  BY <1>1, DropFacts
<1>3. DOMAIN snaps' = 1..l /\ DOMAIN snaps = 1..(l + 1)
  BY <1>1, <1>2, LenProperties
<1> HIDE DEF l
<1>4. \A n \in 1..l : n \in 1..(l + 1) /\ n < l + 1
  BY <1>2
<1>5. SnapshotFaithful'
  BY <1>2, <1>3, <1>4 DEF IInv, SnapshotFaithful, CachedCell
<1>6. NestedSnapshots'
  BY <1>2, <1>3, <1>4 DEF IInv, NestedSnapshots
<1>7. SpillUndisturbed'
  <2> SUFFICES ASSUME NEW n \in 1..l
               PROVE  LET k == Least(snaps[n].low, snaps[n].cache.spill_ptr)
                      IN  /\ spill_ptr' >= k
                          /\ \A i \in 0..(k - 1) : spill[i] = snaps[n].saved[i + 1]
    BY <1>2, <1>3 DEF SpillUndisturbed
  <2>1. LET k == Least(snaps[n].low, snaps[n].cache.spill_ptr)
        IN  /\ spill_ptr >= k
            /\ \A i \in 0..(k - 1) : spill[i] = snaps[n].saved[i + 1]
    BY <1>3, <1>4 DEF IInv, SpillUndisturbed
  <2>2. Innermost.cache.spill_ptr >= Least(snaps[n].low, snaps[n].cache.spill_ptr)
    <3>1. l + 1 \in 1..(l + 1)
      BY <1>2
    <3> QED BY <3>1, <1>2, <1>3, <1>4 DEF IInv, NestedSnapshots
  <2> QED BY <2>1, <2>2
<1> QED BY <1>2, <1>5, <1>6, <1>7 DEF SnapInv

\* Restoring the innermost snapshot leaves the outer ones restorable.
LEMMA RestoreIInv == ASSUME IInv, Restore PROVE IInv'
<1>1. snaps' \in Seq(SnapType) /\ Innermost \in SnapType /\ SnapInv'
  BY DropSnapInv DEF Restore
<1>2. TypeOK'
  BY <1>1 DEF IInv, TypeOK, Restore, SnapType, CacheType
<1> QED BY <1>1, <1>2 DEF IInv, SnapInv

\* So does forgetting it.
LEMMA ForgetIInv == ASSUME IInv, Forget PROVE IInv'
<1>1. snaps' \in Seq(SnapType) /\ SnapInv'
  BY DropSnapInv DEF Forget, stackVars
<1>2. TypeOK'
  BY <1>1 DEF IInv, TypeOK, Forget, stackVars
<1> QED BY <1>1, <1>2 DEF IInv, SnapInv

\* Without snapshots the invariant is the types.
LEMMA InitIInv == Init => IInv
<1> SUFFICES ASSUME Init PROVE IInv
  OBVIOUS
<1>1. DOMAIN snaps = {}
  BY DEF Init
<1> QED BY <1>1, InitTypeOK
     DEF IInv, SnapshotFaithful, SpillUndisturbed, NestedSnapshots

\* The invariant is inductive.
LEMMA NextIInv == IInv /\ [Next]_vars => IInv'
<1> SUFFICES ASSUME IInv, [Next]_vars PROVE IInv'
  OBVIOUS
<1>1. ASSUME NEW v \in Value, Push(v) PROVE IInv'
  BY <1>1, PushIInv
<1>2. CASE PushOverflow \/ CallOverflow
  BY <1>2, QuietIInv DEF PushOverflow, CallOverflow
<1>3. CASE Pop
  BY <1>3, PopIInv
<1>4. ASSUME NEW d \in 0..(Depth - 1), Peek(d) PROVE IInv'
  <2>1. out' \in Value
    BY <1>4, PeekType DEF IInv
  <2> QED BY <1>4, <2>1, QuietIInv DEF Peek
<1>5. ASSUME NEW d \in 0..(Depth - 1), NEW v \in Value, Poke(d, v) PROVE IInv'
  BY <1>5, PokeIInv
<1>6. CASE Call
  BY <1>6, CallIInv
<1>7. CASE Clear
  BY <1>7, ClearIInv
<1>8. CASE Snapshot
  BY <1>8, SnapshotIInv
<1>9. CASE Restore
  BY <1>9, RestoreIInv
<1>10. CASE Forget
  BY <1>10, ForgetIInv
<1>11. CASE UNCHANGED vars
  <2>1. out' \in Value \cup {None, Overflow}
    BY <1>11 DEF vars, IInv, TypeOK
  <2> QED BY <1>11, <2>1, QuietIInv DEF vars, stackVars
<1> QED
  BY <1>1, <1>2, <1>3, <1>4, <1>5, <1>6, <1>7, <1>8, <1>9, <1>10, <1>11 DEF Next

\* It holds in every reachable state.
LEMMA Invariance == Spec => []IInv
BY InitIInv, NextIInv, PTL DEF Spec

\* Pointers into frame and spill stay in range, for every frame and spill size.
THEOREM TypeCorrect == Spec => []TypeOK
<1>1. IInv => TypeOK
  BY DEF IInv
<1> QED BY <1>1, Invariance, PTL

\* What CATCH relies on holds: the spill below a live snapshot is intact up to
\* the point the protected word has cut the stack to.
THEOREM SpillStaysUndisturbed == Spec => []SpillUndisturbed
<1>1. IInv => SpillUndisturbed
  BY DEF IInv
<1> QED BY <1>1, Invariance, PTL

\* A live snapshot agrees with the stack it was taken of, on every cell still in
\* place: what snapshot_cache copied and the spill below it are that stack.
THEOREM SnapshotsAgree == Spec => []SnapshotFaithful
<1>1. IInv => SnapshotFaithful
  BY DEF IInv
<1> QED BY <1>1, Invariance, PTL

-----------------------------------------------------------------------------
(***************************************************************************)
(* Refinement: the layout implements the plain stack.  Each lemma takes    *)
(* one action to the DataStack action of the same name.                    *)
(***************************************************************************)

\* The stack a program sees, before a step and after it.
LEMMA StackTypeHere ==
  TypeOK => /\ Stack \in Seq(Value) /\ Len(Stack) = Depth /\ Depth \in Nat
            /\ \A i \in 1..Depth : Stack[i] = CellOf(Cache, i - 1)
BY StackType

\* The same of the next state.
LEMMA StackTypeNext ==
 (TypeOK => /\ Stack \in Seq(Value) /\ Len(Stack) = Depth /\ Depth \in Nat
            /\ \A i \in 1..Depth : Stack[i] = CellOf(Cache, i - 1))'
BY StackTypeHere, PTL

\* Two stacks of equal depth that agree cell by cell are the same sequence.
LEMMA SameStack ==
  ASSUME TypeOK, TypeOK', NEW s \in Seq(Value), Len(s) = Depth',
         \A i \in 1..Depth' : s[i] = CellOf(Cache, i - 1)'
  PROVE  Stack' = s
<1>1. /\ Stack' \in Seq(Value) /\ Len(Stack') = Depth'
      /\ \A i \in 1..Depth' : Stack'[i] = CellOf(Cache, i - 1)'
  BY StackTypeNext
<1> QED BY <1>1, SeqEqual

\* What a step notes in the snapshots it notes in the marks.
LEMMA MarksTouched ==
  ASSUME IInv, NEW k \in Nat, Touched(k)
  PROVE  DS!Touched(k)
<1>1. snaps \in Seq(SnapType)
  BY DEF IInv, TypeOK
<1>2. DOMAIN snaps' = DOMAIN snaps
  BY DEF Touched
<1>3. DOMAIN Marks = DOMAIN snaps
  BY DEF Marks
<1>4. ASSUME NEW n \in DOMAIN snaps
      PROVE  /\ snaps'[n].saved = Marks[n].saved
             /\ snaps'[n].cache.spill_ptr = Marks[n].floor
             /\ snaps'[n].low = Least(Marks[n].low, k)
  BY DEF Touched, Marks
<1> QED BY <1>2, <1>3, <1>4 DEF DS!Touched, DS!Least, Least, Marks

\* Each action is the one of its name.
LEMMA PushIsPush ==
  ASSUME IInv, IInv', NEW v \in Value, Push(v)
  PROVE  DS!Push(v)
<1> USE SizeAssumption
<1>1. TypeOK /\ TypeOK' BY DEF IInv
<1>2. /\ Stack \in Seq(Value) /\ Len(Stack) = Depth /\ Depth \in Nat
      /\ \A i \in 1..Depth : Stack[i] = CellOf(Cache, i - 1)
  BY <1>1, StackType
<1>3. Depth' = Depth + 1 /\ Depth < ActiveMax + SpillSize
  <2>1. CASE PushCached(v)
    BY <1>1, <2>1 DEF TypeOK, PushCached, Depth, ActiveMax, NTOP
  <2>2. CASE PushSpilling(v)
    BY <1>1, <2>2 DEF TypeOK, PushSpilling, Depth, ActiveMax, NTOP
  <2> QED BY <2>1, <2>2 DEF Push
<1>4. ASSUME NEW i \in 1..Depth
      PROVE  CellOf(Cache, i - 1)' = CellOf(Cache, i - 1)
  <2>1. CASE PushCached(v)
    BY <1>1, <2>1 DEF TypeOK, Push, PushCached, Depth, CellOf, CachedCell, Cache,
       ActiveMax, NTOP, Slots, Cells
  <2>2. CASE PushSpilling(v)
    BY <1>1, <2>2 DEF TypeOK, Push, PushSpilling, Shifted, Depth, CellOf, CachedCell, Cache,
       ActiveMax, NTOP, Slots, Cells
  <2> QED BY <2>1, <2>2 DEF Push
<1>5. ASSUME NEW i, i = Depth + 1
      PROVE  CellOf(Cache, i - 1)' = v
  <2>1. CASE PushCached(v)
    BY <1>1, <1>5, <2>1 DEF TypeOK, Push, PushCached, Depth, CellOf, CachedCell, Cache
  <2>2. CASE PushSpilling(v)
    BY <1>1, <1>5, <2>2 DEF TypeOK, Push, PushSpilling, Depth, CellOf, CachedCell, Cache,
       ActiveMax, NTOP
  <2> QED BY <2>1, <2>2 DEF Push
<1>6. Stack' = Append(Stack, v)
  <2>1. /\ Append(Stack, v) \in Seq(Value)
        /\ Len(Append(Stack, v)) = Depth + 1
        /\ \A i \in 1..Depth : Append(Stack, v)[i] = Stack[i]
        /\ Append(Stack, v)[Depth + 1] = v
    BY <1>2, AppendProperties
  <2>2. ASSUME NEW i \in 1..Depth'
        PROVE  Append(Stack, v)[i] = CellOf(Cache, i - 1)'
    <3>1. CASE i \in 1..Depth
      BY <2>1, <1>2, <1>4, <3>1
    <3>2. CASE i = Depth + 1
      <4>1. CellOf(Cache, i - 1)' = v
        BY <1>5, <3>2
      <4> QED BY <4>1, <2>1, <3>2
    <3> QED BY <1>2, <1>3, <3>1, <3>2
  <2> QED BY <1>1, <1>3, <2>1, <2>2, SameStack
<1>7. Marks' = Marks
  BY DEF Push, Marks
<1> QED BY <1>2, <1>3, <1>6, <1>7 DEF DS!Push, DS!Depth, Push

\* Popping the cache, or the spill when the cache is empty.
LEMMA PopIsPop == ASSUME IInv, IInv', Pop PROVE DS!Pop
<1> USE SizeAssumption
<1>1. TypeOK /\ TypeOK' BY DEF IInv
<1>2. /\ Stack \in Seq(Value) /\ Len(Stack) = Depth /\ Depth \in Nat
      /\ \A i \in 1..Depth : Stack[i] = CellOf(Cache, i - 1)
  BY <1>1, StackType
<1>3. Depth' = Depth - 1 /\ Depth > 0
  <2>1. CASE PopCached
    BY <1>1, <2>1 DEF TypeOK, PopCached, Depth
  <2>2. CASE PopSpill
    BY <1>1, <2>2 DEF TypeOK, PopSpill, Depth, cacheVars
  <2> QED BY <2>1, <2>2 DEF Pop
<1>4. ASSUME NEW i \in 1..(Depth - 1)
      PROVE  CellOf(Cache, i - 1)' = CellOf(Cache, i - 1)
  <2>1. CASE PopCached
    <3>1. i - 1 \in Int /\ i - 1 >= 0 /\ i - 1 < cache_depth + spill_ptr - 1
      BY <1>1 DEF TypeOK, Depth
    <3>2. CASE i - 1 < spill_ptr
      BY <3>2, <2>1 DEF PopCached, CellOf, Cache
    <3>3. CASE i - 1 >= spill_ptr
      <4> DEFINE j == i - 1 - spill_ptr
      <4>1. j \in Nat /\ j < cache_depth - 1 /\ cache_depth \in Nat
        BY <1>1, <3>1, <3>3 DEF TypeOK
      <4>2. /\ CellOf(Cache, i - 1) = CachedCell(Cache, j)
            /\ CellOf(Cache, i - 1)' = CachedCell(Cache', j)
        BY <1>1, <2>1, <3>1, <3>3 DEF TypeOK, PopCached, CellOf, CachedCell, Cache
      <4> HIDE DEF j
      <4>3. CachedCell(Cache', j) = CachedCell(Cache, j)
        <5>1. CASE j = cache_depth - 2
          BY <4>1, <5>1, <2>1 DEF PopCached, CachedCell, Cache
        <5>2. CASE j = cache_depth - 3
          <6>1. cache_depth > NTOP /\ cache_depth - NTOP - 1 = j
            BY <4>1, <5>2 DEF NTOP
          <6> QED BY <4>1, <5>2, <6>1, <2>1 DEF PopCached, CachedCell, Cache
        <5>3. CASE j < cache_depth - 3
          BY <4>1, <5>3, <2>1 DEF PopCached, CachedCell, Cache
        <5> QED BY <4>1, <5>1, <5>2, <5>3
      <4> QED BY <4>2, <4>3
    <3> QED BY <1>1, <3>1, <3>2, <3>3 DEF TypeOK
  <2>2. CASE PopSpill
    BY <1>1, <2>2 DEF TypeOK, PopSpill, cacheVars, Depth, CellOf, CachedCell, Cache
  <2> QED BY <2>1, <2>2 DEF Pop
<1>5. out' = Stack[Depth]
  <2>1. Stack[Depth] = CellOf(Cache, Depth - 1)
    BY <1>2, <1>3
  <2>2. CASE PopCached
    BY <1>1, <2>1, <2>2 DEF TypeOK, PopCached, Depth, CellOf, CachedCell, Cache
  <2>3. CASE PopSpill
    BY <1>1, <2>1, <2>3 DEF TypeOK, PopSpill, Depth, CellOf, Cache
  <2> QED BY <2>2, <2>3 DEF Pop
<1>6. Stack' = SubSeq(Stack, 1, Depth - 1)
  <2> DEFINE d == Depth - 1
  <2>1. d \in Nat /\ \A i \in 1..d : Stack[i] \in Value /\ Stack[i] = CellOf(Cache, i - 1)
    BY <1>2, <1>3, ElementOfSeq
  <2> HIDE DEF d
  <2>2. /\ SubSeq(Stack, 1, d) \in Seq(Value)
        /\ Len(SubSeq(Stack, 1, d)) = d
        /\ \A i \in 1..d : SubSeq(Stack, 1, d)[i] = Stack[i]
    <3>1. /\ SubSeq(Stack, 1, d) \in Seq(Value)
          /\ Len(SubSeq(Stack, 1, d)) = IF 1 <= d THEN d - 1 + 1 ELSE 0
          /\ \A i \in 1..(d - 1 + 1) : SubSeq(Stack, 1, d)[i] = Stack[1 + i - 1]
      BY <2>1, SubSeqProperties
    <3>2. d - 1 + 1 = d /\ \A i \in 1..d : 1 + i - 1 = i
      BY <2>1
    <3> QED BY <2>1, <3>1, <3>2
  <2>3. \A i \in 1..d : CellOf(Cache, i - 1)' = Stack[i]
    BY <1>4, <2>1 DEF d
  <2>4. Depth' = d
    BY <1>3 DEF d
  <2> QED BY <1>1, <2>2, <2>3, <2>4, SameStack DEF d
<1>7. DS!Touched(Depth - 1)
  BY <1>2, <1>3, MarksTouched DEF IInv, Pop
<1> QED BY <1>2, <1>3, <1>5, <1>6, <1>7 DEF DS!Pop, DS!Depth

\* Reading a cell, wherever it lies.
LEMMA PeekIsPeek ==
  ASSUME IInv, NEW d \in 0..(Depth - 1), Peek(d)
  PROVE  DS!Peek(d) /\ d \in 0..(DS!Depth - 1)
<1> USE SizeAssumption
<1>1. TypeOK BY DEF IInv
<1>2. /\ Stack \in Seq(Value) /\ Len(Stack) = Depth /\ Depth \in Nat
      /\ \A i \in 1..Depth : Stack[i] = CellOf(Cache, i - 1)
  BY <1>1, StackType
<1>3. d \in Nat /\ d < Depth /\ Depth - d \in 1..Depth
  BY <1>2
<1>4. Stack[Depth - d] = CellOf(Cache, Depth - d - 1)
  BY <1>2, <1>3
<1>5. out' = Stack[Depth - d]
  BY <1>1, <1>3, <1>4 DEF TypeOK, Peek, CellOf, CachedCell, Cache, Depth
<1>6. Stack' = Stack /\ Marks' = Marks
  BY DEF Peek, stackVars, Stack, Marks, CellOf, CachedCell, Cache, Depth
<1> QED BY <1>2, <1>3, <1>5, <1>6 DEF DS!Peek, DS!Depth

\* Writing a cell, wherever it lies.
LEMMA PokeIsPoke ==
  ASSUME IInv, IInv', NEW d \in 0..(Depth - 1), NEW v \in Value, Poke(d, v)
  PROVE  DS!Poke(d, v) /\ d \in 0..(DS!Depth - 1)
<1> USE SizeAssumption
<1>1. TypeOK /\ TypeOK' BY DEF IInv
<1>2. /\ Stack \in Seq(Value) /\ Len(Stack) = Depth /\ Depth \in Nat
      /\ \A i \in 1..Depth : Stack[i] = CellOf(Cache, i - 1)
  BY <1>1, StackType
<1>3. d \in Nat /\ d < Depth /\ Depth - d \in 1..Depth /\ Depth - d - 1 \in Nat
  BY <1>2
<1>4. Depth' = Depth
  BY DEF Poke, PokeCached, PokeSpill, cacheVars, Depth
<1>5. ASSUME NEW i \in 1..Depth
      PROVE  CellOf(Cache, i - 1)'
               = IF i = Depth - d THEN v ELSE CellOf(Cache, i - 1)
  <2>1. CASE PokeCached(d, v)
    BY <1>1, <1>3, <2>1 DEF TypeOK, PokeCached, Depth, CellOf, CachedCell, Cache,
       ActiveMax, NTOP, Slots, Cells
  <2>2. CASE PokeSpill(d, v)
    BY <1>1, <1>3, <2>2 DEF TypeOK, PokeSpill, cacheVars, Depth, CellOf, CachedCell, Cache,
       Cells
  <2> QED BY <2>1, <2>2 DEF Poke
<1>6. Stack' = [Stack EXCEPT ![Depth - d] = v]
  <2>1. /\ [Stack EXCEPT ![Depth - d] = v] \in Seq(Value)
        /\ Len([Stack EXCEPT ![Depth - d] = v]) = Depth
        /\ \A i \in 1..Depth : [Stack EXCEPT ![Depth - d] = v][i]
                                 = IF i = Depth - d THEN v ELSE Stack[i]
    BY <1>2, <1>3, ExceptSeq
  <2>2. \A i \in 1..Depth' : [Stack EXCEPT ![Depth - d] = v][i] = CellOf(Cache, i - 1)'
    BY <1>2, <1>4, <1>5, <2>1
  <2> HIDE DEF Stack
  <2> QED BY <1>1, <1>4, <2>1, <2>2, SameStack
<1>7. DS!Touched(Depth - d - 1)
  BY <1>3, MarksTouched DEF IInv, Poke
<1> QED BY <1>2, <1>3, <1>6, <1>7 DEF DS!Poke, DS!Depth, Poke

\* A call moves cells to the spill and changes no cell.
LEMMA CallIsCall == ASSUME IInv, IInv', Call PROVE DS!Call
<1> USE SizeAssumption
<1>1. TypeOK /\ TypeOK' BY DEF IInv
<1>2. /\ Stack \in Seq(Value) /\ Len(Stack) = Depth /\ Depth \in Nat
      /\ \A i \in 1..Depth : Stack[i] = CellOf(Cache, i - 1)
  BY <1>1, StackType
<1>3. Parked \in Nat /\ cache_depth - Parked <= NTOP /\ Parked <= cache_depth
      /\ (Parked > 0 => cache_depth - Parked = NTOP)
  BY <1>1 DEF TypeOK, Parked, NTOP
<1>4. Depth' = Depth /\ Depth <= NTOP + SpillSize
  BY <1>1, <1>3 DEF TypeOK, Call, Depth, NTOP
<1>5. ASSUME NEW i \in 1..Depth
      PROVE  CellOf(Cache, i - 1)' = CellOf(Cache, i - 1)
  BY <1>1, <1>3 DEF TypeOK, Call, Depth, CellOf, CachedCell, Cache,
     ActiveMax, NTOP, Slots, Cells
<1>6. Stack' = Stack
  BY <1>1, <1>2, <1>4, <1>5, SameStack
<1>7. Marks' = Marks
  BY DEF Call, Marks
<1> QED BY <1>2, <1>4, <1>6, <1>7 DEF DS!Call, DS!Depth, Call

\* Clearing.
LEMMA ClearIsClear == ASSUME IInv, IInv', Clear PROVE DS!Clear
<1>1. TypeOK /\ TypeOK' BY DEF IInv
<1>2. Depth' = 0
  BY DEF Clear, Depth
<1>3. Stack' = <<>>
  <2>1. Stack' \in Seq(Value) /\ Len(Stack') = 0
    BY <1>1, <1>2, StackTypeNext
  <2> QED BY <2>1, EmptySeq
<1>4. DS!Touched(0)
  BY MarksTouched DEF Clear
<1> QED BY <1>3, <1>4 DEF DS!Clear, Clear

MarkType == [saved : Seq(Value), floor : Nat, low : Nat]

\* The marks are the snapshots', one by one.
LEMMA MarksType ==
  ASSUME IInv
  PROVE  /\ Marks \in Seq(MarkType) /\ Len(Marks) = Len(snaps) /\ Len(snaps) \in Nat
         /\ \A n \in 1..Len(snaps) :
              Marks[n] = [saved |-> snaps[n].saved,
                          floor |-> snaps[n].cache.spill_ptr,
                          low |-> snaps[n].low]
<1>1. /\ snaps \in Seq(SnapType) /\ Len(snaps) \in Nat /\ DOMAIN snaps = 1..Len(snaps)
      /\ \A n \in 1..Len(snaps) : snaps[n] \in SnapType
  BY LenProperties, ElementOfSeq DEF IInv, TypeOK
<1>2. ASSUME NEW n \in 1..Len(snaps)
      PROVE  [saved |-> snaps[n].saved, floor |-> snaps[n].cache.spill_ptr,
              low |-> snaps[n].low] \in MarkType
  BY <1>1, SizeAssumption DEF SnapType, CacheType, MarkType
<1>3. Marks \in [1..Len(snaps) -> MarkType]
  BY <1>1, <1>2 DEF Marks
<1>4. Marks \in Seq(MarkType)
  BY <1>1, <1>3, SeqDef
<1>5. Len(Marks) = Len(snaps)
  BY <1>1, <1>3, <1>4, LenProperties
<1> QED BY <1>1, <1>4, <1>5 DEF Marks

\* The marks before a step, and after it.
LEMMA MarksTypeHere ==
  IInv => /\ Marks \in Seq(MarkType) /\ Len(Marks) = Len(snaps) /\ Len(snaps) \in Nat
          /\ \A n \in 1..Len(snaps) :
               Marks[n] = [saved |-> snaps[n].saved,
                           floor |-> snaps[n].cache.spill_ptr,
                           low |-> snaps[n].low]
BY MarksType

\* The same of the next state.
LEMMA MarksTypeNext ==
 (IInv => /\ Marks \in Seq(MarkType) /\ Len(Marks) = Len(snaps) /\ Len(snaps) \in Nat
          /\ \A n \in 1..Len(snaps) :
               Marks[n] = [saved |-> snaps[n].saved,
                           floor |-> snaps[n].cache.spill_ptr,
                           low |-> snaps[n].low])'
BY MarksTypeHere, PTL

\* A snapshot promises the whole stack, though it copies the cache only.
LEMMA SnapshotIsSnapshot == ASSUME IInv, IInv', Snapshot PROVE DS!Snapshot
<1> USE SizeAssumption
<1> DEFINE l == Len(snaps)
           new == [cache |-> Cache, saved |-> Stack, low |-> Depth]
           mark == [saved |-> Stack, floor |-> spill_ptr, low |-> Depth]
<1>1. TypeOK BY DEF IInv
<1>2. /\ Stack \in Seq(Value) /\ Len(Stack) = Depth /\ Depth \in Nat
      /\ Cache \in CacheType
  BY <1>1, StackType
<1>3. /\ Marks \in Seq(MarkType) /\ Len(Marks) = l /\ l \in Nat
      /\ \A n \in 1..l : Marks[n] = [saved |-> snaps[n].saved,
                                     floor |-> snaps[n].cache.spill_ptr,
                                     low |-> snaps[n].low]
  BY MarksType
<1>4. new \in SnapType /\ snaps \in Seq(SnapType)
  BY <1>1, <1>2 DEF SnapType, TypeOK
<1>5. /\ Len(snaps') = l + 1 /\ snaps'[l + 1] = new
      /\ \A n \in 1..l : snaps'[n] = snaps[n]
  <2>1. snaps' = Append(snaps, new)
    BY DEF Snapshot
  <2> HIDE DEF new
  <2> QED BY <1>4, <2>1, AppendProperties
<1>6. /\ Marks' \in Seq(MarkType) /\ Len(Marks') = l + 1
      /\ \A n \in 1..(l + 1) : Marks'[n] = [saved |-> snaps'[n].saved,
                                            floor |-> snaps'[n].cache.spill_ptr,
                                            low |-> snaps'[n].low]
  BY <1>5, MarksTypeNext
<1>7. mark \in MarkType
  BY <1>1, <1>2 DEF MarkType, TypeOK
<1>8. Marks' = Append(Marks, mark)
  <2>1. Marks'[l + 1] = mark
    BY <1>3, <1>5, <1>6 DEF Cache
  <2> HIDE DEF mark, new, l
  <2>2. ASSUME NEW n \in 1..l PROVE Marks'[n] = Marks[n]
    <3>1. n \in 1..(l + 1)
      BY <1>3
    <3>2. Marks'[n] = [saved |-> snaps'[n].saved, floor |-> snaps'[n].cache.spill_ptr,
                       low |-> snaps'[n].low]
      BY <1>6, <3>1
    <3>3. snaps'[n] = snaps[n]
      BY <1>5
    <3> QED BY <1>3, <3>2, <3>3
  <2>3. /\ Append(Marks, mark) \in Seq(MarkType)
        /\ Len(Append(Marks, mark)) = l + 1
        /\ \A n \in 1..l : Append(Marks, mark)[n] = Marks[n]
        /\ Append(Marks, mark)[l + 1] = mark
    BY <1>3, <1>7, AppendProperties
  <2>4. \A n \in 1..(l + 1) : Marks'[n] = Append(Marks, mark)[n]
    BY <1>3, <2>1, <2>2, <2>3
  <2> QED BY <1>6, <2>3, <2>4, SeqEqual
<1>9. spill_ptr \in 0..Depth
  BY <1>1 DEF TypeOK, Depth
<1>10. Stack' = Stack /\ out' = None
  BY DEF Snapshot, stackVars, Stack, CellOf, CachedCell, Cache, Depth
<1> QED BY <1>2, <1>3, <1>8, <1>9, <1>10 DEF DS!Snapshot, DS!Depth, Snapshot

\* Dropping a snapshot drops its mark.
LEMMA MarksDropped ==
  ASSUME IInv, IInv', snaps # <<>>, DropInnermost
  PROVE  /\ Marks # <<>>
         /\ Marks' = SubSeq(Marks, 1, Len(Marks) - 1)
         /\ Marks[Len(Marks)] = [saved |-> Innermost.saved,
                                 floor |-> Innermost.cache.spill_ptr,
                                 low |-> Innermost.low]
         /\ Innermost \in SnapType
<1> DEFINE l == Len(snaps)
<1>1. /\ Len(snaps') = l - 1
      /\ \A n \in 1..(l - 1) : snaps'[n] = snaps[n]
      /\ l \in Nat \ {0}
      /\ Innermost = snaps[l] /\ Innermost \in SnapType
  BY DropFacts DEF IInv, TypeOK
<1>2. /\ Marks \in Seq(MarkType) /\ Len(Marks) = l
      /\ \A n \in 1..l : Marks[n] = [saved |-> snaps[n].saved,
                                     floor |-> snaps[n].cache.spill_ptr,
                                     low |-> snaps[n].low]
  BY MarksType
<1>3. /\ Marks' \in Seq(MarkType) /\ Len(Marks') = l - 1
      /\ \A n \in 1..(l - 1) : Marks'[n] = [saved |-> snaps'[n].saved,
                                            floor |-> snaps'[n].cache.spill_ptr,
                                            low |-> snaps'[n].low]
  BY <1>1, MarksTypeNext
<1> HIDE DEF l
<1>4. ASSUME NEW n \in 1..(l - 1) PROVE n \in 1..l /\ Marks'[n] = Marks[n]
  <2>1. n \in 1..l
    BY <1>1
  <2>2. Marks'[n] = [saved |-> snaps'[n].saved, floor |-> snaps'[n].cache.spill_ptr,
                     low |-> snaps'[n].low]
    BY <1>3
  <2>3. snaps'[n] = snaps[n]
    BY <1>1
  <2> QED BY <1>2, <2>1, <2>2, <2>3
<1>5. Marks' = SubSeq(Marks, 1, l - 1)
  <2> DEFINE m == l - 1
  <2>1. m \in Nat /\ \A n \in 1..m : Marks[n] \in MarkType
    BY <1>1, <1>2, <1>4, ElementOfSeq
  <2> HIDE DEF m
  <2>2. /\ SubSeq(Marks, 1, m) \in Seq(MarkType)
        /\ Len(SubSeq(Marks, 1, m)) = IF 1 <= m THEN m - 1 + 1 ELSE 0
        /\ \A n \in 1..(m - 1 + 1) : SubSeq(Marks, 1, m)[n] = Marks[1 + n - 1]
    BY <2>1, SubSeqProperties
  <2>3. m - 1 + 1 = m /\ \A n \in 1..m : 1 + n - 1 = n
    BY <2>1
  <2>4. Len(Marks') = m /\ \A n \in 1..m : Marks'[n] = Marks[n]
    BY <1>3, <1>4 DEF m
  <2>5. /\ Len(SubSeq(Marks, 1, m)) = m
        /\ \A n \in 1..m : SubSeq(Marks, 1, m)[n] = Marks[n]
    BY <2>1, <2>2, <2>3
  <2>6. Marks' = SubSeq(Marks, 1, m)
    BY <1>3, <2>2, <2>4, <2>5, SeqEqual
  <2> QED BY <2>6 DEF m
<1>6. Marks # <<>>
  BY <1>1, <1>2
<1>7. l \in 1..l
  BY <1>1
<1> QED BY <1>1, <1>2, <1>5, <1>6, <1>7

\* A restore brings back what the mark promises.
LEMMA RestoreIsRestore == ASSUME IInv, IInv', Restore PROVE DS!Restore
<1> USE SizeAssumption
<1> DEFINE s == Innermost
           c == s.cache
<1>1. TypeOK /\ TypeOK' BY DEF IInv
<1>2. /\ Marks # <<>>
      /\ Marks' = SubSeq(Marks, 1, Len(Marks) - 1)
      /\ Marks[Len(Marks)] = [saved |-> s.saved, floor |-> c.spill_ptr, low |-> s.low]
      /\ s \in SnapType
  BY MarksDropped DEF Restore
<1>3. /\ Len(s.saved) = c.cache_depth + c.spill_ptr
      /\ \A j \in 0..(c.cache_depth - 1) :
           s.saved[c.spill_ptr + j + 1] = CachedCell(c, j)
      /\ \A i \in 0..(Least(s.low, c.spill_ptr) - 1) : spill[i] = s.saved[i + 1]
  <2>1. Len(snaps) \in DOMAIN snaps
    <3>1. snaps \in Seq(SnapType) /\ snaps # <<>>
      BY <1>1 DEF TypeOK, Restore
    <3>2. Len(snaps) \in Nat \ {0} /\ DOMAIN snaps = 1..Len(snaps)
      BY <3>1, EmptySeq, LenProperties
    <3> QED BY <3>2
  <2>2. s = snaps[Len(snaps)]
    BY DEF Innermost
  <2> QED BY <2>1, <2>2 DEF IInv, SnapshotFaithful, SpillUndisturbed
<1>4. /\ c.cache_depth \in Nat /\ c.spill_ptr \in Nat /\ s.low \in Nat
      /\ c.cache_depth <= ActiveMax
  BY <1>2 DEF SnapType, CacheType, ActiveMax, NTOP
<1>5. Cache' = [t0 |-> c.t0, t1 |-> c.t1, cache_depth |-> c.cache_depth,
                frame |-> c.frame, spill_ptr |-> c.spill_ptr]
  BY DEF Restore, Cache
<1>6. Depth' = c.cache_depth + c.spill_ptr /\ spill' = spill
  BY DEF Restore, Depth
<1>7. /\ Len(Stack') = Depth' /\ Depth' \in Nat
      /\ \A i \in 1..Depth' : Stack'[i] = CellOf(Cache, i - 1)'
  BY <1>1, StackTypeNext
<1> HIDE DEF s
<1>8. ASSUME NEW i \in 1..Depth', i > c.spill_ptr \/ i <= s.low
      PROVE  Stack'[i] = s.saved[i]
  <2>1. Stack'[i] = CellOf(Cache, i - 1)'
    BY <1>7
  <2>2. CASE i > c.spill_ptr
    <3> DEFINE j == i - 1 - c.spill_ptr
    <3>1. j \in 0..(c.cache_depth - 1) /\ c.spill_ptr + j + 1 = i
      BY <1>4, <1>6, <2>2
    <3>2. s.saved[i] = CachedCell(c, j)
      BY <1>3, <3>1
    <3>3. CellOf(Cache, i - 1)' = CachedCell(Cache', j)
      BY <1>4, <1>5, <1>6, <2>2 DEF CellOf, CachedCell
    <3>4. CachedCell(Cache', j) = CachedCell(c, j)
      BY <1>5 DEF CachedCell
    <3> QED BY <2>1, <3>2, <3>3, <3>4
  <2>3. CASE i <= c.spill_ptr /\ i <= s.low
    <3>1. i - 1 \in 0..(Least(s.low, c.spill_ptr) - 1) /\ (i - 1) + 1 = i
      BY <1>4, <1>6, <2>3 DEF Least
    <3>2. spill[i - 1] = s.saved[i]
      BY <1>3, <3>1
    <3>3. CellOf(Cache, i - 1)' = spill[i - 1]
      BY <1>4, <1>5, <1>6, <2>3 DEF CellOf
    <3> QED BY <2>1, <3>2, <3>3
  <2> QED BY <1>4, <1>6, <1>8, <2>2, <2>3
<1>9. DS!RestoredFrom(Marks[Len(Marks)], Stack')
  BY <1>2, <1>3, <1>4, <1>6, <1>7, <1>8 DEF DS!RestoredFrom
<1> QED BY <1>2, <1>9 DEF DS!Restore, Restore

\* Forgetting a snapshot.
LEMMA ForgetIsForget == ASSUME IInv, IInv', Forget PROVE DS!Forget
<1>1. Marks # <<>> /\ Marks' = SubSeq(Marks, 1, Len(Marks) - 1)
  BY MarksDropped DEF Forget
<1>2. Stack' = Stack /\ out' = None
  BY DEF Forget, stackVars, Stack, CellOf, CachedCell, Cache, Depth
<1> QED BY <1>1, <1>2 DEF DS!Forget

\* A step that leaves the layout alone leaves the stack and the marks alone.
LEMMA QuietSteps ==
  ASSUME UNCHANGED <<stackVars, snaps>>
  PROVE  Stack' = Stack /\ Marks' = Marks
BY DEF stackVars, Stack, Marks, CellOf, CachedCell, Cache, Depth

\* Overflow is raised exactly at the plain stack's two limits.
LEMMA OverflowIsOverflow ==
  ASSUME IInv, PushOverflow \/ CallOverflow
  PROVE  DS!PushOverflow \/ DS!CallOverflow
<1> USE SizeAssumption
<1>1. TypeOK BY DEF IInv
<1>2. Len(Stack) = Depth
  BY <1>1, StackTypeHere
<1>3. Stack' = Stack /\ Marks' = Marks /\ out' = Overflow
  BY QuietSteps DEF PushOverflow, CallOverflow
<1>4. CASE PushOverflow
  <2>1. Depth >= ActiveMax + SpillSize
    BY <1>1, <1>4 DEF TypeOK, PushOverflow, Depth, ActiveMax, NTOP
  <2> QED BY <1>2, <1>3, <2>1 DEF DS!PushOverflow, DS!Depth
<1>5. CASE CallOverflow
  <2>1. Depth > NTOP + SpillSize
    BY <1>1, <1>5 DEF TypeOK, CallOverflow, Parked, Depth, NTOP
  <2> QED BY <1>2, <1>3, <2>1 DEF DS!CallOverflow, DS!Depth
<1> QED BY <1>4, <1>5

\* Both begin empty.
LEMMA InitIsInit == Init => DS!Init
<1> SUFFICES ASSUME Init PROVE DS!Init
  OBVIOUS
<1>1. TypeOK /\ Depth = 0
  BY InitTypeOK DEF Init, Depth
<1>2. Stack = <<>>
  BY <1>1, StackTypeHere, EmptySeq
<1>3. Marks = <<>>
  <2>1. IInv
    BY InitIInv
  <2>2. Len(snaps) = 0
    BY DEF Init
  <2> QED BY <2>1, <2>2, MarksType, EmptySeq
<1> QED BY <1>2, <1>3 DEF Init, DS!Init

\* Every step is one of the plain stack, or none.
LEMMA StepIsStep == IInv /\ IInv' /\ [Next]_vars => [DS!Next]_(DS!vars)
<1> SUFFICES ASSUME IInv, IInv', [Next]_vars PROVE [DS!Next]_(DS!vars)
  OBVIOUS
<1>1. ASSUME NEW v \in Value, Push(v) PROVE DS!Next
  BY <1>1, PushIsPush DEF DS!Next
<1>2. CASE PushOverflow \/ CallOverflow
  BY <1>2, OverflowIsOverflow DEF DS!Next
<1>3. CASE Pop
  BY <1>3, PopIsPop DEF DS!Next
<1>4. ASSUME NEW d \in 0..(Depth - 1), Peek(d) PROVE DS!Next
  BY <1>4, PeekIsPeek DEF DS!Next
<1>5. ASSUME NEW d \in 0..(Depth - 1), NEW v \in Value, Poke(d, v) PROVE DS!Next
  BY <1>5, PokeIsPoke DEF DS!Next
<1>6. CASE Call
  BY <1>6, CallIsCall DEF DS!Next
<1>7. CASE Clear
  BY <1>7, ClearIsClear DEF DS!Next
<1>8. CASE Snapshot
  BY <1>8, SnapshotIsSnapshot DEF DS!Next
<1>9. CASE Restore
  BY <1>9, RestoreIsRestore DEF DS!Next
<1>10. CASE Forget
  BY <1>10, ForgetIsForget DEF DS!Next
<1>11. CASE UNCHANGED vars
  BY <1>11, QuietSteps DEF vars, stackVars, DS!vars
<1> QED
  BY <1>1, <1>2, <1>3, <1>4, <1>5, <1>6, <1>7, <1>8, <1>9, <1>10, <1>11 DEF Next

\* The scalar, frame and spill layout implements the plain data stack: with any
\* frame and spill size, any nesting of CATCH, no cell is lost, duplicated or
\* reordered, and a THROW brings back what DataStack promises.
THEOREM Refinement == Spec => IsDataStack
<1>1. Init => DS!Init
  BY InitIsInit
<1>2. IInv /\ IInv' /\ [Next]_vars => [DS!Next]_(DS!vars)
  BY StepIsStep
<1> QED BY <1>1, <1>2, Invariance, PTL DEF Spec, IsDataStack, DS!Spec
=============================================================================
