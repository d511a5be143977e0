------------------------- MODULE AllocRegionProofs -------------------------
(***************************************************************************)
(* Proofs about AllocRegion for every cell size, region and set of sizes:  *)
(* blocks have intact headers and lie apart, and the region below the bump *)
(* pointer is accounted for.                                               *)
(*                                                                         *)
(* The parts of the invariant are operators on a heap, a bump pointer,     *)
(* free lists and held blocks, so that a RESIZE that moves a block is an   *)
(* ALLOCATE, a copy and a FREE in a row.                                   *)
(***************************************************************************)
EXTENDS AllocRegion, FiniteSetTheorems, SequenceTheorems, TLAPS

\* No request takes the bump pointer past the largest cell.  The code does not
\* test for it: a larger request wraps, and the wrapped pointer passes the test.
SizesFit == \A size \in Size : AllocLimit + 2 * CellBytes + size <= MaxInt

\* What most steps need of the constants.
LEMMA Layout ==
  CellBytes \in Nat \ {0} /\ AllocBase \in Nat /\ AllocLimit \in Nat /\ MaxInt \in Int
BY LayoutAssumption
USE Layout

-----------------------------------------------------------------------------
\* Whole cells.

\* A number is a whole number of cells if it is a multiple of the cell size.
LEMMA Multiple ==
  ASSUME NEW a \in Int
  PROVE  (a % CellBytes = 0) <=> \E q \in Int : a = q * CellBytes
<1>1. ASSUME a % CellBytes = 0 PROVE \E q \in Int : a = q * CellBytes
  <2>1. a \div CellBytes \in Int
    OBVIOUS
  <2>2. a = (a \div CellBytes) * CellBytes + (a % CellBytes)
    OBVIOUS
  <2>3. a = (a \div CellBytes) * CellBytes
    BY <1>1, <2>1, <2>2
  <2> QED BY <2>1, <2>3
<1>2. ASSUME NEW q \in Int, a = q * CellBytes PROVE a % CellBytes = 0
  BY <1>2
<1> QED BY <1>1, <1>2

\* Sums and differences of whole cells are whole cells.
LEMMA CellsAdd ==
  ASSUME NEW a \in Int, NEW b \in Int, a % CellBytes = 0, b % CellBytes = 0
  PROVE  (a + b) % CellBytes = 0 /\ (a - b) % CellBytes = 0
<1>1. PICK p \in Int : a = p * CellBytes
  BY Multiple
<1>2. PICK q \in Int : b = q * CellBytes
  BY Multiple
<1>3. a + b = (p + q) * CellBytes /\ a - b = (p - q) * CellBytes
  BY <1>1, <1>2
<1>4. p + q \in Int /\ p - q \in Int /\ a + b \in Int /\ a - b \in Int
  OBVIOUS
<1> QED BY <1>3, <1>4, Multiple

\* So is a cell more, or less.
LEMMA OneMore ==
  ASSUME NEW a \in Int, a % CellBytes = 0
  PROVE  (a + CellBytes) % CellBytes = 0 /\ (a - CellBytes) % CellBytes = 0
<1>1. PICK p \in Int : a = p * CellBytes
  BY Multiple
<1>2. a + CellBytes = (p + 1) * CellBytes /\ a - CellBytes = (p - 1) * CellBytes
  BY <1>1
<1>3. p + 1 \in Int /\ p - 1 \in Int /\ a + CellBytes \in Int /\ a - CellBytes \in Int
  OBVIOUS
<1> QED BY <1>2, <1>3, Multiple

\* Different whole numbers of cells are at least one cell apart.
LEMMA CellsApart ==
  ASSUME NEW a \in Int, NEW b \in Int, a % CellBytes = 0, b % CellBytes = 0, a < b
  PROVE  a + CellBytes <= b
<1>1. PICK p \in Int : b - a = p * CellBytes
  <2>1. b - a \in Int
    OBVIOUS
  <2>2. (b - a) % CellBytes = 0
    BY CellsAdd
  <2> QED BY <2>1, <2>2, Multiple
<1>2. p > 0
  <2>1. CASE p <= 0
    <3>1. p * CellBytes <= 0
      BY <2>1
    <3> QED BY <3>1, <1>1
  <2> QED BY <2>1
<1>3. p * CellBytes >= CellBytes
  <2>1. p * CellBytes = CellBytes + (p - 1) * CellBytes
    OBVIOUS
  <2>2. (p - 1) * CellBytes >= 0
    BY <1>2
  <2>3. (p - 1) * CellBytes \in Int /\ p * CellBytes \in Int
    OBVIOUS
  <2> QED BY <2>1, <2>2, <2>3
<1> QED BY <1>1, <1>3

\* The cell an address lies in begins at most CellBytes - 1 below it.
LEMMA CellOf ==
  ASSUME NEW a \in Int
  PROVE  a % CellBytes \in 0..(CellBytes - 1) /\ (a - (a % CellBytes)) % CellBytes = 0
<1>1. a % CellBytes \in 0..(CellBytes - 1)
  OBVIOUS
<1>2. a % CellBytes \in Int
  OBVIOUS
<1>3. (a - (a % CellBytes)) % CellBytes = 0
  OBVIOUS
<1> QED BY <1>1, <1>3

\* A request rounded up is whole cells, and wraps nowhere.
LEMMA UsableRounds ==
  ASSUME SizesFit, NEW size \in Size, size >= 0
  PROVE  /\ Usable(size) \in Nat /\ Usable(size) % CellBytes = 0
         /\ size <= Usable(size) /\ Usable(size) <= size + CellBytes
<1> DEFINE rem == size % CellBytes
<1>1. size \in Int /\ AllocLimit + 2 * CellBytes + size <= MaxInt
  BY LayoutAssumption DEF SizesFit
<1>2. rem \in 0..(CellBytes - 1) /\ (size - rem) % CellBytes = 0
  BY <1>1, CellOf
<1>3. CASE rem = 0
  BY <1>1, <1>3 DEF Usable
<1>4. CASE rem # 0
  <2>1. size - rem \in Int
    BY <1>1, <1>2
  <2>2. ((size - rem) + CellBytes) % CellBytes = 0
    BY <1>2, <2>1, OneMore
  <2> HIDE DEF rem
  <2>3. (size - rem) + CellBytes = size + (CellBytes - rem)
    BY <1>1, <1>2
  <2>4. size + (CellBytes - rem) <= MaxInt
    BY <1>1, <1>2
  <2>5. Usable(size) = size + (CellBytes - rem)
    <3>1. Usable(size) = Wrap(size + (CellBytes - rem))
      BY <1>4 DEF Usable, rem
    <3>2. size + (CellBytes - rem) \in Int
      BY <1>1, <1>2
    <3> QED BY <2>4, <3>1, <3>2 DEF Wrap
  <2>6. Usable(size) % CellBytes = 0
    BY <2>2, <2>3, <2>5
  <2> QED BY <1>1, <1>2, <2>5, <2>6
<1> QED BY <1>3, <1>4

-----------------------------------------------------------------------------
\* Free lists.

Blocks(free) == UNION {ToSet(free[n]) : n \in DOMAIN free}

\* Each list holds blocks of its size, none twice.
Sorted(free, h) ==
  \A n \in DOMAIN free :
    /\ free[n] \in Seq(Int) /\ IsInjective(free[n])
    /\ \A addr \in ToSet(free[n]) : h[addr - CellBytes] = n

\* What a list loses with its last block, and gains with one more.
LEMMA BucketEnds ==
  ASSUME NEW bucket \in Seq(Int), IsInjective(bucket)
  PROVE  /\ bucket # <<>> =>
              /\ Last(bucket) \in ToSet(bucket)
              /\ Front(bucket) \in Seq(Int) /\ IsInjective(Front(bucket))
              /\ ToSet(Front(bucket)) = ToSet(bucket) \ {Last(bucket)}
         /\ \A addr \in Int \ ToSet(bucket) :
              /\ Append(bucket, addr) \in Seq(Int) /\ IsInjective(Append(bucket, addr))
              /\ ToSet(Append(bucket, addr)) = ToSet(bucket) \cup {addr}
<1>1. DOMAIN bucket = 1..Len(bucket) /\ Len(bucket) \in Nat
  BY LenProperties
<1>2. ASSUME bucket # <<>>
      PROVE  /\ Last(bucket) \in ToSet(bucket)
             /\ Front(bucket) \in Seq(Int) /\ IsInjective(Front(bucket))
             /\ ToSet(Front(bucket)) = ToSet(bucket) \ {Last(bucket)}
  <2>1. Len(bucket) \in 1..Len(bucket)
    BY <1>1, <1>2, EmptySeq
  <2>2. /\ Front(bucket) \in Seq(Int) /\ DOMAIN Front(bucket) = 1..(Len(bucket) - 1)
        /\ \A i \in 1..(Len(bucket) - 1) : Front(bucket)[i] = bucket[i]
    BY <1>1, <2>1 DEF Front
  <2>3. 1..(Len(bucket) - 1) = 1..Len(bucket) \ {Len(bucket)}
    <3>1. Len(bucket) \in Nat
      BY <1>1
    <3> QED BY <3>1
  <2>4. IsInjective(Front(bucket))
    BY <1>1, <2>2, <2>3 DEF IsInjective
  <2>5. ASSUME NEW a \in ToSet(Front(bucket))
        PROVE  a \in ToSet(bucket) \ {Last(bucket)}
    <3>1. PICK i \in 1..(Len(bucket) - 1) : a = bucket[i]
      BY <2>2, <2>5 DEF ToSet
    <3>2. i \in 1..Len(bucket) /\ i # Len(bucket)
      BY <2>3
    <3>3. bucket[i] # bucket[Len(bucket)]
      BY <1>1, <2>1, <3>2 DEF IsInjective
    <3> QED BY <1>1, <3>1, <3>2, <3>3 DEF ToSet, Last
  <2>6. ASSUME NEW a \in ToSet(bucket) \ {Last(bucket)}
        PROVE  a \in ToSet(Front(bucket))
    <3>1. PICK i \in 1..Len(bucket) : a = bucket[i]
      BY <1>1 DEF ToSet
    <3>2. i # Len(bucket)
      BY <3>1 DEF Last
    <3>3. i \in 1..(Len(bucket) - 1)
      BY <2>3, <3>2
    <3> QED BY <2>2, <3>1, <3>3 DEF ToSet
  <2> QED BY <1>1, <2>1, <2>2, <2>4, <2>5, <2>6 DEF ToSet, Last
<1>3. ASSUME NEW addr \in Int \ ToSet(bucket)
      PROVE  /\ Append(bucket, addr) \in Seq(Int) /\ IsInjective(Append(bucket, addr))
             /\ ToSet(Append(bucket, addr)) = ToSet(bucket) \cup {addr}
  <2> DEFINE more == Append(bucket, addr)
  <2>1. /\ more \in Seq(Int) /\ DOMAIN more = 1..(Len(bucket) + 1)
        /\ more[Len(bucket) + 1] = addr
        /\ \A i \in 1..Len(bucket) : more[i] = bucket[i]
    BY <1>1, AppendProperties
  <2> HIDE DEF more
  <2>2. \A i \in 1..Len(bucket) : bucket[i] # addr
    BY <1>1, <1>3 DEF ToSet
  <2>3. \A i \in 1..(Len(bucket) + 1) : i \in 1..Len(bucket) \/ i = Len(bucket) + 1
    BY <1>1
  <2>4. 1..Len(bucket) \subseteq 1..(Len(bucket) + 1) /\ Len(bucket) + 1 \in 1..(Len(bucket) + 1)
    BY <1>1
  <2>5. IsInjective(more)
    <3> SUFFICES ASSUME NEW i \in 1..(Len(bucket) + 1), NEW j \in 1..(Len(bucket) + 1),
                        more[i] = more[j]
                 PROVE  i = j
      BY <2>1 DEF IsInjective
    <3>1. CASE i \in 1..Len(bucket) /\ j \in 1..Len(bucket)
      BY <1>1, <2>1, <3>1 DEF IsInjective
    <3> QED BY <2>1, <2>2, <2>3, <3>1
  <2>6. ToSet(more) = ToSet(bucket) \cup {addr}
    BY <1>1, <2>1, <2>3, <2>4 DEF ToSet
  <2> QED BY <2>1, <2>5, <2>6 DEF more
<1> QED BY <1>2, <1>3

\* ALLOCATE takes the last block of a list: the free blocks lose just that one.
LEMMA TakeLast ==
  ASSUME NEW free, NEW h, NEW n \in DOMAIN free, Sorted(free, h), free[n] # <<>>
  PROVE  LET rest == SetBucket(free, n, Front(free[n])) IN
           /\ Last(free[n]) \in Blocks(free) /\ h[Last(free[n]) - CellBytes] = n
           /\ Sorted(rest, h) /\ Blocks(rest) = Blocks(free) \ {Last(free[n])}
<1> DEFINE rest == SetBucket(free, n, Front(free[n]))
           addr == Last(free[n])
<1>1. /\ addr \in ToSet(free[n])
      /\ Front(free[n]) \in Seq(Int) /\ IsInjective(Front(free[n]))
      /\ ToSet(Front(free[n])) = ToSet(free[n]) \ {addr}
  BY BucketEnds DEF Sorted
<1>2. addr \in Blocks(free) /\ h[addr - CellBytes] = n
  BY <1>1 DEF Blocks, Sorted
<1>3. /\ DOMAIN rest = DOMAIN free /\ rest[n] = Front(free[n])
      /\ \A m \in DOMAIN free \ {n} : rest[m] = free[m]
  BY DEF SetBucket
<1> HIDE DEF rest, addr
<1>4. Sorted(rest, h)
  BY <1>1, <1>3 DEF Sorted
<1>5. \A m \in DOMAIN free \ {n} : addr \notin ToSet(free[m])
  BY <1>2 DEF Sorted
<1>6. Blocks(rest) = Blocks(free) \ {addr}
  <2>1. \A m \in DOMAIN free : ToSet(rest[m]) = ToSet(free[m]) \ {addr}
    BY <1>1, <1>3, <1>5
  <2> QED BY <1>3, <2>1 DEF Blocks
<1> QED BY <1>2, <1>4, <1>6 DEF rest, addr

\* The free lists once a block of n bytes is freed; an empty one is dropped.
GivenBack(free, n, addr) ==
  LET bucket == IF n \in DOMAIN free THEN free[n] ELSE <<>> IN
    IF n > 0 THEN SetBucket(free, n, Append(bucket, addr)) ELSE free

\* FREE adds a block to the list of its size, and to no other.
LEMMA GiveBack ==
  ASSUME NEW free, NEW h, NEW addr \in Int, Sorted(free, h), addr \notin Blocks(free)
  PROVE  LET n == h[addr - CellBytes]
             more == GivenBack(free, n, addr)
         IN  /\ Sorted(more, h)
             /\ Blocks(more) = IF n > 0 THEN Blocks(free) \cup {addr} ELSE Blocks(free)
<1> DEFINE n == h[addr - CellBytes]
           bucket == IF n \in DOMAIN free THEN free[n] ELSE <<>>
           more == GivenBack(free, n, addr)
<1>1. bucket \in Seq(Int) /\ IsInjective(bucket) /\ addr \notin ToSet(bucket)
  BY DEF Sorted, Blocks, IsInjective, ToSet
<1>2. CASE ~ (n > 0)
  BY <1>2 DEF GivenBack
<1>3. CASE n > 0
  <2>1. /\ DOMAIN more = DOMAIN free \cup {n} /\ more[n] = Append(bucket, addr)
        /\ \A m \in DOMAIN free \ {n} : more[m] = free[m]
    BY <1>3 DEF GivenBack, SetBucket
  <2>2. /\ Append(bucket, addr) \in Seq(Int) /\ IsInjective(Append(bucket, addr))
        /\ ToSet(Append(bucket, addr)) = ToSet(bucket) \cup {addr}
    BY <1>1, BucketEnds
  <2>3. \A a \in ToSet(bucket) : h[a - CellBytes] = n
    BY DEF Sorted, ToSet
  <2>4. n \in DOMAIN free => bucket = free[n]
    OBVIOUS
  <2>5. n \notin DOMAIN free => ToSet(bucket) = {}
    BY DEF ToSet
  <2>6. h[addr - CellBytes] = n
    OBVIOUS
  <2> HIDE DEF n, bucket, more
  <2>7. Sorted(more, h)
    BY <2>1, <2>2, <2>3, <2>6 DEF Sorted
  <2>8. ASSUME NEW m \in DOMAIN free \cup {n}
        PROVE  ToSet(more[m]) \ {addr} = (IF m \in DOMAIN free THEN ToSet(free[m]) ELSE {}) \ {addr}
    BY <2>1, <2>2, <2>4, <2>5, <2>8
  <2>9. Blocks(more) \ {addr} = Blocks(free) \ {addr}
    BY <2>1, <2>8 DEF Blocks
  <2>10. addr \in Blocks(more)
    BY <2>1, <2>2 DEF Blocks
  <2>11. Blocks(more) = Blocks(free) \cup {addr}
    BY <2>9, <2>10
  <2> QED BY <1>3, <2>7, <2>11 DEF n, more
<1> QED BY <1>2, <1>3

\* The lists stay right while no free block's header changes.
LEMMA SortedKept ==
  ASSUME NEW free, NEW h, NEW g, Sorted(free, h),
         \A addr \in Blocks(free) : g[addr - CellBytes] = h[addr - CellBytes]
  PROVE  Sorted(free, g)
BY DEF Sorted, Blocks

-----------------------------------------------------------------------------
\* Where blocks lie.

Span(h, addr) == (addr - CellBytes)..(addr + h[addr - CellBytes] - 1)

Placed(h, ptr, addr) ==
  /\ addr \in (AllocBase + CellBytes)..ptr /\ addr % CellBytes = 0
  /\ h[addr - CellBytes] \in Nat /\ h[addr - CellBytes] % CellBytes = 0
  /\ addr + h[addr - CellBytes] <= ptr

Apart(blocks, h, ptr) ==
  /\ \A addr \in blocks : Placed(h, ptr, addr)
  /\ \A a, b \in blocks : a < b => a + h[a - CellBytes] <= b - CellBytes

HeapTyped(h, ptr) ==
  /\ h \in [Region -> Int]
  /\ ptr \in AllocBase..AllocLimit /\ ptr % CellBytes = 0

\* Below the bump pointer an address belongs to a block, or to a header of 0.
Accounted(blocks, h, ptr) ==
  \A x \in AllocBase..(ptr - 1) :
    (\E addr \in blocks : x \in Span(h, addr)) \/ h[x - (x % CellBytes)] = 0

\* The blocks hold what a program may store; above the bump pointer is nothing.
Clean(blocks, h, ptr) ==
  /\ \A addr \in blocks : \A x \in addr..(addr + h[addr - CellBytes] - 1) : h[x] \in Byte
  /\ \A x \in Region : x >= ptr => h[x] = 0

\* A whole block lies in the region.
LEMMA PlacedInRegion ==
  ASSUME NEW h, NEW ptr, NEW addr, HeapTyped(h, ptr), Placed(h, ptr, addr)
  PROVE  /\ addr \in Int /\ h[addr - CellBytes] \in Nat
         /\ Span(h, addr) \subseteq AllocBase..(ptr - 1)
         /\ Span(h, addr) \subseteq Region
         /\ addr - CellBytes \in Span(h, addr)
         /\ addr + h[addr - CellBytes] <= ptr /\ addr >= AllocBase + CellBytes
<1>1. /\ addr \in Int /\ addr >= AllocBase + CellBytes /\ addr <= ptr
      /\ h[addr - CellBytes] \in Nat /\ addr + h[addr - CellBytes] <= ptr
  BY DEF Placed
<1>2. ptr \in Int /\ ptr <= AllocLimit
  BY DEF HeapTyped
<1> QED BY <1>1, <1>2 DEF Span, Region

\* The cell an address of the region lies in is in the region.
LEMMA CellInRegion ==
  ASSUME NEW x \in Int, x >= AllocBase
  PROVE  /\ x - (x % CellBytes) \in Int /\ (x - (x % CellBytes)) % CellBytes = 0
         /\ AllocBase <= x - (x % CellBytes) /\ x - (x % CellBytes) <= x
         /\ x < x - (x % CellBytes) + CellBytes
<1> DEFINE c == x - (x % CellBytes)
<1>1. c \in Int /\ c % CellBytes = 0 /\ c <= x /\ x < c + CellBytes
  BY CellOf
<1> HIDE DEF c
<1>2. CASE c < AllocBase
  <2>1. AllocBase \in Int /\ AllocBase % CellBytes = 0
    BY LayoutAssumption
  <2>2. c + CellBytes <= AllocBase
    BY <1>1, <1>2, <2>1, CellsApart
  <2> QED BY <1>1, <2>2
<1> QED BY <1>1, <1>2 DEF c

\* A write inside a block leaves every header alone.
LEMMA WriteInside ==
  ASSUME NEW blocks, NEW h, NEW ptr, NEW g, NEW into \in blocks,
         HeapTyped(h, ptr), Apart(blocks, h, ptr), g \in [Region -> Int],
         \A x \in Region \ (into..(into + h[into - CellBytes] - 1)) : g[x] = h[x]
  PROVE  \A addr \in blocks : g[addr - CellBytes] = h[addr - CellBytes]
<1> SUFFICES ASSUME NEW addr \in blocks PROVE g[addr - CellBytes] = h[addr - CellBytes]
  OBVIOUS
<1>1. Placed(h, ptr, addr) /\ Placed(h, ptr, into)
  BY DEF Apart
<1>2. /\ addr \in Int /\ addr - CellBytes \in Region /\ h[addr - CellBytes] \in Nat
      /\ into \in Int /\ h[into - CellBytes] \in Nat
  BY <1>1, PlacedInRegion
<1>3. CASE addr <= into
  BY <1>2, <1>3
<1>4. CASE into < addr
  <2>1. into + h[into - CellBytes] <= addr - CellBytes
    BY <1>4 DEF Apart
  <2> QED BY <1>2, <2>1
<1> QED BY <1>2, <1>3, <1>4

\* So the blocks stay apart, the region accounted for, and the blocks clean.
LEMMA WriteKeeps ==
  ASSUME NEW blocks, NEW h, NEW ptr, NEW g, NEW into \in blocks,
         HeapTyped(h, ptr), Apart(blocks, h, ptr), g \in [Region -> Int],
         \A x \in Region \ (into..(into + h[into - CellBytes] - 1)) : g[x] = h[x]
  PROVE  /\ HeapTyped(g, ptr) /\ Apart(blocks, g, ptr)
         /\ Accounted(blocks, h, ptr) => Accounted(blocks, g, ptr)
         /\ Clean(blocks, h, ptr) /\ (\A x \in Region : g[x] # h[x] => g[x] \in Byte)
              => Clean(blocks, g, ptr)
<1>1. \A addr \in blocks : g[addr - CellBytes] = h[addr - CellBytes]
  BY WriteInside
<1>2. HeapTyped(g, ptr)
  BY DEF HeapTyped
<1>3. Apart(blocks, g, ptr)
  <2>1. \A addr \in blocks : Placed(g, ptr, addr)
    BY <1>1 DEF Apart, Placed
  <2>2. \A a, b \in blocks : a < b => a + g[a - CellBytes] <= b - CellBytes
    BY <1>1 DEF Apart
  <2> QED BY <2>1, <2>2 DEF Apart
<1>4. Placed(h, ptr, into)
  BY DEF Apart
<1>5. /\ into \in Int /\ h[into - CellBytes] \in Nat /\ into >= AllocBase + CellBytes
      /\ into + h[into - CellBytes] <= ptr /\ Span(h, into) \subseteq Region
      /\ (into + h[into - CellBytes]) % CellBytes = 0
  <2>1. into % CellBytes = 0 /\ h[into - CellBytes] % CellBytes = 0
    BY <1>4 DEF Placed
  <2>2. into \in Int /\ h[into - CellBytes] \in Int
    BY <1>4, PlacedInRegion
  <2>3. (into + h[into - CellBytes]) % CellBytes = 0
    BY <2>1, <2>2, CellsAdd
  <2> QED BY <1>4, <2>3, PlacedInRegion
<1>6. ptr \in Int /\ ptr <= AllocLimit
  BY DEF HeapTyped
<1>7. ASSUME Accounted(blocks, h, ptr) PROVE Accounted(blocks, g, ptr)
  <2> SUFFICES ASSUME NEW x \in AllocBase..(ptr - 1),
                      \A addr \in blocks : x \notin Span(g, addr)
               PROVE  g[x - (x % CellBytes)] = 0
    BY DEF Accounted
  <2> DEFINE c == x - (x % CellBytes)
  <2>1. \A addr \in blocks : x \notin Span(h, addr)
    BY <1>1 DEF Span
  <2>2. h[c] = 0
    BY <1>7, <2>1 DEF Accounted
  <2>3. /\ c \in Int /\ c % CellBytes = 0 /\ AllocBase <= c /\ c <= x
        /\ x < c + CellBytes /\ x \in Int /\ x < ptr
    BY CellInRegion, <1>6
  <2> HIDE DEF c
  <2>4. c \in Region
    BY <1>6, <2>3 DEF Region
  <2>5. CASE c \in into..(into + h[into - CellBytes] - 1)
    <3>1. c < into + h[into - CellBytes] /\ into + h[into - CellBytes] \in Int /\ c >= into
      BY <1>5, <2>3, <2>5
    <3>2. c + CellBytes <= into + h[into - CellBytes]
      BY <1>5, <2>3, <3>1, CellsApart
    <3>3. x \in Span(h, into)
      BY <1>5, <2>3, <3>1, <3>2 DEF Span
    <3> QED BY <2>1, <3>3
  <2>6. CASE c \notin into..(into + h[into - CellBytes] - 1)
    BY <2>2, <2>4, <2>6 DEF c
  <2> QED BY <2>5, <2>6
<1>8. ASSUME Clean(blocks, h, ptr), \A x \in Region : g[x] # h[x] => g[x] \in Byte
      PROVE  Clean(blocks, g, ptr)
  <2>1. ASSUME NEW addr \in blocks,
               NEW x \in addr..(addr + g[addr - CellBytes] - 1)
        PROVE  g[x] \in Byte
    <3>1. x \in addr..(addr + h[addr - CellBytes] - 1) /\ h[x] \in Byte
      BY <1>1, <1>8, <2>1 DEF Clean
    <3>2. Placed(h, ptr, addr)
      BY DEF Apart
    <3>3. x \in Region
      BY <3>1, <3>2, PlacedInRegion DEF Span
    <3> QED BY <1>8, <3>1, <3>3
  <2>2. ASSUME NEW x \in Region, x >= ptr PROVE g[x] = 0
    <3>1. x \notin into..(into + h[into - CellBytes] - 1)
      BY <1>5, <1>6, <2>2, SMTT(30) DEF Region
    <3> QED BY <1>8, <2>2, <3>1 DEF Clean
  <2> QED BY <2>1, <2>2 DEF Clean
<1> QED BY <1>2, <1>3, <1>7, <1>8

\* The heap g is h with the header of a new block of u bytes at ptr.
Extended(h, ptr, g, u) ==
  /\ u \in Nat /\ u % CellBytes = 0 /\ ptr + CellBytes + u <= AllocLimit
  /\ g \in [Region -> Int] /\ g[ptr] = u
  /\ \A x \in Region : x < ptr \/ x >= ptr + CellBytes => g[x] = h[x]

\* A block made above the bump pointer, with its header, lies apart from all
\* others; it accounts for what the pointer passes over.
LEMMA NewBlock ==
  ASSUME NEW blocks, NEW h, NEW ptr, NEW g, NEW u,
         HeapTyped(h, ptr), Apart(blocks, h, ptr), Extended(h, ptr, g, u)
  PROVE  /\ HeapTyped(g, ptr + CellBytes + u)
         /\ Apart(blocks \cup {ptr + CellBytes}, g, ptr + CellBytes + u)
         /\ ptr + CellBytes \notin blocks
         /\ \A addr \in blocks : g[addr - CellBytes] = h[addr - CellBytes]
         /\ Accounted(blocks, h, ptr)
              => Accounted(blocks \cup {ptr + CellBytes}, g, ptr + CellBytes + u)
         /\ Clean(blocks, h, ptr)
              => Clean(blocks \cup {ptr + CellBytes}, g, ptr + CellBytes + u)
<1> DEFINE new == ptr + CellBytes
           top == ptr + CellBytes + u
<1>0. /\ u \in Nat /\ u % CellBytes = 0 /\ ptr + CellBytes + u <= AllocLimit
       /\ g \in [Region -> Int] /\ g[ptr] = u
       /\ \A x \in Region : x < ptr \/ x >= ptr + CellBytes => g[x] = h[x]
  BY DEF Extended
<1> USE <1>0
<1>1. /\ ptr \in Int /\ ptr % CellBytes = 0 /\ AllocBase <= ptr /\ ptr <= AllocLimit
      /\ new \in Int /\ top \in Int /\ new - CellBytes = ptr /\ top = new + u /\ new <= top
  BY DEF HeapTyped
<1>2. new % CellBytes = 0 /\ top % CellBytes = 0
  <2>1. ptr \in Int /\ ptr % CellBytes = 0
    BY <1>1
  <2>2. (ptr + CellBytes) % CellBytes = 0
    BY <2>1, OneMore
  <2>3. ptr + CellBytes \in Int
    BY <2>1
  <2>4. ((ptr + CellBytes) + u) % CellBytes = 0
    BY <2>2, <2>3, CellsAdd
  <2> QED BY <2>2, <2>4
<1>3. new - CellBytes = ptr /\ g[new - CellBytes] = u /\ top <= AllocLimit /\ new = ptr + CellBytes
  BY <1>1
<1>4. \A x \in Region : x < ptr \/ x >= new => g[x] = h[x]
  OBVIOUS
<1> HIDE DEF new, top
<1>5. ASSUME NEW addr \in blocks
      PROVE  /\ addr \in Int /\ h[addr - CellBytes] \in Nat /\ addr <= ptr
             /\ addr + h[addr - CellBytes] <= ptr /\ addr >= AllocBase + CellBytes
             /\ g[addr - CellBytes] = h[addr - CellBytes]
             /\ Placed(h, ptr, addr)
  <2>1. Placed(h, ptr, addr)
    BY DEF Apart
  <2>2. /\ addr \in Int /\ h[addr - CellBytes] \in Nat /\ addr + h[addr - CellBytes] <= ptr
        /\ addr - CellBytes \in Region /\ addr >= AllocBase + CellBytes
    BY <2>1, PlacedInRegion
  <2>3. addr - CellBytes < ptr /\ addr <= ptr
    BY <1>1, <2>2
  <2> QED BY <1>4, <2>1, <2>2, <2>3
<1>6. HeapTyped(g, top)
  BY <1>1, <1>2, <1>3 DEF HeapTyped
<1>7. Apart(blocks \cup {new}, g, top)
  <2>1. ASSUME NEW addr \in blocks PROVE Placed(g, top, addr)
    <3>1. addr <= top /\ addr + g[addr - CellBytes] <= top
      BY <1>1, <1>3, <1>5
    <3> QED BY <1>1, <1>5, <3>1 DEF Placed
  <2>2. Placed(g, top, new)
    BY <1>1, <1>2, <1>3 DEF Placed
  <2>3. ASSUME NEW a \in blocks \cup {new}, NEW b \in blocks \cup {new}, a < b
        PROVE  a + g[a - CellBytes] <= b - CellBytes
    <3>1. CASE a \in blocks /\ b \in blocks
      BY <1>5, <2>3, <3>1 DEF Apart
    <3>2. CASE a \in blocks /\ b = new
      BY <1>1, <1>3, <1>5, <3>2
    <3>3. CASE a = new
      BY <1>1, <1>3, <1>5, <2>3, <3>3
    <3> QED BY <3>1, <3>2, <3>3
  <2> QED BY <2>1, <2>2, <2>3 DEF Apart
<1>8. new \notin blocks
  BY <1>1, <1>3, <1>5
<1>9. ASSUME Accounted(blocks, h, ptr) PROVE Accounted(blocks \cup {new}, g, top)
  <2> SUFFICES ASSUME NEW x \in AllocBase..(top - 1),
                      \A addr \in blocks \cup {new} : x \notin Span(g, addr)
               PROVE  g[x - (x % CellBytes)] = 0
    BY DEF Accounted
  <2>1. x \in Int /\ x >= AllocBase /\ x < top
    BY <1>1
  <2>2. x < ptr
    <3>1. x \notin Span(g, new)
      OBVIOUS
    <3> QED BY <1>1, <1>3, <2>1, <3>1 DEF Span
  <2> DEFINE c == x - (x % CellBytes)
  <2>3. \A addr \in blocks : x \notin Span(h, addr)
    BY <1>5 DEF Span
  <2>4. x \in AllocBase..(ptr - 1)
    BY <1>1, <2>1, <2>2
  <2>5. h[c] = 0
    BY <1>9, <2>3, <2>4 DEF Accounted
  <2>6. c \in Int /\ AllocBase <= c /\ c <= x
    BY CellInRegion, <2>1
  <2> HIDE DEF c
  <2>7. c \in Region /\ c < ptr
    BY <1>1, <2>1, <2>2, <2>6 DEF Region
  <2> QED BY <1>4, <2>5, <2>7 DEF c
<1>10. ASSUME Clean(blocks, h, ptr) PROVE Clean(blocks \cup {new}, g, top)
  <2>1. ASSUME NEW addr \in blocks, NEW x \in addr..(addr + g[addr - CellBytes] - 1)
        PROVE  g[x] \in Byte
    <3>1. x \in addr..(addr + h[addr - CellBytes] - 1)
      BY <1>5
    <3>2. h[x] \in Byte
      BY <1>10, <3>1 DEF Clean
    <3>3. x \in Region
      BY <1>5, <3>1, PlacedInRegion DEF Span
    <3>4. x < ptr
      BY <1>1, <1>5, <3>1
    <3> QED BY <1>4, <3>2, <3>3, <3>4
  <2>2. ASSUME NEW x \in Region, x >= new PROVE g[x] = 0
    <3>1. x >= ptr
      BY <1>1, <1>3, <2>2 DEF Region
    <3> QED BY <1>4, <1>10, <2>2, <3>1 DEF Clean
  <2>3. ASSUME NEW x \in new..(new + g[new - CellBytes] - 1) PROVE g[x] \in Byte
    <3>1. x \in Region /\ x >= new
      BY <1>1, <1>3, <2>3 DEF Region
    <3> QED BY <2>2, <3>1, LayoutAssumption
  <2>4. ASSUME NEW x \in Region, x >= top PROVE g[x] = 0
    <3>1. x >= new
      BY <1>1, <2>4 DEF Region
    <3> QED BY <2>2, <3>1
  <2> QED BY <2>1, <2>3, <2>4 DEF Clean
<1> QED BY <1>5, <1>6, <1>7, <1>8, <1>9, <1>10 DEF new, top

\* With a block less the others are still apart, and clean.  A block of no
\* bytes leaves its header, which is 0.
LEMMA FewerBlocks ==
  ASSUME NEW blocks, NEW fewer, NEW h, NEW ptr, HeapTyped(h, ptr), Apart(blocks, h, ptr),
         fewer \subseteq blocks
  PROVE  /\ Apart(fewer, h, ptr)
         /\ Clean(blocks, h, ptr) => Clean(fewer, h, ptr)
         /\ Accounted(blocks, h, ptr) /\ (\A addr \in blocks \ fewer : h[addr - CellBytes] = 0)
              => Accounted(fewer, h, ptr)
<1>1. Apart(fewer, h, ptr)
  BY DEF Apart
<1>2. Clean(blocks, h, ptr) => Clean(fewer, h, ptr)
  BY DEF Clean
<1>3. ASSUME Accounted(blocks, h, ptr), \A addr \in blocks \ fewer : h[addr - CellBytes] = 0
      PROVE  Accounted(fewer, h, ptr)
  <2> SUFFICES ASSUME NEW x \in AllocBase..(ptr - 1),
                      \A addr \in fewer : x \notin Span(h, addr)
               PROVE  h[x - (x % CellBytes)] = 0
    BY DEF Accounted
  <2>1. CASE \A addr \in blocks : x \notin Span(h, addr)
    BY <1>3, <2>1 DEF Accounted
  <2>2. CASE \E addr \in blocks : x \in Span(h, addr)
    <3>1. PICK addr \in blocks : x \in Span(h, addr)
      BY <2>2
    <3>2. h[addr - CellBytes] = 0
      BY <1>3, <3>1
    <3>3. Placed(h, ptr, addr)
      BY DEF Apart
    <3>4. /\ addr \in Int /\ addr % CellBytes = 0 /\ x \in Int /\ x >= AllocBase
          /\ addr - CellBytes <= x /\ x < addr
      BY <3>1, <3>2, <3>3 DEF Placed, Span, HeapTyped
    <3> DEFINE c == x - (x % CellBytes)
               d == addr - CellBytes
    <3>5. c \in Int /\ c % CellBytes = 0 /\ c <= x /\ x < c + CellBytes
      BY CellInRegion, <3>4
    <3>6. d \in Int /\ d % CellBytes = 0 /\ d <= x /\ x < d + CellBytes
      <4>1. addr \in Int /\ addr % CellBytes = 0
        BY <3>4
      <4>2. (addr - CellBytes) % CellBytes = 0
        BY <4>1, OneMore
      <4> QED BY <3>4, <4>2
    <3>7. h[d] = 0
      BY <3>2
    <3> HIDE DEF c, d
    <3>8. ~ (c < d) /\ ~ (d < c)
      <4>1. CASE c < d
        <5>1. c + CellBytes <= d
          BY <3>5, <3>6, <4>1, CellsApart
        <5> QED BY <3>4, <3>5, <3>6, <5>1
      <4>2. CASE d < c
        <5>1. d + CellBytes <= c
          BY <3>5, <3>6, <4>2, CellsApart
        <5> QED BY <3>4, <3>5, <3>6, <5>1
      <4> QED BY <4>1, <4>2
    <3>9. c = d
      BY <3>5, <3>6, <3>8
    <3> QED BY <3>7, <3>9 DEF c
  <2> QED BY <2>1, <2>2
<1> QED BY <1>1, <1>2, <1>3

-----------------------------------------------------------------------------
\* The invariant.

Sound(h, ptr, free, H) ==
  /\ HeapTyped(h, ptr)
  /\ H \in [DOMAIN H -> Nat]
  /\ Sorted(free, h)
  /\ DOMAIN H \cap Blocks(free) = {}
  /\ Apart(DOMAIN H \cup Blocks(free), h, ptr)
  /\ \A addr \in DOMAIN H : H[addr] <= h[addr - CellBytes]
  /\ Accounted(DOMAIN H \cup Blocks(free), h, ptr)
  /\ Clean(DOMAIN H \cup Blocks(free), h, ptr)

IInv == Sound(heap, alloc_ptr, alloc_free, held)

Put(H, addr, size) == [a \in DOMAIN H \cup {addr} |-> IF a = addr THEN size ELSE H[a]]
Drop(H, addr) == [a \in DOMAIN H \ {addr} |-> H[a]]

\* What a program stores into a block it holds leaves everything else sound.
LEMMA Writing ==
  ASSUME NEW h, NEW ptr, NEW free, NEW H, NEW g, NEW into \in DOMAIN H,
         Sound(h, ptr, free, H), g \in [Region -> Int],
         \A x \in Region \ (into..(into + H[into] - 1)) : g[x] = h[x],
         \A x \in Region : g[x] # h[x] => g[x] \in Byte
  PROVE  /\ Sound(g, ptr, free, H)
         /\ \A addr \in DOMAIN H : g[addr - CellBytes] = h[addr - CellBytes]
<1> DEFINE all == DOMAIN H \cup Blocks(free)
<1>1. HeapTyped(h, ptr) /\ Apart(all, h, ptr) /\ into \in all
  BY DEF Sound
<1>2. \A x \in Region \ (into..(into + h[into - CellBytes] - 1)) : g[x] = h[x]
  <2>1. into \in Int /\ h[into - CellBytes] \in Nat
    BY <1>1, PlacedInRegion DEF Apart
  <2>2. H[into] \in Nat /\ H[into] <= h[into - CellBytes]
    BY DEF Sound
  <2> QED BY <2>1, <2>2
<1> HIDE DEF all
<1>3. /\ HeapTyped(g, ptr) /\ Apart(all, g, ptr)
      /\ Accounted(all, h, ptr) => Accounted(all, g, ptr)
      /\ Clean(all, h, ptr) => Clean(all, g, ptr)
  BY <1>1, <1>2, WriteKeeps
<1>4. \A addr \in all : g[addr - CellBytes] = h[addr - CellBytes]
  BY <1>1, <1>2, WriteInside
<1>5. Sorted(free, g)
  BY <1>4, SortedKept DEF Sound, all
<1> QED BY <1>3, <1>4, <1>5 DEF Sound, all

\* FREE gives a held block to the list of its size, or drops it if it is empty.
LEMMA Freeing ==
  ASSUME NEW h, NEW ptr, NEW free, NEW H, NEW addr \in DOMAIN H, Sound(h, ptr, free, H)
  PROVE  Sound(h, ptr, GivenBack(free, h[addr - CellBytes], addr), Drop(H, addr))
<1> DEFINE n == h[addr - CellBytes]
           more == GivenBack(free, n, addr)
           left == Drop(H, addr)
           all == DOMAIN H \cup Blocks(free)
           rest == DOMAIN left \cup Blocks(more)
<1>1. /\ HeapTyped(h, ptr) /\ Apart(all, h, ptr) /\ H \in [DOMAIN H -> Nat]
      /\ Sorted(free, h) /\ DOMAIN H \cap Blocks(free) = {}
      /\ \A a \in DOMAIN H : H[a] <= h[a - CellBytes]
      /\ Accounted(all, h, ptr) /\ Clean(all, h, ptr)
  BY DEF Sound
<1>2. addr \in Int /\ n \in Nat
  BY <1>1, PlacedInRegion DEF Apart
<1>3. /\ DOMAIN left = DOMAIN H \ {addr} /\ left \in [DOMAIN left -> Nat]
      /\ \A a \in DOMAIN left : left[a] = H[a]
  BY <1>1 DEF Drop
<1>4. addr \notin Blocks(free)
  BY <1>1
<1>5. /\ Sorted(more, h)
      /\ Blocks(more) = IF n > 0 THEN Blocks(free) \cup {addr} ELSE Blocks(free)
  BY <1>1, <1>2, <1>4, GiveBack
<1> HIDE DEF more, left
<1>6. DOMAIN left \cap Blocks(more) = {}
  BY <1>1, <1>3, <1>5
<1>7. rest \subseteq all /\ \A a \in all \ rest : a = addr /\ n = 0
  BY <1>2, <1>3, <1>5
<1> HIDE DEF all, rest
<1>8. Apart(rest, h, ptr) /\ Clean(rest, h, ptr) /\ Accounted(rest, h, ptr)
  BY <1>1, <1>7, FewerBlocks
<1>9. \A a \in DOMAIN left : left[a] <= h[a - CellBytes]
  BY <1>1, <1>3
<1>10. Sound(h, ptr, more, left)
  BY <1>1, <1>3, <1>5, <1>6, <1>8, <1>9 DEF Sound, rest
<1> QED BY <1>10 DEF more, left

\* A free block of the right size is handed out as it is.
LEMMA Recycling ==
  ASSUME IInv, SizesFit, NEW size \in Size, Recycled(size)
  PROVE  /\ Found(size) \in Int /\ Found(size) \notin DOMAIN held
         /\ Sound(HeapTaking(size), PtrTaking(size), FreeTaking(size),
                  Put(held, Found(size), size))
         /\ HeapTaking(size) = heap
<1> DEFINE n == Usable(size)
           addr == Last(alloc_free[n])
           rest == SetBucket(alloc_free, n, Front(alloc_free[n]))
           more == Put(held, addr, size)
<1>1. size >= 0 /\ n \in DOMAIN alloc_free /\ alloc_free[n] # <<>> /\ Bucket(n) = alloc_free[n]
  BY DEF Recycled, Bucket
<1>2. /\ HeapTyped(heap, alloc_ptr) /\ held \in [DOMAIN held -> Nat]
      /\ Sorted(alloc_free, heap) /\ DOMAIN held \cap Blocks(alloc_free) = {}
      /\ Apart(DOMAIN held \cup Blocks(alloc_free), heap, alloc_ptr)
      /\ \A a \in DOMAIN held : held[a] <= heap[a - CellBytes]
      /\ Accounted(DOMAIN held \cup Blocks(alloc_free), heap, alloc_ptr)
      /\ Clean(DOMAIN held \cup Blocks(alloc_free), heap, alloc_ptr)
  BY DEF IInv, Sound
<1>3. /\ Found(size) = addr /\ HeapTaking(size) = heap /\ PtrTaking(size) = alloc_ptr
      /\ FreeTaking(size) = rest
  BY <1>1 DEF Found, HeapTaking, PtrTaking, FreeTaking
<1>4. /\ addr \in Blocks(alloc_free) /\ heap[addr - CellBytes] = n
      /\ Sorted(rest, heap) /\ Blocks(rest) = Blocks(alloc_free) \ {addr}
  BY <1>1, <1>2, TakeLast
<1>5. size <= n /\ size \in Nat
  BY <1>1, UsableRounds, LayoutAssumption
<1> HIDE DEF n, addr, rest
<1>6. addr \notin DOMAIN held
  BY <1>2, <1>4
<1>7. addr \in Int
  BY <1>2, <1>4, PlacedInRegion DEF Apart
<1>8. /\ DOMAIN more = DOMAIN held \cup {addr} /\ more[addr] = size
      /\ \A a \in DOMAIN held : more[a] = held[a]
      /\ more \in [DOMAIN more -> Nat]
  BY <1>2, <1>5, <1>6 DEF Put
<1> HIDE DEF more
<1>9. DOMAIN more \cup Blocks(rest) = DOMAIN held \cup Blocks(alloc_free)
  BY <1>4, <1>8
<1>10. DOMAIN more \cap Blocks(rest) = {}
  BY <1>2, <1>4, <1>8
<1>11. \A a \in DOMAIN more : more[a] <= heap[a - CellBytes]
  BY <1>2, <1>4, <1>5, <1>8
<1>12. Sound(heap, alloc_ptr, rest, more)
  BY <1>2, <1>4, <1>8, <1>9, <1>10, <1>11 DEF Sound
<1> QED BY <1>3, <1>6, <1>7, <1>12 DEF more

\* Otherwise the bump pointer advances over a new header and block.
LEMMA Bumping ==
  ASSUME IInv, SizesFit, NEW size \in Size, Bumped(size)
  PROVE  /\ Found(size) \in Int /\ Found(size) \notin DOMAIN held
         /\ Sound(HeapTaking(size), PtrTaking(size), FreeTaking(size),
                  Put(held, Found(size), size))
         /\ \A addr \in DOMAIN held \cup FreeBlocks :
              \A x \in Span(heap, addr) : HeapTaking(size)[x] = heap[x]
<1> DEFINE u == Usable(size)
           new == alloc_ptr + CellBytes
           top == alloc_ptr + CellBytes + u
           g == CellStore(alloc_ptr, u)
           more == Put(held, new, size)
           all == DOMAIN held \cup Blocks(alloc_free)
<1>1. size >= 0 /\ ~ Recycled(size) /\ BumpTo(size) <= AllocLimit
  BY DEF Bumped
<1>2. /\ HeapTyped(heap, alloc_ptr) /\ held \in [DOMAIN held -> Nat]
      /\ Sorted(alloc_free, heap) /\ DOMAIN held \cap Blocks(alloc_free) = {}
      /\ Apart(all, heap, alloc_ptr)
      /\ \A a \in DOMAIN held : held[a] <= heap[a - CellBytes]
      /\ Accounted(all, heap, alloc_ptr) /\ Clean(all, heap, alloc_ptr)
  BY DEF IInv, Sound
<1>3. /\ u \in Nat /\ u % CellBytes = 0 /\ size <= u /\ u <= size + CellBytes
      /\ size \in Nat /\ AllocLimit + 2 * CellBytes + size <= MaxInt
  BY <1>1, UsableRounds, LayoutAssumption DEF SizesFit
<1>4. alloc_ptr \in Int /\ alloc_ptr <= AllocLimit /\ AllocBase <= alloc_ptr
  BY <1>2 DEF HeapTyped
<1> HIDE DEF u
<1>5. BumpTo(size) = top /\ top <= AllocLimit
  <2>1. top <= MaxInt /\ top \in Int
    BY <1>3, <1>4
  <2> QED BY <1>1, <2>1 DEF BumpTo, Wrap, u
<1>6. /\ Found(size) = new /\ HeapTaking(size) = g /\ PtrTaking(size) = top
      /\ FreeTaking(size) = alloc_free
  BY <1>1, <1>5 DEF Found, HeapTaking, PtrTaking, FreeTaking, u
<1>7. /\ g \in [Region -> Int] /\ g[alloc_ptr] = u
      /\ \A x \in Region : x < alloc_ptr \/ x >= alloc_ptr + CellBytes => g[x] = heap[x]
  <2>1. heap \in [Region -> Int] /\ alloc_ptr \in Region /\ Region \subseteq Int
    <3>1. alloc_ptr < AllocLimit
      BY <1>3, <1>4, <1>5
    <3>2. alloc_ptr \in Region
      BY <1>4, <3>1 DEF Region
    <3>3. Region \subseteq Int
      BY DEF Region
    <3> QED BY <1>2, <3>2, <3>3 DEF HeapTyped
  <2>2. g \in [Region -> Int] /\ g[alloc_ptr] = u
    BY <1>3, <2>1 DEF CellStore
  <2>3. ASSUME NEW x \in Region, x < alloc_ptr \/ x >= alloc_ptr + CellBytes
        PROVE  g[x] = heap[x]
    <3>1. x # alloc_ptr /\ x \notin alloc_ptr..(alloc_ptr + CellBytes - 1)
      BY <1>4, <2>1, <2>3
    <3> QED BY <3>1 DEF CellStore
  <2> QED BY <2>2, <2>3
<1>8. top = alloc_ptr + CellBytes + u /\ new = alloc_ptr + CellBytes
  OBVIOUS
<1> HIDE DEF g, all
<1>9. Extended(heap, alloc_ptr, g, u)
  BY <1>3, <1>5, <1>7 DEF Extended
<1>10. /\ HeapTyped(g, top) /\ Apart(all \cup {new}, g, top) /\ new \notin all
       /\ \A addr \in all : g[addr - CellBytes] = heap[addr - CellBytes]
       /\ Accounted(all \cup {new}, g, top) /\ Clean(all \cup {new}, g, top)
  <2> HIDE DEF new, top
  <2>1. /\ HeapTyped(g, alloc_ptr + CellBytes + u)
        /\ Apart(all \cup {alloc_ptr + CellBytes}, g, alloc_ptr + CellBytes + u)
        /\ alloc_ptr + CellBytes \notin all
        /\ \A addr \in all : g[addr - CellBytes] = heap[addr - CellBytes]
        /\ Accounted(all, heap, alloc_ptr)
             => Accounted(all \cup {alloc_ptr + CellBytes}, g, alloc_ptr + CellBytes + u)
        /\ Clean(all, heap, alloc_ptr)
             => Clean(all \cup {alloc_ptr + CellBytes}, g, alloc_ptr + CellBytes + u)
    BY <1>2, <1>9, NewBlock
  <2> QED BY <1>2, <1>8, <2>1
<1>11. new \in Int /\ g[new - CellBytes] = u
  <2>1. new - CellBytes = alloc_ptr
    BY <1>4
  <2> QED BY <1>4, <1>7, <2>1
<1> HIDE DEF new, top
<1>12. /\ DOMAIN more = DOMAIN held \cup {new} /\ more[new] = size
       /\ \A a \in DOMAIN held : more[a] = held[a]
       /\ more \in [DOMAIN more -> Nat]
  BY <1>2, <1>3, <1>10 DEF Put, all
<1> HIDE DEF more
<1>13. Sorted(alloc_free, g)
  BY <1>2, <1>10, SortedKept DEF all
<1>14. DOMAIN more \cup Blocks(alloc_free) = all \cup {new}
  BY <1>12 DEF all
<1>15. DOMAIN more \cap Blocks(alloc_free) = {}
  BY <1>2, <1>10, <1>12 DEF all
<1>16. \A a \in DOMAIN more : more[a] <= g[a - CellBytes]
  BY <1>2, <1>3, <1>10, <1>11, <1>12 DEF all
<1>17. Sound(g, top, alloc_free, more)
  BY <1>10, <1>12, <1>13, <1>14, <1>15, <1>16 DEF Sound
<1>18. ASSUME NEW addr \in all, NEW x \in Span(heap, addr) PROVE g[x] = heap[x]
  <2>1. x \in AllocBase..(alloc_ptr - 1) /\ x \in Region
    BY <1>2, PlacedInRegion DEF Apart
  <2>2. x < alloc_ptr
    BY <1>4, <2>1
  <2> QED BY <1>7, <2>1, <2>2
<1>19. all = DOMAIN held \cup FreeBlocks
  BY DEF all, Blocks, FreeBlocks
<1> QED BY <1>6, <1>10, <1>11, <1>17, <1>18, <1>19 DEF more, all

\* Either way ALLOCATE leaves everything sound, and what programs hold as it was.
LEMMA Taking ==
  ASSUME IInv, SizesFit, NEW size \in Size, CanTake(size)
  PROVE  /\ Found(size) \in Int /\ Found(size) \notin DOMAIN held /\ size \in Nat
         /\ Sound(HeapTaking(size), PtrTaking(size), FreeTaking(size),
                  Put(held, Found(size), size))
         /\ \A addr \in DOMAIN held :
              \A x \in Span(heap, addr) : HeapTaking(size)[x] = heap[x]
<1>1. size \in Nat
  BY LayoutAssumption DEF CanTake, Recycled, Bumped
<1>2. CASE Recycled(size)
  BY <1>1, <1>2, Recycling
<1>3. CASE Bumped(size)
  BY <1>1, <1>3, Bumping
<1> QED BY <1>2, <1>3 DEF CanTake

\* A block a program holds is placed in the region.
LEMMA HeldPlaced ==
  ASSUME IInv, NEW addr \in DOMAIN held
  PROVE  /\ Placed(heap, alloc_ptr, addr) /\ HeapTyped(heap, alloc_ptr)
         /\ held[addr] \in Nat /\ held[addr] <= Header(addr)
         /\ addr \in Int /\ Header(addr) \in Nat /\ InRegion(addr)
         /\ Span(heap, addr) \subseteq Region /\ addr - CellBytes \in Span(heap, addr)
<1>1. Placed(heap, alloc_ptr, addr) /\ HeapTyped(heap, alloc_ptr)
  BY DEF IInv, Sound, Apart
<1>2. /\ addr \in Int /\ Header(addr) \in Nat /\ addr >= AllocBase + CellBytes
      /\ addr + Header(addr) <= alloc_ptr
      /\ Span(heap, addr) \subseteq Region /\ addr - CellBytes \in Span(heap, addr)
  BY <1>1, PlacedInRegion DEF Header
<1>3. alloc_ptr \in Int /\ alloc_ptr <= AllocLimit
  BY <1>1 DEF HeapTyped
<1>4. InRegion(addr)
  BY <1>2, <1>3 DEF InRegion
<1>5. held[addr] \in Nat /\ held[addr] <= Header(addr)
  BY DEF IInv, Sound, Header
<1> QED BY <1>1, <1>2, <1>4, <1>5

\* FREE in the code's words is GivenBack.
LEMMA ReturnedIsGivenBack ==
  ASSUME IInv, NEW addr \in DOMAIN held, NEW free
  PROVE  Returned(free, addr) = GivenBack(free, Header(addr), addr)
BY HeldPlaced DEF Returned, GivenBack

\* ALLOCATE
LEMMA AllocateKeeps ==
  ASSUME IInv, SizesFit, NEW size \in Size, Allocate(size)
  PROVE  IInv'
<1>1. CASE CanTake(size)
  <2>1. held' = Put(held, Found(size), size)
    BY <1>1 DEF Allocate, Hold, Put
  <2>2. /\ heap' = HeapTaking(size) /\ alloc_ptr' = PtrTaking(size)
        /\ alloc_free' = FreeTaking(size)
    BY <1>1 DEF Allocate
  <2> QED BY <1>1, <2>1, <2>2, Taking DEF IInv
<1>2. CASE ~ CanTake(size)
  BY <1>2 DEF Allocate, IInv
<1> QED BY <1>1, <1>2

\* FREE
LEMMA FreeKeeps ==
  ASSUME IInv, NEW addr \in DOMAIN held, Free(addr)
  PROVE  IInv'
<1>1. Sound(heap, alloc_ptr, GivenBack(alloc_free, heap[addr - CellBytes], addr),
            Drop(held, addr))
  BY Freeing DEF IInv
<1>2. /\ heap' = heap /\ alloc_ptr' = alloc_ptr /\ held' = Drop(held, addr)
      /\ alloc_free' = GivenBack(alloc_free, heap[addr - CellBytes], addr)
  BY ReturnedIsGivenBack DEF Free, Drop, Header
<1> QED BY <1>1, <1>2 DEF IInv

\* C! into a block.
LEMMA StoreKeeps ==
  ASSUME IInv, NEW addr \in DOMAIN held, NEW k \in 0..(held[addr] - 1), NEW b \in Byte,
         Store(addr, k, b)
  PROVE  IInv'
<1>1. /\ addr \in Int /\ held[addr] \in Nat /\ held[addr] <= heap[addr - CellBytes]
      /\ heap[addr - CellBytes] \in Nat /\ Span(heap, addr) \subseteq Region
      /\ heap \in [Region -> Int]
  BY HeldPlaced DEF HeapTyped, Header
<1>2. addr + k \in Region /\ addr + k \in addr..(addr + held[addr] - 1)
  BY <1>1 DEF Span
<1>3. b \in Int
  BY LayoutAssumption
<1>4. heap' = [heap EXCEPT ![addr + k] = b]
  BY DEF Store
<1>5. /\ heap' \in [Region -> Int] /\ heap'[addr + k] = b
      /\ \A x \in Region : x # addr + k => heap'[x] = heap[x]
  BY <1>1, <1>2, <1>3, <1>4
<1>6. \A x \in Region \ (addr..(addr + held[addr] - 1)) : heap'[x] = heap[x]
  BY <1>2, <1>5
<1>7. \A x \in Region : heap'[x] # heap[x] => heap'[x] \in Byte
  BY <1>2, <1>5
<1>8. Sound(heap', alloc_ptr, alloc_free, held)
  BY <1>5, <1>6, <1>7, Writing DEF IInv
<1> QED BY <1>8 DEF IInv, Store

\* RESIZE in place only raises or lowers what the program may use.
LEMMA InPlaceKeeps ==
  ASSUME IInv, NEW addr \in DOMAIN held, NEW size \in Size, ResizeInPlace(addr, size)
  PROVE  IInv'
<1>1. size \in Nat /\ size <= heap[addr - CellBytes]
  BY LayoutAssumption DEF ResizeInPlace, Roomy, Header
<1>2. /\ DOMAIN held' = DOMAIN held /\ held'[addr] = size
      /\ \A a \in DOMAIN held \ {addr} : held'[a] = held[a]
      /\ held' = [a \in DOMAIN held' |-> held'[a]]
  BY DEF ResizeInPlace, Hold
<1>3. held \in [DOMAIN held -> Nat] /\ \A a \in DOMAIN held : held[a] <= heap[a - CellBytes]
  BY DEF IInv, Sound
<1>4. held' \in [DOMAIN held' -> Nat]
  BY <1>1, <1>2, <1>3
<1>5. \A a \in DOMAIN held' : held'[a] <= heap[a - CellBytes]
  BY <1>1, <1>2, <1>3
<1>6. heap' = heap /\ alloc_ptr' = alloc_ptr /\ alloc_free' = alloc_free
  BY DEF ResizeInPlace
<1> QED BY <1>2, <1>4, <1>5, <1>6 DEF IInv, Sound

\* RESIZE elsewhere, step by step: the heap after ALLOCATE, the copy into the
\* new block, and FREE of the old one.
LEMMA ElsewhereSteps ==
  ASSUME IInv, SizesFit, NEW addr \in DOMAIN held, NEW size \in Size,
         ResizeElsewhere(addr, size)
  PROVE  LET h == HeapTaking(size)
             into == Found(size)
             n == Smaller(Header(addr), size)
         IN  /\ CanTake(size) /\ into \in Int /\ into # addr /\ size \in Nat
             /\ n \in Nat /\ n <= size /\ n <= Header(addr)
             /\ heap' \in [Region -> Int]
             /\ \A x \in Region : x \notin into..(into + n - 1) => heap'[x] = h[x]
             /\ \A x \in into..(into + n - 1) :
                  x \in Region /\ heap'[x] = h[addr + (x - into)] /\ heap'[x] \in Byte
             /\ Sound(heap', PtrTaking(size), FreeTaking(size), Put(held, into, size))
             /\ heap'[addr - CellBytes] = Header(addr)
<1> DEFINE h == HeapTaking(size)
           into == Found(size)
           n == Smaller(Header(addr), size)
           H == Put(held, into, size)
           copied == into..(into + n - 1)
<1>1. /\ CanTake(size)
      /\ heap' = [a \in Region |-> IF a \in copied THEN h[addr + (a - into)] ELSE h[a]]
  BY DEF ResizeElsewhere
<1>2. /\ into \in Int /\ into \notin DOMAIN held /\ size \in Nat
      /\ Sound(h, PtrTaking(size), FreeTaking(size), H)
      /\ \A x \in Span(heap, addr) : h[x] = heap[x]
  BY <1>1, Taking
<1>3. /\ addr \in Int /\ Header(addr) \in Nat /\ addr - CellBytes \in Span(heap, addr)
      /\ Header(addr) = heap[addr - CellBytes] /\ h[addr - CellBytes] = Header(addr)
  BY <1>2, HeldPlaced DEF Header
<1>4. n \in Nat /\ n <= size /\ n <= Header(addr)
  BY <1>2, <1>3 DEF Smaller
<1>5. into \in DOMAIN H /\ addr \in DOMAIN H /\ H[into] = size /\ into # addr
  BY <1>2 DEF Put
<1> HIDE DEF h, into, n, H
<1>6. h \in [Region -> Int]
  BY <1>2 DEF Sound, HeapTyped
<1>7. ASSUME NEW a \in DOMAIN H
      PROVE  /\ a \in Int /\ h[a - CellBytes] \in Nat /\ Span(h, a) \subseteq Region
             /\ H[a] \in Nat /\ H[a] <= h[a - CellBytes]
             /\ \A x \in a..(a + h[a - CellBytes] - 1) : h[x] \in Byte
  <2>1. Placed(h, PtrTaking(size), a) /\ HeapTyped(h, PtrTaking(size))
    BY <1>2 DEF Sound, Apart
  <2>2. a \in Int /\ h[a - CellBytes] \in Nat /\ Span(h, a) \subseteq Region
    BY <2>1, PlacedInRegion
  <2> QED BY <1>2, <2>2 DEF Sound, Clean
<1>8. ASSUME NEW x \in copied
      PROVE  x \in Region /\ heap'[x] = h[addr + (x - into)] /\ heap'[x] \in Byte
  <2>1. x \in Int /\ x >= into /\ x < into + n
    BY <1>2, <1>4
  <2>2. x \in Span(h, into)
    BY <1>2, <1>4, <1>5, <1>7, <2>1 DEF Span
  <2>3. x \in Region
    BY <1>5, <1>7, <2>2
  <2>4. addr + (x - into) \in addr..(addr + h[addr - CellBytes] - 1)
    BY <1>2, <1>3, <1>4, <2>1
  <2>5. h[addr + (x - into)] \in Byte
    BY <1>5, <1>7, <2>4
  <2> QED BY <1>1, <2>3, <2>5
<1>9. \A x \in Region : x \notin copied => heap'[x] = h[x]
  BY <1>1
<1>10. heap' \in [Region -> Int]
  <2>1. \A x \in Region : heap'[x] \in Int
    <3> TAKE x \in Region
    <3>1. CASE x \in copied
      BY <1>8, <3>1, LayoutAssumption
    <3>2. CASE x \notin copied
      BY <1>6, <1>9, <3>2
    <3> QED BY <3>1, <3>2
  <2>2. heap' = [x \in Region |-> heap'[x]]
    BY <1>1
  <2> QED BY <2>1, <2>2
<1>11. copied \subseteq into..(into + H[into] - 1)
  BY <1>2, <1>4, <1>5
<1>12. \A x \in Region \ (into..(into + H[into] - 1)) : heap'[x] = h[x]
  BY <1>9, <1>11
<1>13. \A x \in Region : heap'[x] # h[x] => heap'[x] \in Byte
  BY <1>8, <1>9
<1> HIDE DEF copied
<1>14. /\ Sound(heap', PtrTaking(size), FreeTaking(size), H)
       /\ \A a \in DOMAIN H : heap'[a - CellBytes] = h[a - CellBytes]
  BY <1>2, <1>5, <1>10, <1>12, <1>13, Writing
<1>15. heap'[addr - CellBytes] = Header(addr)
  BY <1>3, <1>5, <1>14
<1> QED BY <1>1, <1>2, <1>4, <1>5, <1>8, <1>9, <1>10, <1>14, <1>15 DEF h, into, n, H, copied

\* RESIZE elsewhere
LEMMA ElsewhereKeeps ==
  ASSUME IInv, SizesFit, NEW addr \in DOMAIN held, NEW size \in Size,
         ResizeElsewhere(addr, size)
  PROVE  IInv'
<1> DEFINE H == Put(held, Found(size), size)
<1>1. /\ Sound(heap', PtrTaking(size), FreeTaking(size), H)
      /\ heap'[addr - CellBytes] = Header(addr) /\ Found(size) # addr
  BY ElsewhereSteps
<1>2. addr \in DOMAIN H
  BY DEF Put
<1>3. held' = Drop(H, addr)
  <2>1. held' = [a \in (DOMAIN held \ {addr}) \cup {Found(size)} |->
                   IF a = Found(size) THEN size ELSE held[a]]
    BY DEF ResizeElsewhere, Hold
  <2>2. DOMAIN H \ {addr} = (DOMAIN held \ {addr}) \cup {Found(size)}
    BY <1>1 DEF Put
  <2> QED BY <2>1, <2>2 DEF Drop, Put
<1>4. alloc_ptr' = PtrTaking(size) /\ alloc_free' = Returned(FreeTaking(size), addr)
  BY DEF ResizeElsewhere
<1> HIDE DEF H
<1>5. alloc_free' = GivenBack(FreeTaking(size), heap'[addr - CellBytes], addr)
  BY <1>1, <1>4, ReturnedIsGivenBack
<1>6. Sound(heap', PtrTaking(size),
            GivenBack(FreeTaking(size), heap'[addr - CellBytes], addr), Drop(H, addr))
  BY <1>1, <1>2, Freeing
<1> QED BY <1>3, <1>4, <1>5, <1>6 DEF IInv

\* RESIZE
LEMMA ResizeKeeps ==
  ASSUME IInv, SizesFit, NEW addr \in DOMAIN held, NEW size \in Size, Resize(addr, size)
  PROVE  IInv'
<1>1. CASE ResizeInPlace(addr, size)
  BY <1>1, InPlaceKeeps
<1>2. CASE ResizeElsewhere(addr, size)
  BY <1>2, ElsewhereKeeps
<1>3. CASE ResizeFails(addr, size)
  BY <1>3 DEF ResizeFails, IInv
<1> QED BY <1>1, <1>2, <1>3 DEF Resize

\* The invariant holds at first: no block, nothing below the bump pointer.
LEMMA InitSound == Init => IInv
<1> SUFFICES ASSUME Init PROVE IInv
  OBVIOUS
<1>1. /\ heap = [a \in Region |-> 0] /\ alloc_ptr = AllocBase
      /\ DOMAIN alloc_free = {} /\ DOMAIN held = {}
      /\ held = [a \in {} |-> 0]
  BY DEF Init
<1>2. Blocks(alloc_free) = {}
  BY <1>1 DEF Blocks
<1>3. HeapTyped(heap, alloc_ptr)
  BY <1>1, LayoutAssumption DEF HeapTyped
<1>4. Accounted({}, heap, alloc_ptr)
  BY <1>1 DEF Accounted
<1>5. held \in [DOMAIN held -> Nat]
  BY <1>1
<1>6. Sorted(alloc_free, heap) /\ Apart({}, heap, alloc_ptr) /\ Clean({}, heap, alloc_ptr)
  BY <1>1 DEF Sorted, Apart, Clean
<1>7. DOMAIN held \cup Blocks(alloc_free) = {}
  BY <1>1, <1>2
<1> QED BY <1>1, <1>2, <1>3, <1>4, <1>5, <1>6, <1>7 DEF IInv, Sound

\* Every step keeps it.
LEMMA NextSound == SizesFit /\ IInv /\ [Next]_vars => IInv'
<1> SUFFICES ASSUME SizesFit, IInv, [Next]_vars PROVE IInv'
  OBVIOUS
<1>1. CASE \E size \in Size : Allocate(size)
  BY <1>1, AllocateKeeps
<1>2. CASE \E addr \in DOMAIN held : Free(addr)
  BY <1>2, FreeKeeps
<1>3. CASE \E addr \in DOMAIN held, size \in Size : Resize(addr, size)
  BY <1>3, ResizeKeeps
<1>4. CASE \E addr \in DOMAIN held : \E k \in 0..(held[addr] - 1), b \in Byte : Store(addr, k, b)
  BY <1>4, StoreKeeps
<1>5. CASE UNCHANGED vars
  BY <1>5 DEF vars, IInv
<1> QED BY <1>1, <1>2, <1>3, <1>4, <1>5 DEF Next

\* Unless a request wraps the bump pointer, all of it holds throughout.
LEMMA Soundness == ASSUME SizesFit PROVE Spec => []IInv
<1>1. Init => IInv
  BY InitSound
<1>2. IInv /\ [Next]_vars => IInv'
  BY NextSound
<1> QED BY <1>1, <1>2, PTL DEF Spec

-----------------------------------------------------------------------------
\* Pointer and blocks stay in the region, on cell boundaries: prim_ALLOCATE and
\* prim_FREE never leave a block outside it.
THEOREM RegionTyped == ASSUME SizesFit PROVE Spec => []TypeOK
<1>1. IInv => TypeOK
  <2> SUFFICES ASSUME IInv PROVE TypeOK
    OBVIOUS
  <2>1. HeapTyped(heap, alloc_ptr) /\ Apart(DOMAIN held \cup Blocks(alloc_free), heap, alloc_ptr)
    BY DEF IInv, Sound
  <2>2. Blocks(alloc_free) = FreeBlocks
    BY DEF Blocks, FreeBlocks
  <2> QED BY <2>1, <2>2 DEF TypeOK, HeapTyped, Apart, Placed
<1> QED BY <1>1, Soundness, PTL

\* ALLOCATE, FREE and RESIZE keep every block apart from every other, held or
\* free, with its header intact; nothing is free twice.
THEOREM BlocksStayApart == ASSUME SizesFit PROVE Spec => []BlocksSound
<1>1. IInv => BlocksSound
  <2> SUFFICES ASSUME IInv PROVE BlocksSound
    OBVIOUS
  <2>1. /\ Apart(DOMAIN held \cup FreeBlocks, heap, alloc_ptr) /\ Sorted(alloc_free, heap)
        /\ DOMAIN held \cap FreeBlocks = {}
        /\ \A addr \in DOMAIN held : held[addr] <= heap[addr - CellBytes]
    BY DEF IInv, Sound, Blocks, FreeBlocks
  <2>2. \A addr \in DOMAIN held \cup FreeBlocks : addr + Header(addr) <= alloc_ptr
    BY <2>1 DEF Apart, Placed, Header
  <2>3. \A a, b \in DOMAIN held \cup FreeBlocks : a < b => a + Header(a) <= b - CellBytes
    BY <2>1 DEF Apart, Header
  <2>4. \A n \in DOMAIN alloc_free :
          /\ IsInjective(alloc_free[n])
          /\ \A addr \in ToSet(alloc_free[n]) : Header(addr) = n
    BY <2>1 DEF Sorted, Header
  <2> QED BY <2>1, <2>2, <2>3, <2>4 DEF BlocksSound, Header
<1> QED BY <1>1, Soundness, PTL

\* FREE loses nothing: below the bump pointer an address belongs to a block held,
\* a block in a free list, or the header of an empty block.
THEOREM NothingIsLost == ASSUME SizesFit PROVE Spec => []RegionAccounted
<1>1. IInv => RegionAccounted
  <2> SUFFICES ASSUME IInv PROVE RegionAccounted
    OBVIOUS
  <2> DEFINE all == DOMAIN held \cup FreeBlocks
             used == UNION {(addr - CellBytes)..(addr + Header(addr) - 1) : addr \in all}
  <2>1. /\ Apart(all, heap, alloc_ptr) /\ Accounted(all, heap, alloc_ptr)
        /\ HeapTyped(heap, alloc_ptr)
    BY DEF IInv, Sound, Blocks, FreeBlocks
  <2>2. \A x : x \in used <=> \E addr \in all : x \in Span(heap, addr)
    BY DEF Span, Header
  <2> HIDE DEF all, used
  <2>3. used \subseteq AllocBase..(alloc_ptr - 1)
    BY <2>1, <2>2, PlacedInRegion DEF Apart
  <2>4. \A x \in (AllocBase..(alloc_ptr - 1)) \ used : heap[x - (x % CellBytes)] = 0
    BY <2>1, <2>2 DEF Accounted
  <2> QED BY <2>3, <2>4 DEF RegionAccounted, all, used
<1> QED BY <1>1, Soundness, PTL

-----------------------------------------------------------------------------
\* The allocator a program sees.

Shown == [a \in DOMAIN held |-> [k \in 0..(held[a] - 1) |-> heap[a + k]]]

\* Held blocks lie inside the region and share no byte.
LEMMA Standing ==
  ASSUME NEW h, NEW ptr, NEW free, NEW H, Sound(h, ptr, free, H), NEW a \in DOMAIN H
  PROVE  /\ a \in AllocBase..AllocLimit /\ a > AllocBase /\ a + H[a] <= AllocLimit
         /\ H[a] \in Nat
         /\ \A x \in a..(a + H[a] - 1) : x \in Region /\ x \in Span(h, a) /\ h[x] \in Byte
         /\ \A b \in DOMAIN H \ {a} : (a..(a + H[a] - 1)) \cap (b..(b + H[b] - 1)) = {}
<1>1. ASSUME NEW b \in DOMAIN H
      PROVE  /\ b \in Int /\ h[b - CellBytes] \in Nat /\ b >= AllocBase + CellBytes
             /\ b + h[b - CellBytes] <= ptr /\ Span(h, b) \subseteq Region
             /\ H[b] \in Nat /\ H[b] <= h[b - CellBytes]
  <2>1. Placed(h, ptr, b) /\ HeapTyped(h, ptr)
    BY DEF Sound, Apart
  <2> QED BY <2>1, PlacedInRegion DEF Sound
<1>2. ptr \in Int /\ ptr <= AllocLimit
  BY DEF Sound, HeapTyped
<1>3. /\ a \in AllocBase..AllocLimit /\ a > AllocBase /\ a + H[a] <= AllocLimit
  BY <1>1, <1>2
<1>4. ASSUME NEW x \in a..(a + H[a] - 1)
      PROVE  x \in Region /\ x \in Span(h, a) /\ h[x] \in Byte
  <2>1. a \in Int /\ H[a] \in Nat /\ h[a - CellBytes] \in Nat /\ H[a] <= h[a - CellBytes]
    BY <1>1
  <2>2. x \in a..(a + h[a - CellBytes] - 1) /\ x \in Span(h, a)
    BY <2>1 DEF Span
  <2>3. h[x] \in Byte
    BY <2>2 DEF Sound, Clean
  <2> QED BY <1>1, <2>2, <2>3
<1>5. ASSUME NEW b \in DOMAIN H \ {a}
      PROVE  (a..(a + H[a] - 1)) \cap (b..(b + H[b] - 1)) = {}
  <2>1. /\ a \in Int /\ H[a] \in Nat /\ h[a - CellBytes] \in Nat /\ H[a] <= h[a - CellBytes]
        /\ b \in Int /\ H[b] \in Nat /\ h[b - CellBytes] \in Nat /\ H[b] <= h[b - CellBytes]
    BY <1>1
  <2>2. /\ a < b => a + h[a - CellBytes] <= b - CellBytes
        /\ b < a => b + h[b - CellBytes] <= a - CellBytes
    BY DEF Sound, Apart
  <2>3. a < b \/ b < a
    BY <2>1
  <2> QED BY <2>1, <2>2, <2>3
<1> QED BY <1>1, <1>3, <1>4, <1>5

\* A block of n bytes has n bytes.
LEMMA LengthOf ==
  ASSUME NEW n \in Nat, NEW f, DOMAIN f = 0..(n - 1)
  PROVE  A!Length(f) = n
<1>1. Cardinality(0..(n - 1)) = IF 0 > n - 1 THEN 0 ELSE (n - 1) - 0 + 1
  BY FS_Interval
<1>2. Cardinality(0..(n - 1)) = n
  BY <1>1
<1>3. Cardinality(DOMAIN f) = n
  BY <1>2
<1>4. A!Cardinality(DOMAIN f) = Cardinality(DOMAIN f)
  BY DEF A!Cardinality, Cardinality
<1> QED BY <1>3, <1>4 DEF A!Length

\* What the allocator is shown of a block the program holds.
LEMMA ShownAt ==
  ASSUME IInv, NEW a \in DOMAIN held
  PROVE  /\ a \in DOMAIN Shown /\ DOMAIN Shown[a] = 0..(held[a] - 1)
         /\ A!Length(Shown[a]) = held[a]
         /\ \A k \in 0..(held[a] - 1) : Shown[a][k] = heap[a + k]
<1>1. held[a] \in Nat
  BY DEF IInv, Sound
<1>2. /\ a \in DOMAIN Shown /\ DOMAIN Shown[a] = 0..(held[a] - 1)
      /\ \A k \in 0..(held[a] - 1) : Shown[a][k] = heap[a + k]
  BY DEF Shown
<1> QED BY <1>1, <1>2, LengthOf

\* The other blocks a step leaves as they were.
Kept(others) ==
  /\ others \subseteq DOMAIN held
  /\ \A b \in others : /\ held'[b] = held[b]
                       /\ \A k \in 0..(held[b] - 1) : heap'[b + k] = heap[b + k]

\* A block of n bytes at f stands next to the blocks O.
Joins(O, f, new, n) ==
  /\ f \in AllocBase..AllocLimit /\ new \in [0..(n - 1) -> Byte]
  /\ A!Fits(f, n, O)
  /\ Shown' = [b \in DOMAIN O \cup {f} |-> IF b = f THEN new ELSE O[b]]

\* A step after which one block may be new, or have another size, and the
\* others are as they were: what Allocator asks of it.
LEMMA OneShown ==
  ASSUME IInv, IInv', NEW others, NEW f, NEW size, Kept(others), f \notin others,
         DOMAIN held' = others \cup {f}, held'[f] = size
  PROVE  Joins([b \in others |-> Shown[b]], f, Shown'[f], size)
<1> DEFINE O == [b \in others |-> Shown[b]]
           new == Shown'[f]
           n == held'[f]
<1>1. f \in DOMAIN held' /\ others \subseteq DOMAIN held
  BY DEF Kept
<1>2. /\ f \in AllocBase..AllocLimit /\ f > AllocBase /\ f + n <= AllocLimit /\ n \in Nat
      /\ \A x \in f..(f + n - 1) : heap'[x] \in Byte
      /\ \A b \in DOMAIN held' \ {f} : (f..(f + n - 1)) \cap (b..(b + held'[b] - 1)) = {}
  BY <1>1, Standing DEF IInv
<1>3. new = [k \in 0..(n - 1) |-> heap'[f + k]]
  BY <1>1 DEF Shown
<1>4. new \in [0..(n - 1) -> Byte]
  <2>1. f \in Int
    BY <1>2
  <2>2. \A k \in 0..(n - 1) : f + k \in f..(f + n - 1)
    BY <2>1, <1>2
  <2> HIDE DEF n
  <2> QED BY <1>2, <1>3, <2>2
<1>5. ASSUME NEW b \in others
      PROVE  /\ O[b] = Shown[b] /\ A!Length(O[b]) = held'[b]
             /\ Shown'[b] = Shown[b]
  <2>1. b \in DOMAIN held /\ b \in DOMAIN held'
    BY <1>1
  <2>2. O[b] = Shown[b]
    OBVIOUS
  <2>3. A!Length(Shown[b]) = held[b]
    BY <2>1, ShownAt
  <2>4. Shown'[b] = Shown[b]
    BY <2>1 DEF Shown, Kept
  <2>5. held'[b] = held[b]
    BY DEF Kept
  <2> QED BY <2>2, <2>3, <2>4, <2>5
<1>6. A!Fits(f, n, O)
  <2>1. DOMAIN O = others
    OBVIOUS
  <2>2. \A b \in others : (f..(f + n - 1)) \cap (b..(b + A!Length(O[b]) - 1)) = {}
    BY <1>2, <1>5
  <2> HIDE DEF O, n
  <2> QED BY <1>2, <2>1, <2>2 DEF A!Fits
<1>7. Shown' = [b \in others \cup {f} |-> IF b = f THEN new ELSE O[b]]
  <2>1. Shown' = [b \in others \cup {f} |-> Shown'[b]]
    BY DEF Shown
  <2>2. \A b \in others \cup {f} : Shown'[b] = IF b = f THEN new ELSE O[b]
    BY <1>5
  <2> HIDE DEF O, new
  <2> QED BY <2>1, <2>2
<1> QED BY <1>2, <1>4, <1>6, <1>7 DEF Joins

\* At first there are no blocks.
LEMMA InitShown == Init => A!Init
<1> SUFFICES ASSUME Init PROVE A!Init
  OBVIOUS
<1>1. held = << >> /\ reply = <<0, 0>>
  BY DEF Init
<1>2. DOMAIN held = {}
  BY <1>1
<1> QED BY <1>1, <1>2 DEF A!Init

\* ALLOCATE: a block that fits, or none.
LEMMA AllocateShown ==
  ASSUME IInv, IInv', SizesFit, NEW size \in Size, Allocate(size)
  PROVE  A!Allocate(size)
<1>1. CASE CanTake(size)
  <2> DEFINE f == Found(size)
  <2>1. /\ f \notin DOMAIN held
        /\ \A a \in DOMAIN held : \A x \in Span(heap, a) : HeapTaking(size)[x] = heap[x]
    BY <1>1, Taking
  <2>2. /\ heap' = HeapTaking(size) /\ reply' = <<f, 0>> /\ held' = Put(held, f, size)
    BY <1>1 DEF Allocate, Hold, Put
  <2> HIDE DEF f
  <2>3. /\ f \in DOMAIN held' /\ DOMAIN held' = DOMAIN held \cup {f} /\ held'[f] = size
        /\ \A b \in DOMAIN held : held'[b] = held[b]
    BY <2>1, <2>2 DEF Put
  <2>4. ASSUME NEW b \in DOMAIN held, NEW k \in 0..(held[b] - 1) PROVE heap'[b + k] = heap[b + k]
    <3>1. b \in Int /\ held[b] \in Nat
      BY HeldPlaced
    <3>2. b + k \in b..(b + held[b] - 1)
      BY <3>1
    <3>3. b + k \in Span(heap, b)
      BY <3>2, Standing DEF IInv
    <3> QED BY <2>1, <2>2, <3>3
  <2>5. Shown = [b \in DOMAIN held |-> Shown[b]]
    BY DEF Shown
  <2>6. Kept(DOMAIN held)
    BY <2>3, <2>4 DEF Kept
  <2>7. Joins([b \in DOMAIN held |-> Shown[b]], f, Shown'[f], size)
    BY <2>1, <2>3, <2>6, OneShown
  <2>8. Joins(Shown, f, Shown'[f], size)
    BY <2>5, <2>7
  <2>9. A!Holding(f, Shown'[f], Shown)
    BY <2>2, <2>8 DEF A!Holding, Joins, Shown
  <2>10. \E a \in AllocBase..AllocLimit, new \in [0..(size - 1) -> Byte] :
            A!Fits(a, size, Shown) /\ A!Holding(a, new, Shown)
    <3>1. /\ f \in AllocBase..AllocLimit /\ Shown'[f] \in [0..(size - 1) -> Byte]
          /\ A!Fits(f, size, Shown)
      BY <2>8 DEF Joins
    <3> QED BY <2>9, <3>1 DEF A!Fits, A!Holding
  <2> QED BY <2>10 DEF A!Allocate, Shown
<1>2. CASE ~ CanTake(size)
  BY <1>2 DEF Allocate, A!Allocate, A!Fail
<1> QED BY <1>1, <1>2

\* FREE: the block is gone.
LEMMA FreeShown ==
  ASSUME IInv, NEW addr \in DOMAIN held, Free(addr)
  PROVE  A!Free(addr)
<1>1. heap' = heap /\ held' = Drop(held, addr) /\ reply' = <<0, 0>>
  BY DEF Free, Drop
<1>2. Shown' = [b \in DOMAIN Shown \ {addr} |-> Shown[b]]
  BY <1>1 DEF Shown, Drop
<1> QED BY <1>1, <1>2 DEF A!Free, A!Without, Shown

\* C! stores one byte of one block.
LEMMA StoreShown ==
  ASSUME IInv, NEW addr \in DOMAIN held, NEW k \in 0..(held[addr] - 1), NEW b \in Byte,
         Store(addr, k, b)
  PROVE  A!Store(addr, k, b)
<1>1. heap' = [heap EXCEPT ![addr + k] = b] /\ held' = held /\ reply' = reply
  BY DEF Store
<1>2. ASSUME NEW a \in DOMAIN held, NEW j \in 0..(held[a] - 1)
      PROVE  heap'[a + j] = IF a = addr /\ j = k THEN b ELSE heap[a + j]
  <2>1. /\ a \in Int /\ held[a] \in Nat /\ addr \in Int /\ held[addr] \in Nat
        /\ heap \in [Region -> Int]
    BY HeldPlaced DEF HeapTyped
  <2>2. a + j \in a..(a + held[a] - 1) /\ addr + k \in addr..(addr + held[addr] - 1)
    BY <2>1
  <2>3. a + j \in Region /\ addr + k \in Region
    BY <2>2, Standing DEF IInv
  <2>4. a + j = addr + k => a = addr /\ j = k
    <3>1. CASE a = addr
      BY <2>1, <3>1
    <3>2. CASE a # addr
      <4>1. (a..(a + held[a] - 1)) \cap (addr..(addr + held[addr] - 1)) = {}
        BY <3>2, Standing DEF IInv
      <4> QED BY <2>2, <4>1
    <3> QED BY <3>1, <3>2
  <2> QED BY <1>1, <2>1, <2>3, <2>4
<1>3. Shown' = [a \in DOMAIN held |-> [j \in 0..(held[a] - 1) |-> heap'[a + j]]]
  BY <1>1 DEF Shown
<1>4. \A a \in DOMAIN held :
        [j \in 0..(held[a] - 1) |-> heap'[a + j]] =
          IF a = addr THEN [Shown[a] EXCEPT ![k] = b] ELSE Shown[a]
  <2> TAKE a \in DOMAIN held
  <2>1. Shown[a] = [j \in 0..(held[a] - 1) |-> heap[a + j]]
    BY DEF Shown
  <2>2. CASE a = addr
    <3>1. \A j \in 0..(held[a] - 1) : heap'[a + j] = IF j = k THEN b ELSE heap[a + j]
      BY <1>2, <2>2
    <3>2. \A j \in 0..(held[a] - 1) :
            [Shown[a] EXCEPT ![k] = b][j] = IF j = k THEN b ELSE heap[a + j]
      BY <2>1
    <3>3. [Shown[a] EXCEPT ![k] = b]
            = [j \in 0..(held[a] - 1) |-> [Shown[a] EXCEPT ![k] = b][j]]
      BY <2>1
    <3>4. [Shown[a] EXCEPT ![k] = b] = [j \in 0..(held[a] - 1) |-> heap'[a + j]]
      BY <3>1, <3>2, <3>3
    <3> QED BY <2>2, <3>4
  <2>3. CASE a # addr
    <3>1. \A j \in 0..(held[a] - 1) : heap'[a + j] = heap[a + j]
      BY <1>2, <2>3
    <3> QED BY <2>1, <2>3, <3>1
  <2> QED BY <2>2, <2>3
<1>5. Shown' = [Shown EXCEPT ![addr] = [Shown[addr] EXCEPT ![k] = b]]
  <2>1. Shown = [a \in DOMAIN held |-> Shown[a]]
    BY DEF Shown
  <2> QED BY <1>3, <1>4, <2>1
<1> QED BY <1>1, <1>5 DEF A!Store, Shown

\* RESIZE keeps the contents as far as both sizes reach.
LEMMA ResizeShown ==
  ASSUME IInv, IInv', SizesFit, NEW addr \in DOMAIN held, NEW size \in Size, Resize(addr, size)
  PROVE  A!Resize(addr, size)
<1> DEFINE others == DOMAIN held \ {addr}
           O == [b \in others |-> Shown[b]]
<1>1. A!Without(addr) = O /\ DOMAIN O = others
  BY DEF A!Without, Shown
<1>2. ASSUME NEW f, NEW new, Joins(O, f, new, size), A!Agree(new, Shown[addr]), reply' = <<f, 0>>
      PROVE  A!Resize(addr, size)
  <2> HIDE DEF O
  <2>1. A!Holding(f, new, O)
    BY <1>2 DEF A!Holding, Joins, Shown
  <2>2. \E c \in AllocBase..AllocLimit, bytes \in [0..(size - 1) -> Byte] :
          /\ A!Fits(c, size, A!Without(addr)) /\ A!Agree(bytes, Shown[addr])
          /\ A!Holding(c, bytes, A!Without(addr))
    <3>1. /\ f \in AllocBase..AllocLimit /\ new \in [0..(size - 1) -> Byte]
          /\ A!Fits(f, size, O)
      BY <1>2 DEF Joins
    <3>2. A!Without(addr) = O
      BY <1>1
    <3>3. A!Fits(f, size, A!Without(addr)) /\ A!Holding(f, new, A!Without(addr))
      BY <2>1, <3>1, <3>2 DEF A!Fits, A!Holding
    <3> QED BY <1>2, <3>1, <3>3 DEF A!Fits, A!Holding, A!Agree
  <2> QED BY <2>2 DEF A!Resize, Shown
<1>3. /\ addr \in DOMAIN Shown /\ DOMAIN Shown[addr] = 0..(held[addr] - 1)
      /\ held[addr] \in Nat /\ addr \in Int /\ held[addr] <= Header(addr) /\ Header(addr) \in Nat
      /\ \A k \in 0..(held[addr] - 1) : Shown[addr][k] = heap[addr + k]
  BY ShownAt, HeldPlaced
<1>4. CASE ResizeInPlace(addr, size)
  <2>1. /\ heap' = heap /\ reply' = <<addr, 0>> /\ DOMAIN held' = others \cup {addr}
        /\ held'[addr] = size /\ \A b \in others : held'[b] = held[b]
    BY <1>4 DEF ResizeInPlace, Hold
  <2> DEFINE new == Shown'[addr]
  <2>2. Joins(O, addr, new, size)
    <3>1. Kept(others)
      BY <2>1 DEF Kept
    <3> QED BY <2>1, <3>1, OneShown
  <2>3. A!Agree(new, Shown[addr])
    <3>1. new = [k \in 0..(size - 1) |-> heap[addr + k]]
      BY <2>1 DEF Shown
    <3> HIDE DEF new
    <3> QED BY <1>3, <3>1 DEF A!Agree
  <2> HIDE DEF O, new
  <2> QED BY <1>2, <2>1, <2>2, <2>3
<1>5. CASE ResizeElsewhere(addr, size)
  <2> DEFINE f == Found(size)
             h == HeapTaking(size)
             n == Smaller(Header(addr), size)
             new == Shown'[f]
  <2>1. /\ CanTake(size) /\ f \in Int /\ f # addr /\ size \in Nat
        /\ n \in Nat /\ n <= size /\ n <= Header(addr)
        /\ \A x \in Region : x \notin f..(f + n - 1) => heap'[x] = h[x]
        /\ \A x \in f..(f + n - 1) : heap'[x] = h[addr + (x - f)]
        /\ Sound(heap', PtrTaking(size), FreeTaking(size), Put(held, f, size))
    BY <1>5, ElsewhereSteps
  <2>2. f \notin DOMAIN held /\ \A a \in DOMAIN held : \A x \in Span(heap, a) : h[x] = heap[x]
    BY <2>1, Taking
  <2>3. /\ reply' = <<f, 0>> /\ DOMAIN held' = others \cup {f} /\ held'[f] = size
        /\ \A b \in others : held'[b] = held[b]
    BY <1>5, <2>2 DEF ResizeElsewhere, Hold
  <2>4. n = Smaller(Header(addr), size)
    OBVIOUS
  <2> HIDE DEF f, h, n
  <2>5. ASSUME NEW b \in others, NEW k \in 0..(held[b] - 1) PROVE heap'[b + k] = heap[b + k]
    <3>1. b \in DOMAIN held /\ b # f /\ b \in Int /\ held[b] \in Nat
      BY <2>2, HeldPlaced
    <3>2. b + k \in b..(b + held[b] - 1)
      BY <3>1
    <3>3. b + k \in Span(heap, b) /\ b + k \in Region
      BY <3>1, <3>2, Standing DEF IInv
    <3>4. b + k \notin f..(f + size - 1)
      <4> DEFINE H == Put(held, f, size)
      <4>1. f \in DOMAIN H /\ b \in DOMAIN H \ {f} /\ H[f] = size /\ H[b] = held[b]
        BY <3>1, <2>2 DEF Put
      <4> HIDE DEF H
      <4>2. Sound(heap', PtrTaking(size), FreeTaking(size), H)
        BY <2>1 DEF H
      <4>3. (f..(f + H[f] - 1)) \cap (b..(b + H[b] - 1)) = {}
        BY <4>1, <4>2, Standing
      <4> QED BY <3>2, <4>1, <4>3
    <3>5. f..(f + n - 1) \subseteq f..(f + size - 1)
      BY <2>1
    <3>6. b + k \notin f..(f + n - 1)
      BY <3>4, <3>5
    <3> QED BY <2>1, <2>2, <3>1, <3>3, <3>6
  <2>6. Joins(O, f, new, size)
    <3>1. Kept(others)
      BY <2>3, <2>5 DEF Kept
    <3>2. f \notin others
      BY <2>2
    <3> QED BY <2>3, <3>1, <3>2, OneShown
  <2>7. A!Agree(new, Shown[addr])
    <3>1. new = [k \in 0..(size - 1) |-> heap'[f + k]]
      BY <2>3 DEF Shown
    <3> HIDE DEF new
    <3>2. ASSUME NEW k \in 0..(size - 1), k \in 0..(held[addr] - 1)
          PROVE  new[k] = Shown[addr][k]
      <4>1. k \in Nat /\ k < n
        BY <1>3, <2>1, <2>4, <3>2 DEF Smaller
      <4>2. f + k \in f..(f + n - 1) /\ addr + ((f + k) - f) = addr + k
        BY <1>3, <2>1, <4>1
      <4>3. heap'[f + k] = h[addr + k]
        BY <2>1, <4>2
      <4>4. addr + k \in addr..(addr + held[addr] - 1)
        BY <1>3, <3>2
      <4>5. addr + k \in Span(heap, addr)
        BY <4>4, Standing DEF IInv
      <4> QED BY <1>3, <2>2, <3>1, <3>2, <4>3, <4>5
    <3> QED BY <1>3, <3>1, <3>2 DEF A!Agree
  <2> HIDE DEF O, new
  <2> QED BY <1>2, <2>3, <2>6, <2>7
<1>6. CASE ResizeFails(addr, size)
  BY <1>6 DEF ResizeFails, A!Resize, A!Fail
<1> QED BY <1>4, <1>5, <1>6 DEF Resize

\* Every step is a step of Allocator, or changes nothing it shows.
LEMMA NextShown == ASSUME SizesFit, IInv, IInv', [Next]_vars PROVE [A!Next]_(A!vars)
<1>1. CASE \E size \in Size : Allocate(size)
  BY <1>1, AllocateShown DEF A!Next
<1>2. ASSUME NEW addr \in DOMAIN held, Free(addr) PROVE A!Next
  BY <1>2, FreeShown DEF A!Next, Shown
<1>3. ASSUME NEW addr \in DOMAIN held, NEW size \in Size, Resize(addr, size) PROVE A!Next
  BY <1>3, ResizeShown DEF A!Next, Shown
<1>4. ASSUME NEW addr \in DOMAIN held, NEW k \in 0..(held[addr] - 1), NEW b \in Byte,
             Store(addr, k, b)
      PROVE  A!Next
  <2>1. A!Store(addr, k, b) /\ addr \in DOMAIN Shown /\ k \in DOMAIN Shown[addr]
    BY <1>4, StoreShown, ShownAt
  <2> QED BY <2>1 DEF A!Next, Shown
<1>5. CASE UNCHANGED vars
  BY <1>5 DEF vars, A!vars
<1> QED BY <1>1, <1>2, <1>3, <1>4, <1>5 DEF Next

\* ALLOCATE, FREE and RESIZE are an allocator: what a program holds is apart,
\* inside the region, and keeps its contents through every call, RESIZE included.
THEOREM RegionIsAllocator == ASSUME SizesFit PROVE Spec => IsAllocator
<1>1. Init => A!Init
  BY InitShown
<1>2. IInv /\ IInv' /\ [Next]_vars => [A!Next]_(A!vars)
  BY NextShown
<1> QED BY <1>1, <1>2, Soundness, PTL DEF Spec, IsAllocator, A!Spec

=============================================================================
