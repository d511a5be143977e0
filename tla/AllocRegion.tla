---------------------------- MODULE AllocRegion ----------------------------
(***************************************************************************)
(* ALLOCATE, FREE and RESIZE as primitives.py has them: a bump pointer     *)
(* over the region above the dictionary, a size header in the cell below   *)
(* each block, and one free list per usable size.                          *)
(*                                                                         *)
(* The heap is an array of bytes.  A header is a whole cell: its number is *)
(* kept in the cell's lowest byte here, the others hold 0.  Arithmetic     *)
(* wraps at MaxInt, as the translated interpreter's does.                  *)
(***************************************************************************)
EXTENDS Integers, SequencesExt

CONSTANTS
  CellBytes,        \* CELL_SIZE_BYTES
  AllocBase,        \* ALLOC_BASE
  AllocLimit,       \* alloc_limit, the size of the heap
  MaxInt,           \* the largest signed cell
  Byte,             \* what a program stores in a byte
  Size              \* the sizes a program asks for

ASSUME LayoutAssumption ==
  /\ CellBytes \in Nat \ {0} /\ AllocBase \in Nat /\ AllocLimit \in Nat
  /\ AllocBase % CellBytes = 0 /\ AllocLimit % CellBytes = 0
  /\ 0 < AllocBase /\ AllocBase <= AllocLimit
  /\ MaxInt \in Nat /\ AllocLimit <= MaxInt
  /\ \A size \in Size : size \in Int /\ size <= MaxInt
  /\ 0 \in Byte /\ Byte \subseteq Int

VARIABLES
  heap,        \* the bytes of the region, headers included
  alloc_ptr,   \* the bump pointer
  alloc_free,  \* usable size -> the free blocks of that size, last freed last
  reply,       \* what the last word left on the stack: <<address, ior>>
  held         \* history: the blocks a program holds -> the size it asked for

vars == <<heap, alloc_ptr, alloc_free, reply, held>>

Region == AllocBase..(AllocLimit - 1)

Wrap(n) == IF n > MaxInt THEN n - 2 * (MaxInt + 1) ELSE n

\* Mutant of Usable: no rounding.
UsableExact(size) == size

\* A request rounded up to whole cells.
Usable(size) ==
  LET rem == size % CellBytes IN
    IF rem = 0 THEN size ELSE Wrap(size + (CellBytes - rem))

Header(addr) == heap[addr - CellBytes]

CellStore(addr, n) ==
  [a \in Region |-> IF a = addr THEN n
                    ELSE IF a \in addr..(addr + CellBytes - 1) THEN 0 ELSE heap[a]]

\* The free blocks of a usable size; the code's dict has no entry until needed.
Bucket(n) == IF n \in DOMAIN alloc_free THEN alloc_free[n] ELSE <<>>
SetBucket(free, n, bucket) ==
  [m \in DOMAIN free \cup {n} |-> IF m = n THEN bucket ELSE free[m]]

\* Mutant of InRegion: off by one at the first block.
InRegionStrict(addr) == addr > AllocBase + CellBytes /\ addr <= AllocLimit

\* FREE and RESIZE ignore any other address.
InRegion(addr) == addr >= AllocBase + CellBytes /\ addr <= AllocLimit

Init ==
  /\ heap = [a \in Region |-> 0]
  /\ alloc_ptr = AllocBase
  /\ alloc_free = << >>
  /\ reply = <<0, 0>>
  /\ held = << >>

Hold(addr, size, others) ==
  held' = [a \in others \cup {addr} |-> IF a = addr THEN size ELSE held[a]]

-----------------------------------------------------------------------------
\* prim_ALLOCATE finds a free block of this usable size.
Recycled(size) == size >= 0 /\ Bucket(Usable(size)) # <<>>

\* Mutant of BumpTo: the header is not counted.
BumpToNoHeader(size) == Wrap(alloc_ptr + Usable(size))

\* It must advance the bump pointer, and may.
BumpTo(size) == Wrap(alloc_ptr + CellBytes + Usable(size))
Bumped(size) ==
  /\ size >= 0
  /\ ~ Recycled(size)
  /\ BumpTo(size) <= AllocLimit

CanTake(size) == Recycled(size) \/ Bumped(size)

\* The block a successful ALLOCATE returns, and what it leaves behind.
Found(size) ==
  IF Recycled(size) THEN Last(Bucket(Usable(size))) ELSE alloc_ptr + CellBytes
HeapTaking(size) ==
  IF Recycled(size) THEN heap ELSE CellStore(alloc_ptr, Usable(size))
PtrTaking(size) ==
  IF Recycled(size) THEN alloc_ptr ELSE BumpTo(size)

\* Mutant of FreeTaking: the block stays in its bucket.
FreeTakingPeek(size) == alloc_free

FreeTaking(size) ==
  IF Recycled(size)
  THEN SetBucket(alloc_free, Usable(size), Front(Bucket(Usable(size))))
  ELSE alloc_free

Allocate(size) ==
  \/ /\ CanTake(size)
     /\ heap' = HeapTaking(size)
     /\ alloc_ptr' = PtrTaking(size)
     /\ alloc_free' = FreeTaking(size)
     /\ reply' = <<Found(size), 0>>
     /\ Hold(Found(size), size, DOMAIN held)
  \/ /\ ~ CanTake(size)
     /\ reply' = <<0, -1>>
     /\ UNCHANGED <<heap, alloc_ptr, alloc_free, held>>

\* prim_FREE: what the free lists are once addr is returned.
Returned(free, addr) ==
  LET n == Header(addr)
      bucket == IF n \in DOMAIN free THEN free[n] ELSE <<>>
  IN  IF InRegion(addr) /\ n > 0 THEN SetBucket(free, n, Append(bucket, addr)) ELSE free

Free(addr) ==
  /\ addr \in DOMAIN held
  /\ alloc_free' = Returned(alloc_free, addr)
  /\ reply' = <<0, 0>>
  /\ held' = [a \in DOMAIN held \ {addr} |-> held[a]]
  /\ UNCHANGED <<heap, alloc_ptr>>

\* prim_RESIZE keeps the block where it is if it is large enough.
Roomy(addr, size) == 0 < size /\ size <= Header(addr)

ResizeInPlace(addr, size) ==
  /\ Roomy(addr, size)
  /\ reply' = <<addr, 0>>
  /\ Hold(addr, size, DOMAIN held)
  /\ UNCHANGED <<heap, alloc_ptr, alloc_free>>

\* Otherwise it allocates, copies byte by byte and frees the old block.
Smaller(m, n) == IF m <= n THEN m ELSE n

ResizeElsewhere(addr, size) ==
  /\ ~ Roomy(addr, size)
  /\ CanTake(size)
  /\ LET copied == Found(size)..(Found(size) + Smaller(Header(addr), size) - 1)
     IN  heap' = [a \in Region |-> IF a \in copied
                                   THEN HeapTaking(size)[addr + (a - Found(size))]
                                   ELSE HeapTaking(size)[a]]
  /\ alloc_ptr' = PtrTaking(size)
  /\ alloc_free' = Returned(FreeTaking(size), addr)
  /\ reply' = <<Found(size), 0>>
  /\ Hold(Found(size), size, DOMAIN held \ {addr})

ResizeFails(addr, size) ==
  /\ ~ Roomy(addr, size)
  /\ ~ CanTake(size)
  /\ reply' = <<addr, -1>>
  /\ UNCHANGED <<heap, alloc_ptr, alloc_free, held>>

Resize(addr, size) ==
  /\ addr \in DOMAIN held
  /\ \/ ResizeInPlace(addr, size)
     \/ ResizeElsewhere(addr, size)
     \/ ResizeFails(addr, size)

\* C! into a block the program holds.
Store(addr, k, b) ==
  /\ addr \in DOMAIN held
  /\ k < held[addr]
  /\ heap' = [heap EXCEPT ![addr + k] = b]
  /\ UNCHANGED <<alloc_ptr, alloc_free, reply, held>>

Next ==
  \/ \E size \in Size : Allocate(size)
  \/ \E addr \in DOMAIN held :
       \/ Free(addr)
       \/ \E size \in Size : Resize(addr, size)
       \/ \E k \in 0..(held[addr] - 1), b \in Byte : Store(addr, k, b)

Spec == Init /\ [][Next]_vars

-----------------------------------------------------------------------------
FreeBlocks == UNION {ToSet(alloc_free[n]) : n \in DOMAIN alloc_free}

TypeOK ==
  /\ heap \in [Region -> Int]
  /\ alloc_ptr \in AllocBase..AllocLimit /\ alloc_ptr % CellBytes = 0
  /\ \A addr \in DOMAIN held \cup FreeBlocks :
       addr % CellBytes = 0 /\ addr \in (AllocBase + CellBytes)..alloc_ptr

\* Every block, held or free, has an intact header that says how far it
\* reaches: past what the program asked for, not past the bump pointer, and
\* not into the header of the next block.  Nothing is held and free at once,
\* nor free twice.
BlocksSound ==
  LET all == DOMAIN held \cup FreeBlocks IN
    /\ \A addr \in all : addr + Header(addr) <= alloc_ptr
    /\ \A addr \in DOMAIN held : held[addr] <= Header(addr)
    /\ \A a, b \in all : a < b => a + Header(a) <= b - CellBytes
    /\ DOMAIN held \cap FreeBlocks = {}
    /\ \A n \in DOMAIN alloc_free :
         /\ IsInjective(alloc_free[n])
         /\ \A addr \in ToSet(alloc_free[n]) : Header(addr) = n

A == INSTANCE Allocator WITH
       Base <- AllocBase, Top <- AllocLimit,
       blocks <- [a \in DOMAIN held |-> [k \in 0..(held[a] - 1) |-> heap[a + k]]]

\* To the program this is an allocator: blocks apart, contents kept.
IsAllocator == A!Spec

\* FREE returns a block "to its size bucket for reuse": the held and the free
\* blocks with their headers account for the region up to the bump pointer.
\* Only empty blocks are lost, which FREE drops: what is left of one is a
\* header of 0.
RegionAccounted ==
  LET blocks == DOMAIN held \cup FreeBlocks
      used == UNION {(addr - CellBytes)..(addr + Header(addr) - 1) : addr \in blocks}
  IN  /\ used \subseteq AllocBase..(alloc_ptr - 1)
      /\ \A a \in (AllocBase..(alloc_ptr - 1)) \ used : heap[a - (a % CellBytes)] = 0
=============================================================================
