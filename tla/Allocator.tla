----------------------------- MODULE Allocator -----------------------------
(***************************************************************************)
(* What ALLOCATE, FREE and RESIZE promise a Forth program: blocks that lie *)
(* inside the region and never overlap, keep what is written to them until *)
(* freed, and keep it through a RESIZE as far as the smaller size reaches. *)
(*                                                                         *)
(* A program is assumed to use only blocks it holds, within the size it    *)
(* asked for, and to free each once.                                       *)
(***************************************************************************)
EXTENDS Integers, FiniteSets

CONSTANTS
  Base, Top,  \* the region is [Base, Top)
  Byte,       \* what a byte may hold
  Size        \* the sizes a program asks for

VARIABLES
  blocks,  \* address of each block held -> its bytes, a function on 0..size-1
  reply    \* what the last operation returned: <<address, ior>>

vars == <<blocks, reply>>

Length(block) == Cardinality(DOMAIN block)
Span(a) == a..(a + Length(blocks[a]) - 1)

Without(a) == [b \in DOMAIN blocks \ {a} |-> blocks[b]]

\* A block may stand at a next to the blocks of `others`.
Fits(a, n, others) ==
  /\ a > Base /\ a + n <= Top
  /\ a \notin DOMAIN others
  /\ \A b \in DOMAIN others :
       (a..(a + n - 1)) \cap (b..(b + Length(others[b]) - 1)) = {}

Agree(new, old) ==
  \A k \in DOMAIN new \cap DOMAIN old : new[k] = old[k]

Init == blocks = << >> /\ reply = <<0, 0>>

Fail(a) == reply' = <<a, -1>> /\ UNCHANGED blocks

Holding(a, new, others) ==
  /\ blocks' = [b \in DOMAIN others \cup {a} |-> IF b = a THEN new ELSE others[b]]
  /\ reply' = <<a, 0>>

Allocate(n) ==
  \/ Fail(0)
  \/ \E a \in Base..Top, new \in [0..(n - 1) -> Byte] :
       Fits(a, n, blocks) /\ Holding(a, new, blocks)

Free(a) == blocks' = Without(a) /\ reply' = <<0, 0>>

\* In place, or somewhere else with the old block freed.
Resize(a, n) ==
  \/ Fail(a)
  \/ \E c \in Base..Top, new \in [0..(n - 1) -> Byte] :
       /\ Fits(c, n, Without(a))
       /\ Agree(new, blocks[a])
       /\ Holding(c, new, Without(a))

\* A byte is stored into a block.
Store(a, k, b) ==
  /\ blocks' = [blocks EXCEPT ![a][k] = b]
  /\ UNCHANGED reply

Next ==
  \/ \E n \in Size : Allocate(n)
  \/ \E a \in DOMAIN blocks :
       \/ Free(a)
       \/ \E n \in Size : Resize(a, n)
       \/ \E k \in DOMAIN blocks[a], b \in Byte : Store(a, k, b)

Spec == Init /\ [][Next]_vars
=============================================================================
