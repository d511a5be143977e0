----------------------------- MODULE DataStack -----------------------------
(***************************************************************************)
(* What a Forth word may assume of the data stack, whatever layout         *)
(* (config.py: STACK_LAYOUT) holds its cells.  It is one sequence of cells *)
(* with the top last, plus the snapshots CATCH has taken of it, plus what  *)
(* the last operation handed back.                                         *)
(*                                                                         *)
(* A snapshot promises less than the whole stack.  `floor` says how many   *)
(* of the bottom cells were NOT copied; `low` is the shallowest point the  *)
(* stack has been cut or written at since.  A restore brings back          *)
(*   - the depth, always,                                                  *)
(*   - every cell above the floor, always,                                 *)
(*   - every cell below the low-water mark;                                *)
(* a cell between the two may hold whatever was parked there meanwhile.    *)
(***************************************************************************)
EXTENDS Integers, Sequences

CONSTANTS
  Value,         \* the cells' values
  Capacity,      \* the deepest stack a push may produce
  CallCapacity,  \* the deepest stack a call may be made from
  MaxMarks       \* how many snapshots may be live at once

CONSTANTS None, Overflow    \* "nothing returned", "DataStackOverflow raised"

VARIABLES
  stack,   \* the cells, top last
  marks,   \* the live snapshots, innermost last: [saved, floor, low]
  out      \* what the last operation returned or raised

vars == <<stack, marks, out>>

Depth == Len(stack)

Least(a, b) == IF a <= b THEN a ELSE b

\* Every snapshot learns that only the bottom k cells are untouched by this step.
Touched(k) ==
  marks' = [m \in DOMAIN marks |-> [saved |-> marks[m].saved,
                                     floor |-> marks[m].floor,
                                     low   |-> Least(marks[m].low, k)]]

Init == stack = <<>> /\ marks = <<>> /\ out = None

Push(v) ==
  /\ Depth < Capacity
  /\ stack' = Append(stack, v)
  /\ out' = None
  /\ UNCHANGED marks

\* The only way a push may fail, and it leaves the stack as it was.
PushOverflow ==
  /\ Depth >= Capacity
  /\ out' = Overflow
  /\ UNCHANGED <<stack, marks>>

Pop ==
  /\ Depth > 0
  /\ out' = stack[Depth]
  /\ stack' = SubSeq(stack, 1, Depth - 1)
  /\ Touched(Depth - 1)

Peek(d) ==
  /\ d < Depth
  /\ out' = stack[Depth - d]
  /\ UNCHANGED <<stack, marks>>

Poke(d, v) ==
  /\ d < Depth
  /\ stack' = [stack EXCEPT ![Depth - d] = v]
  /\ out' = None
  /\ Touched(Depth - d - 1)

\* Calling a word is invisible to the stack, and possible from CallCapacity cells.
Call ==
  /\ Depth <= CallCapacity
  /\ out' = None
  /\ UNCHANGED <<stack, marks>>

CallOverflow ==
  /\ Depth > CallCapacity
  /\ out' = Overflow
  /\ UNCHANGED <<stack, marks>>

Clear ==
  /\ stack' = <<>>
  /\ out' = None
  /\ Touched(0)

\* The implementation chooses the floor of the snapshot it takes.
Snapshot ==
  /\ Len(marks) < MaxMarks
  /\ \E floor \in 0..Depth :
       marks' = Append(marks, [saved |-> stack, floor |-> floor, low |-> Depth])
  /\ out' = None
  /\ UNCHANGED stack

\* What a restore from mark m must bring back.
RestoredFrom(m, s) ==
  /\ Len(s) = Len(m.saved)
  /\ \A i \in 1..Len(s) :
       (i > m.floor \/ i <= m.low) => s[i] = m.saved[i]

Restore ==
  /\ marks # <<>>
  /\ RestoredFrom(marks[Len(marks)], stack')
  /\ marks' = SubSeq(marks, 1, Len(marks) - 1)
  /\ out' = None

\* The protected word returned: its snapshot is forgotten.
Forget ==
  /\ marks # <<>>
  /\ marks' = SubSeq(marks, 1, Len(marks) - 1)
  /\ out' = None
  /\ UNCHANGED stack

Next ==
  \/ \E v \in Value : Push(v)
  \/ PushOverflow
  \/ Pop
  \/ \E d \in 0..(Depth - 1) : Peek(d)
  \/ \E d \in 0..(Depth - 1), v \in Value : Poke(d, v)
  \/ Call
  \/ CallOverflow
  \/ Clear
  \/ Snapshot
  \/ Restore
  \/ Forget

Spec == Init /\ [][Next]_vars
=============================================================================
