--------------------------- MODULE ProtectedCalls ---------------------------
(***************************************************************************)
(* What CALL, EXIT, EXECUTE, EVALUATE, CATCH and THROW mean to a Forth     *)
(* program, with nothing of how the dispatch loop does it.  A program's    *)
(* unfinished work is one stack of activations; a THROW ends every         *)
(* activation above the nearest CATCH, however many nested interpreters    *)
(* lie between, and the CATCH returns once with the code.                  *)
(*                                                                         *)
(* A definition is assumed to drop exactly the loops it has begun (DO and  *)
(* LOOP are compiled in pairs, and EXIT out of a loop needs UNLOOP).       *)
(***************************************************************************)
EXTENDS Integers, SequencesExt

CONSTANTS
  Place,     \* where execution may be in a program: [thread, ip]
  Limit,     \* the limits and counters of loops
  Code,      \* the codes a program throws
  AbortCode, \* the code ABORT throws
  Quit,      \* what QUIT and ABORT" raise: not a code, and no CATCH stops it
  None

VARIABLES
  at,      \* the place about to execute, or one of the three below
  raised,  \* while unwinding, the code thrown or Quit
  acts,    \* the unfinished activations, innermost last
  loops,   \* the running loops, innermost last: [limit, counter]
  rs,      \* depth of the return stack
  result   \* what a CATCH has just returned

vars == <<at, raised, acts, loops, rs, result>>

Nowhere(why) == [thread |-> why, ip |-> 0]
Idle == Nowhere("idle")            \* waiting for a line of input
Unwinding == Nowhere("unwinding")  \* an exception looks for its handler
Ended == Nowhere("ended")          \* an uncaught THROW has ended the run

After(p) == [p EXCEPT !.ip = @ + 1]

\* An activation: where it returns to, whether it is protected by a CATCH, the
\* loops and return stack it began with, and whether a loop was begun since.
Activation(ret, kind) ==
  [ret |-> ret, kind |-> kind, loops |-> loops, rs |-> rs, begun |-> FALSE]

Balanced == Len(loops) = Len(Last(acts).loops)

Protected == {i \in DOMAIN acts : acts[i].kind = "catch"}
Handler == Max(Protected)

Init ==
  /\ at = Idle /\ raised = None
  /\ acts = <<>> /\ loops = <<>> /\ rs = 0 /\ result = None

\* A line of input starts an interpreter, which is an activation too.
StartLine ==
  /\ at = Idle
  /\ at' \in Place
  /\ acts' = Append(acts, Activation(Idle, "run"))
  /\ result' = None
  /\ UNCHANGED <<loops, rs>>

\* A word that transfers nothing: it moves on, or changes the return stack.
Step ==
  /\ at \in Place
  /\ at' \in Place
  /\ rs' \in {rs - 1, rs, rs + 1}
  /\ result' = None
  /\ UNCHANGED <<acts, loops>>

\* A call of any kind; a CATCH is a call with a protected activation.
Enter(kind) ==
  /\ at \in Place
  /\ at' \in Place
  /\ acts' = Append(acts, Activation(After(at), kind))
  /\ result' = None
  /\ UNCHANGED <<loops, rs>>

\* EXIT, or the end of a definition: back to where this activation was entered.
Return ==
  /\ at \in Place
  /\ Balanced
  /\ at' = Last(acts).ret
  /\ acts' = Front(acts)
  /\ result' = IF Last(acts).kind = "catch" THEN 0 ELSE None
  /\ UNCHANGED <<loops, rs>>

Do(limit, counter) ==
  /\ at \in Place
  /\ at' \in Place
  /\ loops' = Append(loops, [limit |-> limit, counter |-> counter])
  /\ acts' = [i \in DOMAIN acts |-> [acts[i] EXCEPT !.begun = TRUE]]
  /\ result' = None
  /\ UNCHANGED rs

\* LOOP and +LOOP going round again: only the innermost counter changes.
Again ==
  /\ at \in Place
  /\ ~ Balanced
  /\ at' \in Place
  /\ Len(loops') = Len(loops)
  /\ loops' = [loops EXCEPT ![Len(loops)].counter = Last(loops').counter]
  /\ result' = None
  /\ UNCHANGED <<acts, rs>>

Unloop ==
  /\ at \in Place
  /\ ~ Balanced
  /\ at' \in Place
  /\ loops' = Front(loops)
  /\ result' = None
  /\ UNCHANGED <<acts, rs>>

Throw(code) ==
  /\ at \in Place
  /\ at' = Unwinding
  /\ raised' = code
  /\ UNCHANGED <<acts, loops, rs, result>>

\* ABORT empties the stacks it can see before it throws.
Abort ==
  /\ at \in Place
  /\ at' = Unwinding
  /\ raised' = AbortCode
  /\ loops' = <<>>
  /\ rs' = 0
  /\ UNCHANGED <<acts, result>>

\* What is left of the loops when activation a is thrown back to: the loops
\* running at its CATCH, their counters exact; the innermost limit only if the
\* protected word began no loop of its own.
Restored(a, ls) ==
  /\ Len(ls) = Len(a.loops)
  /\ \A i \in DOMAIN ls :
       /\ ls[i].counter = a.loops[i].counter
       /\ (i < Len(ls) \/ ~a.begun) => ls[i].limit = a.loops[i].limit

Land ==
  /\ at = Unwinding /\ raised # Quit
  /\ Protected # {}
  /\ at' = acts[Handler].ret
  /\ acts' = SubSeq(acts, 1, Handler - 1)
  /\ Restored(acts[Handler], loops')
  /\ rs' = acts[Handler].rs
  /\ result' = raised
  /\ raised' = None

\* QUIT gives up every activation and waits for the next line.
GiveUp ==
  /\ at = Unwinding /\ raised = Quit
  /\ at' = Idle /\ raised' = None
  /\ acts' = <<>> /\ loops' = <<>> /\ rs' = 0
  /\ UNCHANGED result

\* A THROW that nothing catches ends the run.
Uncaught ==
  /\ at = Unwinding /\ raised # Quit
  /\ Protected = {}
  /\ at' = Ended
  /\ acts' = <<>>
  /\ UNCHANGED <<raised, loops, rs, result>>

Next ==
  \/ /\ \/ StartLine \/ Step \/ Return \/ Again \/ Unloop
        \/ \E kind \in {"call", "run", "catch"} : Enter(kind)
        \/ \E limit, counter \in Limit : Do(limit, counter)
     /\ UNCHANGED raised
  \/ \E code \in Code \cup {Quit} : Throw(code)
  \/ Abort \/ Land \/ GiveUp \/ Uncaught

Spec == Init /\ [][Next]_vars
=============================================================================
