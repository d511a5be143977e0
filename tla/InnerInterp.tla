---------------------------- MODULE InnerInterp ----------------------------
(***************************************************************************)
(* The dispatch loop of inner_interp.py with the words that transfer       *)
(* control: calls, EXIT, tail calls, EXECUTE, EVALUATE, CATCH and THROW,   *)
(* ABORT and QUIT, DO loops.                                               *)
(*                                                                         *)
(* A program is whatever its next instruction turns out to be: at every    *)
(* place any word may come next, so a behaviour of this module is a run of *)
(* some program, with any data.  Three things unwind together:             *)
(*   cs       the runtime control stack, packed (thread, ip) entries;      *)
(*   frames   the catch frames, flat records pointing into cs;             *)
(*   portals  the Python stack: one entry per active execute_thread, begun *)
(*            by execute_word_now, with what its caller will do next.      *)
(* The data stack's part in CATCH is MetaStack; rs_ptr stands for the      *)
(* return stack, the locals and the fixed float stack, whose depths are    *)
(* saved and restored at the same places.                                  *)
(***************************************************************************)
EXTENDS Integers, SequencesExt

CONSTANTS
  Word,         \* the colon definitions
  CodeLen,      \* instructions of a definition
  StackSize,    \* entries of cs and of the loop stack below: STACK_SIZE
  LoopSize,
  RSize,        \* cells of the return stack
  CatchDepth,   \* CATCH_DEPTH
  Limit,        \* limits and counters of loops
  Increment,    \* what +LOOP adds; 1 is LOOP
  Code,         \* the codes a program throws
  AbortCode,    \* the code ABORT throws, -1
  NestedAborts, \* may text under EVALUATE or INCLUDED raise Abort?
  Quit, None

ASSUME ParameterAssumption ==
  /\ CodeLen \in Nat \ {0} /\ StackSize \in Nat /\ LoopSize \in Nat
  /\ RSize \in Nat /\ CatchDepth \in Nat
  /\ Limit \subseteq Int /\ Increment \subseteq Int
  /\ "now" \notin Word /\ "halt" \notin Word /\ "epilogue" \notin Word
  /\ NestedAborts \in BOOLEAN
  /\ Quit \notin Code \cup {AbortCode, None} /\ None \notin Code \cup {AbortCode}

VARIABLES
  thread, ip,       \* the locals of execute_thread
  exc,              \* the Python exception in flight: None, a code, or Quit
  cs,               \* cs_pcs[0 .. cs_ptr-1]
  cs_base,
  frames,           \* ca_ints[0 .. catch_ptr-1], innermost last
  portals,          \* active execute_word_now calls, innermost last
  li, ll,           \* counter and limit of the innermost loop
  lc_depth,
  lc_is, lc_ls,     \* counters and limits of the enclosing loops
  rs_ptr,
  result,           \* what a CATCH has just pushed
  acts              \* history: the activations of ProtectedCalls

codeVars == <<thread, ip>>
loopVars == <<li, ll, lc_depth, lc_is, lc_ls>>
callVars == <<cs, cs_base, frames, portals>>
vars == <<thread, ip, exc, cs, cs_base, frames, portals, li, ll, lc_depth,
          lc_is, lc_ls, rs_ptr, result, acts>>

Place == [thread : Word \cup {"now"}, ip : 0..CodeLen]
Entry(t, i) == [thread |-> t, ip |-> i]
Halt == Entry("halt", 0)          \* HALT_THREAD: popping it ends a portal
Epilogue == Entry("epilogue", 0)  \* CATCH_EPILOGUE_THREAD
Idle == Entry("idle", 0)          \* history: where a line of input returns to

Here == Entry(thread, ip)
After == Entry(thread, ip + 1)

\* The loops as a program sees them, innermost last.
Loops ==
  [k \in 1..lc_depth |->
     IF k = lc_depth THEN [limit |-> ll, counter |-> li]
                     ELSE [limit |-> lc_ls[k - 1], counter |-> lc_is[k - 1]]]

\* An activation of ProtectedCalls, and the place of its entry on cs.
Activation(ret, kind) ==
  [ret |-> ret, kind |-> kind, loops |-> Loops, rs |-> rs_ptr, begun |-> FALSE,
   mark |-> Len(cs) + 1]

Enter(ret, kind) == acts' = Append(acts, Activation(ret, kind))

\* The loops the running definition has open.
Own == lc_depth - Len(Last(acts).loops)

Running == exc = None /\ portals # <<>>

\* Any word may be fetched next, as long as a definition keeps room for the
\* LOOP of every loop it has open; only compiled code loops.
Fetch ==
  /\ Running
  /\ (thread \in Word /\ ip + Own < CodeLen) \/ (thread = "now" /\ ip = 0)
FetchLoop == Running /\ thread \in Word /\ Own > 0 /\ ip < CodeLen

GoTo(place) == thread' = place.thread /\ ip' = place.ip

-----------------------------------------------------------------------------
Init ==
  /\ thread = "now" /\ ip = 0
  /\ exc = None
  /\ cs = <<>> /\ cs_base = 0
  /\ frames = <<>> /\ portals = <<>>
  /\ li = 0 /\ ll = 0 /\ lc_depth = 0
  /\ lc_is = [k \in 0..(LoopSize - 1) |-> 0]
  /\ lc_ls = [k \in 0..(LoopSize - 1) |-> 0]
  /\ rs_ptr = 0
  /\ result = None
  /\ acts = <<>>

\* Words that transfer nothing, branches, and the return stack words.
Step ==
  /\ Fetch
  /\ ip' = ip + 1 \/ (thread \in Word /\ ip' \in 0..(CodeLen - Own))
  /\ rs_ptr' \in {rs_ptr - 1, rs_ptr, rs_ptr + 1} \cap (0..RSize)
  /\ result' = None
  /\ UNCHANGED <<thread, exc, callVars, loopVars, acts>>

\* A compiled call, or EXECUTE of a word with a thread (_call_word_inline).
Call(w) ==
  /\ Fetch
  /\ Len(cs) < StackSize
  /\ cs' = Append(cs, After)
  /\ thread' = w /\ ip' = 0
  /\ Enter(After, "call")
  /\ result' = None
  /\ UNCHANGED <<exc, cs_base, frames, portals, loopVars, rs_ptr>>

\* TAILCALL, and a deferred word's jump to its action: nothing is pushed.
TailCall(w) ==
  /\ Fetch
  /\ thread \in Word /\ Own = 0
  /\ thread' = w /\ ip' = 0
  /\ result' = None
  /\ UNCHANGED <<exc, callVars, loopVars, rs_ptr, acts>>

\* Mutant of OpenPortal: cs_base is not raised.
OpenPortalSameBase(kind, caller) ==
  /\ Len(cs) < StackSize
  /\ portals' = Append(portals,
       [kind |-> kind, caller |-> caller, saved_base |-> cs_base, base |-> Len(cs),
        li |-> li, lc_depth |-> lc_depth, rs_ptr |-> rs_ptr, catch_ptr |-> Len(frames)])
  /\ cs' = Append(cs, Halt)
  /\ thread' = "now" /\ ip' = 0
  /\ result' = None
  /\ UNCHANGED <<exc, cs_base, frames, loopVars, rs_ptr>>

\* execute_word_now begins: raise cs_base, push HALT, run [w].
OpenPortal(kind, caller) ==
  /\ Len(cs) < StackSize
  /\ portals' = Append(portals,
       [kind |-> kind, caller |-> caller, saved_base |-> cs_base, base |-> Len(cs),
        li |-> li, lc_depth |-> lc_depth, rs_ptr |-> rs_ptr, catch_ptr |-> Len(frames)])
  /\ cs_base' = Len(cs)
  /\ cs' = Append(cs, Halt)
  /\ thread' = "now" /\ ip' = 0
  /\ result' = None
  /\ UNCHANGED <<exc, frames, loopVars, rs_ptr>>

\* execute_word_now's `finally`.
ClosePortal ==
  /\ cs_base' = Last(portals).saved_base
  /\ portals' = Front(portals)

\* interpret_line at the top level.
StartLine ==
  /\ exc = None /\ portals = <<>>
  /\ OpenPortal("line", Entry("now", 0))
  /\ Enter(Idle, "run")

\* EXECUTE of a primitive, EVALUATE or INCLUDED, CATCH of a primitive.
Nest(kind) ==
  /\ Fetch
  /\ OpenPortal(kind, After)
  /\ Enter(After, IF kind = "catch" THEN "catch" ELSE "run")

\* The text has another word: a new portal in place of the one that ended.
NextWord ==
  /\ Running
  /\ thread = "now" /\ ip = 1
  /\ Last(portals).kind \in {"line", "evaluate"}
  /\ Last(cs) = Halt
  /\ ip' = 0
  /\ result' = None
  /\ UNCHANGED <<thread, exc, callVars, loopVars, rs_ptr, acts>>

\* Mutant of Catch: room for the return address, none for the epilogue.
CatchUnbounded(w) ==
  /\ Fetch
  /\ Len(frames) < CatchDepth
  /\ Len(cs) < StackSize
  /\ frames' = Append(frames,
       [thread |-> thread, ip |-> ip + 1, rs_ptr |-> rs_ptr, li |-> li,
        lc_depth |-> lc_depth, control |-> Len(cs)])
  /\ cs' = cs \o <<After, Epilogue>>
  /\ thread' = w /\ ip' = 0
  /\ Enter(After, "catch")
  /\ result' = None
  /\ UNCHANGED <<exc, cs_base, portals, loopVars, rs_ptr>>

\* prim_CATCH of a word with a thread: the frame, the return address, and the
\* epilogue the protected word will return to.
Catch(w) ==
  /\ Fetch
  /\ Len(frames) < CatchDepth
  /\ Len(cs) + 1 < StackSize
  /\ frames' = Append(frames,
       [thread |-> thread, ip |-> ip + 1, rs_ptr |-> rs_ptr, li |-> li,
        lc_depth |-> lc_depth, control |-> Len(cs)])
  /\ cs' = cs \o <<After, Epilogue>>
  /\ thread' = w /\ ip' = 0
  /\ Enter(After, "catch")
  /\ result' = None
  /\ UNCHANGED <<exc, cs_base, portals, loopVars, rs_ptr>>

\* Mutant of CatchEpilogue: the frame is not dropped.
CatchEpilogueKeepsFrame ==
  /\ Running
  /\ Here = Epilogue
  /\ ip' = 1
  /\ result' = 0
  /\ UNCHANGED <<thread, exc, callVars, loopVars, rs_ptr, acts>>

\* The protected word has returned: drop its frame, push 0.
CatchEpilogue ==
  /\ Running
  /\ Here = Epilogue
  /\ frames # <<>>
  /\ frames' = Front(frames)
  /\ ip' = 1
  /\ result' = 0
  /\ UNCHANGED <<thread, exc, cs, cs_base, portals, loopVars, rs_ptr, acts>>

\* EXIT, or past the end of the thread: pop_control.
AtReturn ==
  /\ Running
  /\ \/ thread \in Word /\ Own = 0
     \/ thread = "now" /\ ip = 1
     \/ thread = "epilogue" /\ ip = 1
  /\ cs # <<>>

Return ==
  /\ AtReturn
  /\ Last(cs) # Halt
  /\ GoTo(Last(cs))
  /\ cs' = Front(cs)
  /\ acts' = IF thread = "epilogue" THEN acts ELSE Front(acts)
  /\ result' = IF thread = "epilogue" THEN result ELSE None
  /\ UNCHANGED <<exc, cs_base, frames, portals, loopVars, rs_ptr>>

\* The portal's HALT: execute_word_now returns to the primitive that called it.
ReturnFromPortal ==
  /\ AtReturn
  /\ Last(cs) = Halt
  /\ cs' = Front(cs)
  /\ ClosePortal
  /\ GoTo(Last(portals).caller)
  /\ acts' = IF thread = "epilogue" THEN acts ELSE Front(acts)
  /\ result' = IF Last(portals).kind = "catch" THEN 0 ELSE None
  /\ UNCHANGED <<exc, frames, loopVars, rs_ptr>>

-----------------------------------------------------------------------------
\* push_loop
Do(limit, counter) ==
  /\ Fetch
  /\ thread \in Word /\ ip + Own + 1 < CodeLen
  /\ lc_depth < LoopSize
  /\ lc_is' = IF lc_depth > 0 THEN [lc_is EXCEPT ![lc_depth - 1] = li] ELSE lc_is
  /\ lc_ls' = IF lc_depth > 0 THEN [lc_ls EXCEPT ![lc_depth - 1] = ll] ELSE lc_ls
  /\ li' = counter
  /\ ll' = limit
  /\ lc_depth' = lc_depth + 1
  /\ ip' = ip + 1
  /\ acts' = [i \in DOMAIN acts |-> [acts[i] EXCEPT !.begun = TRUE]]
  /\ result' = None
  /\ UNCHANGED <<thread, exc, callVars, rs_ptr>>

\* Mutant of PopLoop: the outer counter is not reloaded.
PopLoopKeepsCounter ==
  /\ lc_depth' = lc_depth - 1
  /\ ll' = IF lc_depth > 1 THEN lc_ls[lc_depth - 2] ELSE ll
  /\ UNCHANGED <<li, lc_is, lc_ls>>

\* pop_loop
PopLoop ==
  /\ lc_depth' = lc_depth - 1
  /\ li' = IF lc_depth > 1 THEN lc_is[lc_depth - 2] ELSE li
  /\ ll' = IF lc_depth > 1 THEN lc_ls[lc_depth - 2] ELSE ll
  /\ UNCHANGED <<lc_is, lc_ls>>

\* +LOOP's test; LOOP's is the case n = 1.
GoesOn(n) ==
  \/ n >= 0 /\ li < ll /\ li + n < ll
  \/ n < 0 /\ li >= ll /\ li + n >= ll

Again(n) ==
  /\ FetchLoop
  /\ GoesOn(n)
  /\ li' = li + n
  /\ ip' \in 0..ip
  /\ result' = None
  /\ UNCHANGED <<thread, exc, callVars, ll, lc_depth, lc_is, lc_ls, rs_ptr, acts>>

\* A loop ends: LOOP and +LOOP fall through, UNLOOP goes on, LEAVE jumps ahead.
LeaveLoop ==
  /\ FetchLoop
  /\ PopLoop
  /\ \/ \E n \in Increment : ~ GoesOn(n) /\ ip' = ip + 1
     \/ ip' \in (ip + 1)..(CodeLen - Own + 1)
  /\ result' = None
  /\ UNCHANGED <<thread, exc, callVars, rs_ptr, acts>>

-----------------------------------------------------------------------------
Raise(e) == exc' = e /\ UNCHANGED <<codeVars, callVars, result, acts>>

\* THROW of a non-zero code, and EXECUTE of a token outside the registry.
Throw(code) ==
  /\ Fetch
  /\ Raise(code)
  /\ UNCHANGED <<loopVars, rs_ptr>>

\* ABORT empties the stacks, then throws -1.
Abort ==
  /\ Fetch
  /\ Raise(AbortCode)
  /\ lc_depth' = 0
  /\ rs_ptr' = 0
  /\ UNCHANGED <<li, ll, lc_is, lc_ls>>

\* QUIT, and ABORT" with a true flag, raise Abort.
QuitWord ==
  /\ Fetch
  /\ NestedAborts \/ \A i \in DOMAIN portals : portals[i].kind # "evaluate"
  /\ Raise(Quit)
  /\ UNCHANGED <<loopVars, rs_ptr>>

Unwinding == exc # None /\ portals # <<>>
Thrown == Unwinding /\ exc # Quit

\* Mutant of FrameHere: any frame will do.
FrameAnywhere == frames # <<>>

\* The innermost frame was pushed by this portal.
FrameHere == frames # <<>> /\ Last(frames).control >= cs_base

Protected == {i \in DOMAIN acts : acts[i].kind = "catch"}
DropActivations ==
  acts' = IF Protected = {} THEN <<>> ELSE SubSeq(acts, 1, Max(Protected) - 1)

\* throw_unwind finds a frame of its own portal.  ll is not in the frame.
LandInFrame ==
  /\ Thrown
  /\ FrameHere
  /\ LET f == Last(frames) IN
       /\ GoTo(f)
       /\ rs_ptr' = f.rs_ptr
       /\ li' = f.li
       /\ lc_depth' = f.lc_depth
       /\ cs' = SubSeq(cs, 1, f.control)
  /\ frames' = Front(frames)
  /\ result' = exc
  /\ exc' = None
  /\ DropActivations
  /\ UNCHANGED <<cs_base, portals, ll, lc_is, lc_ls>>

\* throw_unwind re-raises, and the caller is CATCH of a primitive.
LandInPortal ==
  /\ Thrown
  /\ ~ FrameHere
  /\ LET p == Last(portals) IN
       /\ p.kind = "catch"
       /\ GoTo(p.caller)
       /\ rs_ptr' = p.rs_ptr
       /\ li' = p.li
       /\ lc_depth' = p.lc_depth
       /\ cs' = SubSeq(cs, 1, p.base)
       /\ frames' = SubSeq(frames, 1, p.catch_ptr)
  /\ ClosePortal
  /\ result' = exc
  /\ exc' = None
  /\ DropActivations
  /\ UNCHANGED <<ll, lc_is, lc_ls>>

\* Mutant of Reraise: the exception is raised again where it was caught.
ReraiseHere ==
  /\ Thrown
  /\ ~ FrameHere
  /\ Last(portals).kind # "catch"
  /\ UNCHANGED vars

\* It re-raises through any other caller, at last out of the run: the entry
\* point reports an uncaught THROW and ends.
Reraise ==
  /\ Thrown
  /\ ~ FrameHere
  /\ Last(portals).kind # "catch"
  /\ ClosePortal
  /\ GoTo(Last(portals).caller)
  /\ IF Len(portals) = 1 THEN DropActivations ELSE UNCHANGED acts
  /\ UNCHANGED <<exc, cs, frames, loopVars, rs_ptr, result>>

\* Abort passes every handler but interpret_line's, which resets the machine.
PassAbort ==
  /\ Unwinding /\ exc = Quit
  /\ Last(portals).kind \in {"execute", "catch"}
  /\ ClosePortal
  /\ GoTo(Last(portals).caller)
  /\ UNCHANGED <<exc, cs, frames, loopVars, rs_ptr, result, acts>>

ResetAfterAbort ==
  /\ Unwinding /\ exc = Quit
  /\ Last(portals).kind \in {"line", "evaluate"}
  /\ ClosePortal
  /\ GoTo(Last(portals).caller)
  /\ exc' = None
  /\ cs' = <<>> /\ frames' = <<>>
  /\ lc_depth' = 0 /\ rs_ptr' = 0
  /\ acts' = <<>>
  /\ UNCHANGED <<li, ll, lc_is, lc_ls, result>>

\* The run has ended; it stays so.
Done == exc # None /\ portals = <<>> /\ UNCHANGED vars

Unwind == LandInFrame \/ LandInPortal \/ Reraise \/ PassAbort \/ ResetAfterAbort

Next ==
  \/ StartLine \/ NextWord \/ Step
  \/ \E w \in Word : Call(w) \/ TailCall(w) \/ Catch(w)
  \/ \E kind \in {"execute", "evaluate", "catch"} : Nest(kind)
  \/ CatchEpilogue \/ Return \/ ReturnFromPortal
  \/ \E limit, counter \in Limit : Do(limit, counter)
  \/ \E n \in Increment : Again(n)
  \/ LeaveLoop
  \/ \E code \in Code : Throw(code)
  \/ Abort \/ QuitWord
  \/ Unwind \/ Done

Spec == Init /\ [][Next]_vars
FairSpec == Spec /\ WF_vars(Unwind)

-----------------------------------------------------------------------------
Frame == [thread : Word \cup {"now"}, ip : 0..CodeLen, rs_ptr : 0..RSize,
          li : Int, lc_depth : 0..LoopSize, control : 0..StackSize]

\* Every index the loop uses stays inside its array.
TypeOK ==
  /\ thread \in Word \cup {"now", "epilogue"} /\ ip \in 0..CodeLen
  /\ exc \in Code \cup {AbortCode, Quit, None}
  /\ Len(cs) \in 0..StackSize
  /\ \A i \in DOMAIN cs : cs[i] \in Place \cup {Halt, Epilogue}
  /\ cs_base \in 0..StackSize
  /\ Len(frames) \in 0..CatchDepth
  /\ \A i \in DOMAIN frames : frames[i] \in Frame
  /\ li \in Int /\ ll \in Int
  /\ lc_depth \in 0..LoopSize
  /\ rs_ptr \in 0..RSize

\* A catch frame and the control stack describe the same CATCH: the frame's
\* mark is where its return address and the epilogue lie, and no epilogue is
\* without a frame, so catch_drop_frame always drops the right one.
FramesMatchControl ==
  /\ \A i \in DOMAIN frames :
       LET c == frames[i].control IN
         /\ Len(cs) > c
         /\ cs[c + 1] = Entry(frames[i].thread, frames[i].ip)
         /\ \/ Len(cs) > c + 1 /\ cs[c + 2] = Epilogue
            \/ Len(cs) = c + 1 /\ Here = Epilogue /\ i = Len(frames)
         /\ i > 1 => frames[i - 1].control + 1 < c
  /\ Cardinality({k \in DOMAIN cs : cs[k] = Epilogue})
       + (IF Here = Epilogue THEN 1 ELSE 0) = Len(frames)

\* The Python stack and the control stack agree: a HALT at each portal's base
\* and, but for portals an exception has just left, nowhere else; cs_base at
\* the innermost.  So a return neither leaves a portal early nor runs past it.
PortalsMatchControl ==
  LET halts == {k \in DOMAIN cs : cs[k] = Halt}
      bases == {portals[i].base + 1 : i \in DOMAIN portals}
  IN  /\ bases \subseteq halts
      /\ exc = None => halts \subseteq bases
      /\ \A i, j \in DOMAIN portals : i < j => portals[i].base < portals[j].base
      /\ portals # <<>> => cs_base = Last(portals).base

Seen(a) == [ret |-> a.ret, kind |-> a.kind, loops |-> a.loops, rs |-> a.rs,
            begun |-> a.begun]

PC == INSTANCE ProtectedCalls WITH
        acts <- [k \in DOMAIN acts |-> Seen(acts[k])],
        at <- IF portals = <<>> THEN (IF exc = None THEN Idle ELSE Entry("ended", 0))
              ELSE IF exc # None THEN Entry("unwinding", 0)
              ELSE IF thread = "epilogue" THEN Last(cs)
              ELSE Here,
        raised <- exc,
        loops <- Loops,
        rs <- rs_ptr,
        result <- IF exc = None /\ Here = Epilogue THEN 0 ELSE result

\* Whatever portals lie between, a return goes back to its caller and a THROW
\* to the nearest CATCH, once, with the state the CATCH began with.
IsProtectedCalls == PC!Spec

\* An exception in flight always finds its handler or ends the run.
ThrowLands == (exc # None) ~> (exc = None \/ portals = <<>>)

\* catch_push_frame saves "all the state a THROW must restore", and "the
\* handler's own loop still works": every loop is as it was at the CATCH.
ThrowRestoresLoops ==
  [][LandInFrame \/ LandInPortal => Loops' = acts[Max(Protected)].loops]_vars
=============================================================================
