---------------------------- MODULE FactorInterp ---------------------------
(***************************************************************************)
(* The dispatch loop of rpyfactor (interp.py): one flat loop over program  *)
(* items, a call stack of typed frames for the combinators, and the stack  *)
(* of FactorStack.  A program is a sequence of items: a literal is the     *)
(* value it pushes, a word is <<"word", name>>.                            *)
(*                                                                         *)
(* A frame says where to go on when the program it has started is over.    *)
(* Of linrec, binrec and primrec the child goes on in its parent's frame:  *)
(* its return place is a program None and a negative ip with the parent's  *)
(* number, which _resume_ret decodes.                                      *)
(***************************************************************************)
EXTENDS FactorPrims, FiniteSets

CONSTANTS
  CsDepth,   \* CS_DEPTH
  Dict,      \* name -> body
  Programs   \* the programs run may be given

VARIABLES
  st,        \* the stack
  arrays,    \* contents of the arrays, shared by their references
  cs,        \* the call stack, cs[ptr + 1] for the code's frame ptr
  prog, ip,  \* the locals of _execute
  source,    \* history: the program this run was given
  dug        \* history: a condition has popped cells parked below it

vars == <<st, arrays, cs, prog, ip, source, dug>>

Memory == [st |-> st, arrays |-> arrays]
Nowhere == <<None>>  \* the program None
IP_RESUME_PRIMREC == -1000000
IP_RESUME_LINREC == -2000000
IP_RESUME_BINREC == -3000000

\* The places that name a frame must not run into those of the next kind.
ASSUME DepthAssumption == CsDepth \in 0..(IP_RESUME_PRIMREC - IP_RESUME_LINREC)

\* _push_frame clears every field but the return place.
Frame(kind) ==
  [kind |-> kind, prog |-> prog, ip |-> ip + 1, body |-> <<>>, body2 |-> <<>>,
   body3 |-> <<>>, body4 |-> <<>>, n |-> 0, i |-> 0, val |-> None, val2 |-> None,
   list |-> <<>>, snap |-> <<>>, out |-> <<>>]

Returning(f, p, i) == [f EXCEPT !.prog = p, !.ip = i]
Ptr == Len(cs)
Innermost == cs[Ptr]
Below(n) == SubSeq(cs, 1, n)

Combinators ==
  {"body", "call", "x", "dip", "if", "branch", "times", "step", "map", "filter", "fold",
   "reduce", "while", "linrec", "binrec", "primrec"}

Running == Fine(st) /\ prog # Nowhere
Done == prog = Nowhere /\ ip = 0
Ends == ip >= Len(prog)
Item == prog[ip + 1]
At(w) == Running /\ ~Ends /\ Item = <<"word", w>>

Goto(p, i) == prog' = p /\ ip' = i

\* Go on with A when s is sound; else the exception leaves _execute.
Then(s, A) == IF Fine(s) THEN A ELSE st' = s /\ UNCHANGED <<cs, prog, ip>>

\* _push_frame on top of the frames under, push_fragment, and run body.
Start(under, f, s, body) ==
  IF Len(under) >= CsDepth
  THEN st' = Raise(s, "call stack overflow") /\ UNCHANGED <<cs, prog, ip>>
  ELSE /\ st' = PushFragment(s)
       /\ cs' = Append(under, f)
       /\ Goto(body, 0)

\* Mutant of Again: no fragment for the next round.
AgainUnfragmented(f, s, body) ==
  /\ st' = s
  /\ cs' = Append(Below(Ptr - 1), f)
  /\ Goto(body, 0)

\* The innermost frame stays, as f, and runs body.
Again(f, s, body) ==
  /\ st' = PushFragment(s)
  /\ cs' = Append(Below(Ptr - 1), f)
  /\ Goto(body, 0)

\* Go on in p with the frames under.
Leave(under, s, p, i) ==
  /\ st' = s
  /\ cs' = under
  /\ Goto(p, i)

\* _enter for a call: an empty body is not entered.
Enter(under, s, body, p, i) ==
  IF body = <<>> THEN Leave(under, s, p, i)
  ELSE Start(under, Returning(Frame("ret"), p, i), s, body)

\* _enter_ret: a call in tail position takes no frame.
EnterRet(under, s, body, p, i) ==
  IF i = Len(p) /\ body # <<>> THEN Leave(under, s, body, 0)
  ELSE Enter(under, s, body, p, i)

-----------------------------------------------------------------------------
Init ==
  /\ source \in Programs
  /\ st \in {Naive, Fragments}
  /\ arrays = <<>>
  /\ cs = <<>>
  /\ prog = source /\ ip = 0
  /\ dug = FALSE

\* Snapshots that will be restored; snap holds one or none.
Guarding(f) == f.snap # <<>> /\ (f.kind = "ifte" \/ f.n = 0)
Snaps(frames) == {frames[k].snap[1] : k \in {j \in DOMAIN frames : Guarding(frames[j])}}

\* unstack writes the whole stack anew; any other word goes below a snapshot's
\* parked cells by popping them.
Digs ==
  /\ ~IsNaive(st)
  /\ \E snap \in Snaps(cs) : st'.sp < snap.sp \/ At("unstack")

Watched == dug' = (dug \/ Digs) /\ UNCHANGED source

Literal ==
  /\ Running /\ ~Ends /\ Item[1] # "word"
  /\ st' = Push(st, IF Item[1] = "bool" THEN Bool(Item[2]) ELSE Item)
  /\ ip' = ip + 1
  /\ UNCHANGED <<arrays, cs, prog>> /\ Watched

Prim ==
  /\ Running /\ ~Ends /\ Item[1] = "word" /\ Item[2] \in PrimitiveWords
  /\ LET m == Primitive(Item[2], Memory) IN st' = m.st /\ arrays' = m.arrays
  /\ ip' = ip + 1
  /\ UNCHANGED <<cs, prog>> /\ Watched

\* A definition with the name of a primitive or a combinator is never called.
CallWord ==
  /\ Running /\ ~Ends /\ Item[1] = "word"
  /\ Item[2] \in DOMAIN Dict \ (PrimitiveWords \cup Combinators)
  /\ EnterRet(cs, st, Dict[Item[2]], prog, ip + 1)
  /\ UNCHANGED arrays /\ Watched

-----------------------------------------------------------------------------
Quot(s) == Top(s)[2]
Popped(s, n) ==
  LET left[k \in 0..n] == IF k = 0 THEN s ELSE Pop(left[k - 1]) IN left[n]
PoppedQuots(n) ==
  LET left[k \in 0..n] == IF k = 0 THEN st ELSE PopQuot(left[k - 1]) IN left[n]
QuotAt(n) == Quot(Popped(st, n))

CombI ==
  /\ At("call")
  /\ LET s == PopQuot(st) IN Then(s, EnterRet(cs, s, QuotAt(0), prog, ip + 1))
  /\ UNCHANGED arrays /\ Watched

\* x calls the quotation that stays on the stack, never as a tail call.
CombX ==
  /\ At("x")
  /\ LET s == PopQuot(st)
         v == Top(st)
     IN  Then(Push(s, v), Enter(cs, Push(s, v), Quot(st), prog, ip + 1))
  /\ UNCHANGED arrays /\ Watched

CombDip ==
  /\ At("dip")
  /\ LET s == PopQuot(st)
     IN  Then(Pop(s), Start(cs, [Frame("dip") EXCEPT !.val = Top(s)], Pop(s), QuotAt(0)))
  /\ UNCHANGED arrays /\ Watched

\* A quotation under the two branches is a condition; else it is the flag.
CombIfte ==
  /\ At("if")
  /\ LET s     == PoppedQuots(2)
         cond  == ~TopIsInt(s) /\ IsQuot(Top(s))
         under == Need(s, 1)
     IN  Then(under,
           IF cond
           THEN Start(cs, [Frame("ifte") EXCEPT !.body = QuotAt(1), !.body2 = QuotAt(0),
                                                 !.snap = <<SnapshotCache(Pop(s))>>],
                      Pop(s), Quot(s))
           ELSE EnterRet(cs, Pop(s),
                         IF TopTruthy([Memory EXCEPT !.st = s]) THEN QuotAt(1) ELSE QuotAt(0),
                         prog, ip + 1))
  /\ UNCHANGED arrays /\ Watched

\* branch has its flag above the two quotations.
CombBranch ==
  /\ At("branch")
  /\ LET s == PopQuot(PopQuot(Pop(st)))
     IN  Then(s, EnterRet(cs, s, IF TopTruthy(Memory) THEN QuotAt(2) ELSE QuotAt(1),
                          prog, ip + 1))
  /\ UNCHANGED arrays /\ Watched

CombTimes ==
  /\ At("times")
  /\ LET s == PopInt(PopQuot(st))
         n == Popped(st, 1)
     IN  Then(s, CASE Top(n)[2] < 0 -> st' = Raise(s, "non-negative") /\ UNCHANGED <<cs, prog, ip>>
                   [] Top(n)[2] = 0 -> Leave(cs, s, prog, ip + 1)
                   [] OTHER -> Start(cs, [Frame("times") EXCEPT !.body = QuotAt(0),
                                                                 !.n = Top(n)[2]],
                                     s, QuotAt(0)))
  /\ UNCHANGED arrays /\ Watched

\* step, map and filter: the body for each element of the list under it.
OverList(kind, s, vs, body) ==
  IF vs = <<>>
  THEN Leave(cs, IF kind = "step" THEN s ELSE Push(s, ListV(<<>>)), prog, ip + 1)
  ELSE Start(cs, [Frame(kind) EXCEPT !.body = body, !.list = vs,
                                   !.val = IF kind = "filter" THEN Head(vs) ELSE @],
             Push(s, Head(vs)), body)

CombEach ==
  /\ \E kind \in {"step", "map", "filter"} :
       /\ At(kind)
       /\ LET s == PopList(PopQuot(st))
          IN  Then(s, OverList(kind, s, Top(Popped(st, 1))[2], QuotAt(0)))
  /\ UNCHANGED arrays /\ Watched

\* fold and reduce differ in the order of their arguments.
FoldStart(s, acc, vs, body) ==
  IF vs = <<>> THEN Leave(cs, Push(s, acc), prog, ip + 1)
  ELSE Start(cs, [Frame("fold") EXCEPT !.body = body, !.list = vs],
             Push(Push(s, acc), Head(vs)), body)

CombFold ==
  /\ At("fold")
  /\ LET s   == Pop(PopQuot(Pop(st)))
         lst == Top(st)
         s1  == IF IsList(lst) THEN s ELSE Raise(s, "expected list")
     IN  Then(s1, FoldStart(s, Top(Popped(st, 2)), lst[2], QuotAt(1)))
  /\ UNCHANGED arrays /\ Watched

CombReduce ==
  /\ At("reduce")
  /\ LET s  == PopList(Pop(PopQuot(st)))
     IN  Then(s, FoldStart(s, Top(Popped(st, 1)), Top(Popped(st, 2))[2], QuotAt(0)))
  /\ UNCHANGED arrays /\ Watched

CombWhile ==
  /\ At("while")
  /\ LET s == PoppedQuots(2)
     IN  Then(s, Start(cs, [Frame("while") EXCEPT !.body = QuotAt(0), !.body2 = QuotAt(1)],
                       s, QuotAt(1)))
  /\ UNCHANGED arrays /\ Watched

\* _linrec_begin and _binrec_begin, on top of the frames under
Recurse(under, f, s) ==
  Start(under, [f EXCEPT !.snap = <<SnapshotCache(s)>>, !.n = 0, !.val = None, !.val2 = None],
        s, f.body)

CombRec ==
  /\ \E kind \in {"linrec", "binrec"} :
       /\ At(kind)
       /\ LET s == PoppedQuots(4)
          IN  Then(s, Recurse(cs, [Frame(kind) EXCEPT !.body = QuotAt(3), !.body2 = QuotAt(2),
                                                  !.body3 = QuotAt(1), !.body4 = QuotAt(0)],
                              s))
  /\ UNCHANGED arrays /\ Watched

\* The n calls of _primrec_begin down to zero, which leave n, .., 1 on the stack.
CombPrimrec ==
  /\ At("primrec")
  /\ LET s  == PopInt(PoppedQuots(2))
         n  == Top(Popped(st, 2))[2]
         counted[k \in 0..n] ==
           IF k = 0 THEN s
           ELSE Pop(PushInt(PushInt(counted[k - 1], n - k + 1), n - k))
         place(k) == IF k = 1 THEN <<prog, ip + 1>>
                     ELSE <<Nowhere, IP_RESUME_PRIMREC - (Ptr + k - 2)>>
         frame(k) == [Returning(Frame("primrec"), place(k)[1], place(k)[2])
                        EXCEPT !.body = QuotAt(1), !.body2 = QuotAt(0)]
         frames == [k \in 1..n |-> frame(k)]
     IN  Then(s, IF n \notin 0..(CsDepth - Ptr)
                 THEN /\ st' = Raise(s, "call stack overflow")
                      /\ UNCHANGED <<cs, prog, ip>>
                 ELSE Then(counted[n],
                           Enter(cs \o frames, counted[n], QuotAt(1),
                                 place(n + 1)[1], place(n + 1)[2])))
  /\ UNCHANGED arrays /\ Watched

\* body: a word's program as a quotation.  (For a primitive it makes a quotation
\* of None, which cannot be run; that case is left out.)
Body ==
  /\ At("body")
  /\ LET s == Expect(st, LAMBDA v : v[1] = "symbol", "expected symbol")
         w == Top(st)[2]
     IN  st' = IF ~Fine(s) THEN s
               ELSE IF w \in DOMAIN Dict THEN Push(s, QuotV(Dict[w]))
               ELSE Raise(s, "unknown word")
  /\ ip' = ip + 1
  /\ UNCHANGED <<arrays, cs, prog>> /\ Watched

-----------------------------------------------------------------------------
\* _on_return, by the kind of the innermost frame; the fragment is committed
\* first.
Returns(kind) == Running /\ Ends /\ cs # <<>> /\ Innermost.kind = kind
Committed == CommitFragment(st)
Outer == Below(Ptr - 1)
Back(s) == Leave(Outer, s, Innermost.prog, Innermost.ip)

ReturnTop ==
  /\ Running /\ Ends /\ cs = <<>>
  /\ Goto(Nowhere, 0)
  /\ UNCHANGED <<st, arrays, cs>> /\ Watched

ReturnRet ==
  /\ Returns("ret")
  /\ Then(Committed, Back(Committed))
  /\ UNCHANGED arrays /\ Watched

ReturnTimes ==
  /\ Returns("times")
  /\ LET f == [Innermost EXCEPT !.i = @ + 1]
     IN  Then(Committed, IF f.i < f.n THEN Again(f, Committed, f.body) ELSE Back(Committed))
  /\ UNCHANGED arrays /\ Watched

ReturnDip ==
  /\ Returns("dip")
  /\ LET s == Push(Committed, Innermost.val) IN Then(s, Back(s))
  /\ UNCHANGED arrays /\ Watched

Flag(s) == TopTruthy([Memory EXCEPT !.st = s])

ReturnIfte ==
  /\ Returns("ifte")
  /\ LET f == Innermost
         s == RestoreCache(Pop(Committed), f.snap[1])
     IN  Then(s, EnterRet(Outer, s, IF Flag(Committed) THEN f.body ELSE f.body2,
                          f.prog, f.ip))
  /\ UNCHANGED arrays /\ Watched

\* n = 0 while the condition runs, 1 while the body does.
ReturnWhile ==
  /\ Returns("while")
  /\ LET f == Innermost
         s == IF f.n = 0 THEN Pop(Committed) ELSE Committed
     IN  Then(s, IF f.n = 1 THEN Again([f EXCEPT !.n = 0], s, f.body2)
                 ELSE IF Flag(Committed) THEN Again([f EXCEPT !.n = 1], s, f.body)
                 ELSE Back(s))
  /\ UNCHANGED arrays /\ Watched

\* The next element of the list, or the end with what has been gathered.
NextElement(f, pushed, last) ==
  LET rest == Tail(f.list)
  IN  IF rest = <<>> THEN Back(last)
      ELSE Again([f EXCEPT !.list = rest,
                           !.val = IF f.kind = "filter" THEN Head(rest) ELSE @],
                 Push(pushed, Head(rest)), f.body)

ReturnStep ==
  /\ Returns("step")
  /\ Then(Committed, NextElement(Innermost, Committed, Committed))
  /\ UNCHANGED arrays /\ Watched

ReturnMap ==
  /\ Returns("map")
  /\ LET s == Pop(Committed)
         f == [Innermost EXCEPT !.out = Append(@, Top(Committed))]
     IN  Then(s, NextElement(f, s, Push(s, ListV(f.out))))
  /\ UNCHANGED arrays /\ Watched

\* Mutant of ReturnFilter: the list moves on only past an element that is kept.
ReturnFilterStuck ==
  /\ Returns("filter")
  /\ LET s == Pop(Committed)
         f == [Innermost EXCEPT !.out = Append(@, Innermost.val)]
     IN  Then(s, IF Flag(Committed) THEN NextElement(f, s, Push(s, ListV(f.out)))
                 ELSE Again(Innermost, Push(s, Innermost.val), Innermost.body))
  /\ UNCHANGED arrays /\ Watched

ReturnFilter ==
  /\ Returns("filter")
  /\ LET s == Pop(Committed)
         f == [Innermost EXCEPT !.out = IF Flag(Committed) THEN Append(@, Innermost.val)
                                        ELSE @]
     IN  Then(s, NextElement(f, s, Push(s, ListV(f.out))))
  /\ UNCHANGED arrays /\ Watched

ReturnFold ==
  /\ Returns("fold")
  /\ LET s == Push(Pop(Committed), Top(Committed))
     IN  Then(s, NextElement(Innermost, s, s))
  /\ UNCHANGED arrays /\ Watched

\* The child of linrec or binrec comes back to frame k.
ChildOf(k, resume) == Returning(cs[k], Nowhere, resume - (k - 1))

\* Both begin alike: the condition decides, on the stack as it was.
Decided(f, s) ==
  IF Flag(Committed) THEN Enter(Outer, s, f.body2, f.prog, f.ip)
  ELSE Again([f EXCEPT !.n = 1], s, f.body3)

\* The third program is over: recurse.
ReturnLinrec ==
  /\ Returns("linrec")
  /\ LET f == Innermost
         s == RestoreCache(Pop(Committed), f.snap[1])
     IN  IF f.n = 0 THEN Then(s, Decided(f, s))
         ELSE Then(Committed, Recurse([cs EXCEPT ![Ptr].n = 2],
                                      ChildOf(Ptr, IP_RESUME_LINREC), Committed))
  /\ UNCHANGED arrays /\ Watched

\* binrec saves the two values its third program has left, and recurses on the
\* upper one first.
ReturnBinrec ==
  /\ Returns("binrec")
  /\ LET f == Innermost
         s == RestoreCache(Pop(Committed), f.snap[1])
         s2 == Push(Popped(Committed, 2), Top(Committed))
     IN  IF f.n = 0 THEN Then(s, Decided(f, s))
         ELSE Then(s2, Recurse([cs EXCEPT ![Ptr].n = 2, ![Ptr].val = Top(Committed),
                                          ![Ptr].val2 = Top(Pop(Committed))],
                               ChildOf(Ptr, IP_RESUME_BINREC), s2))
  /\ UNCHANGED arrays /\ Watched

\* _resume_ret: which parent, from how far the place lies below its base.
Resuming(base, next) ==
  /\ Fine(st) /\ prog = Nowhere /\ ip # 0
  /\ ip <= base /\ ip > next
Parent(base) == (base - ip) + 1

ResumePrimrec ==
  /\ Resuming(IP_RESUME_PRIMREC, IP_RESUME_LINREC)
  /\ LET k == Parent(IP_RESUME_PRIMREC)
     IN  Enter(Below(k - 1), st, cs[k].body2, cs[k].prog, cs[k].ip)
  /\ UNCHANGED arrays /\ Watched

ResumeLinrec ==
  /\ Resuming(IP_RESUME_LINREC, IP_RESUME_BINREC)
  /\ LET k == Parent(IP_RESUME_LINREC)
     IN  Enter(Below(k - 1), st, cs[k].body4, cs[k].prog, cs[k].ip)
  /\ UNCHANGED arrays /\ Watched

\* The first child is back: on with the second, on the lower value.
ResumeBinrecFirst ==
  /\ Resuming(IP_RESUME_BINREC, 2 * IP_RESUME_BINREC)
  /\ LET k == Parent(IP_RESUME_BINREC)
         s == Push(Pop(st), cs[k].val2)
     IN  /\ cs[k].n = 2
         /\ Then(s, Recurse([cs EXCEPT ![k].n = 3, ![k].val = Top(st)],
                            ChildOf(k, IP_RESUME_BINREC), s))
  /\ UNCHANGED arrays /\ Watched

\* Both are: their results, the first one's below, to the fourth program.
ResumeBinrecSecond ==
  /\ Resuming(IP_RESUME_BINREC, 2 * IP_RESUME_BINREC)
  /\ LET k == Parent(IP_RESUME_BINREC)
         s == Push(Push(Pop(st), cs[k].val), Top(st))
     IN  /\ cs[k].n = 3
         /\ Then(s, Enter(Below(k - 1), s, cs[k].body4, cs[k].prog, cs[k].ip))
  /\ UNCHANGED arrays /\ Watched

-----------------------------------------------------------------------------
Step ==
  \/ Literal \/ Prim \/ CallWord \/ Body
  \/ CombI \/ CombX \/ CombDip \/ CombIfte \/ CombBranch \/ CombTimes \/ CombEach
  \/ CombFold \/ CombReduce \/ CombWhile \/ CombRec \/ CombPrimrec
  \/ ReturnTop \/ ReturnRet \/ ReturnTimes \/ ReturnDip \/ ReturnIfte \/ ReturnWhile
  \/ ReturnStep \/ ReturnMap \/ ReturnFilter \/ ReturnFold
  \/ ReturnLinrec \/ ReturnBinrec
  \/ ResumePrimrec \/ ResumeLinrec \/ ResumeBinrecFirst \/ ResumeBinrecSecond

\* An unknown word, like every FactorError, ends the run.
Unknown ==
  /\ Running /\ ~Ends /\ Item[1] = "word"
  /\ Item[2] \notin PrimitiveWords \cup DOMAIN Dict \cup Combinators
  /\ st' = Raise(st, "unknown word")
  /\ UNCHANGED <<arrays, cs, prog, ip>> /\ Watched

Over == Done \/ ~Fine(st)

Next ==
  \/ Step
  \/ Unknown
  \/ Over /\ UNCHANGED vars

Spec == Init /\ [][Next]_vars
\* Weak fairness of the loop: a run that is not over always has a step.
FairSpec == Spec /\ ([]<>Over \/ []<><<Next>>_vars)

-----------------------------------------------------------------------------
\* The state the fields and locals of Interpreter can be in: pointers inside
\* their arrays, ip inside its program while there is one, and every cell of the
\* cache that is an integer without an object.
TypeOK ==
  /\ Len(cs) <= CsDepth
  /\ prog = Nowhere \/ ip \in 0..Len(prog)
  /\ ~IsNaive(st) =>
       /\ st.d \in 0..ActiveMax
       /\ st.sp \in 0..SpillSize
       /\ st.frag \in Nat
       /\ \A c \in {st.t0, st.t1} \cup {st.frame[k] : k \in DOMAIN st.frame} :
            c.t = "int" => c.o = None

\* Whose fragment is open: the frames that run a program of their own now, not
\* those that wait for a child of theirs to resume them.
Open(f) == f.kind # "primrec" /\ (f.kind \in {"linrec", "binrec"} => f.n <= 1)

\* push_fragment and pop_fragment_commit are paired across every combinator,
\* early exits, tail calls and restored snapshots included: frag_ptr is the
\* number of frames running a program.
FragmentsPaired ==
  Fine(st) /\ ~IsNaive(st) =>
    st.frag = Cardinality({k \in DOMAIN cs : Open(cs[k])})
=============================================================================
