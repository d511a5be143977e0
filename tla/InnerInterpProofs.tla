------------------------- MODULE InnerInterpProofs -------------------------
(***************************************************************************)
(* Proofs about InnerInterp.  No handler looks at more than one of the     *)
(* three structures that unwind together, so each invariant of the runs    *)
(* needs what ties them to each other: every return address, epilogue and  *)
(* HALT on cs belongs to one activation, frame or portal, and the marks    *)
(* they keep tell in which order they were begun.                          *)
(***************************************************************************)
EXTENDS InnerInterp, FiniteSetTheorems, SequenceTheorems, TLAPS

Loop == [limit : Int, counter : Int]
Entries == Place \cup {Halt, Epilogue}
Portal ==
  [kind : {"line", "execute", "evaluate", "catch"}, caller : Place,
   saved_base : 0..StackSize, base : 0..StackSize, li : Int,
   lc_depth : 0..LoopSize, rs_ptr : 0..RSize, catch_ptr : 0..CatchDepth]
ActType ==
  [ret : Place \cup {Idle}, kind : {"call", "run", "catch"}, loops : Seq(Loop),
   rs : 0..RSize, begun : BOOLEAN, mark : Nat]

\* TypeOK, with the types of what it leaves untyped.
Shape ==
  /\ Here \in Place \cup {Epilogue, Entry("epilogue", 1)}
  /\ exc \in Code \cup {AbortCode, Quit, None}
  /\ exc # None => thread # "epilogue"
  /\ cs \in Seq(Entries) /\ Len(cs) <= StackSize
  /\ cs_base \in 0..StackSize
  /\ frames \in Seq(Frame) /\ Len(frames) <= CatchDepth
  /\ portals \in Seq(Portal)
  /\ li \in Int /\ ll \in Int
  /\ lc_depth \in 0..LoopSize
  /\ lc_is \in [0..(LoopSize - 1) -> Int] /\ lc_ls \in [0..(LoopSize - 1) -> Int]
  /\ rs_ptr \in 0..RSize
  /\ acts \in Seq(ActType)

\* An uncaught THROW has ended the run.
Ended == portals = <<>> /\ exc # None

\* Between two lines nothing is unfinished.
IdleEmpty ==
  portals = <<>> /\ exc = None => cs = <<>> /\ frames = <<>> /\ acts = <<>>

\* A portal's HALT is on cs; the frames it began with are those below it.
PortalAt(j) ==
  LET p == portals[j] IN
    /\ p.base < Len(cs) /\ cs[p.base + 1] = Halt
    /\ p.catch_ptr <= Len(frames)
    /\ \A i \in 1..Len(frames) : i <= p.catch_ptr <=> frames[i].control < p.base
    /\ p.kind = "line" <=> j = 1
    /\ IF j = 1 THEN p.base = 0 ELSE p.saved_base = portals[j - 1].base

\* A HALT without a portal is one an exception has left behind it, and above
\* every frame that a THROW may still land in.
HaltAt(q) ==
  \/ \E j \in 1..Len(portals) : portals[j].base + 1 = q
  \/ /\ exc # None
     /\ portals # <<>> => cs_base + 1 < q
     /\ exc # Quit => \A i \in 1..Len(frames) : frames[i].control + 1 < q

PortalsSound ==
  /\ \A j \in 1..Len(portals) : PortalAt(j)
  /\ \A i, j \in 1..Len(portals) : i < j => portals[i].base < portals[j].base
  /\ portals # <<>> => cs_base = portals[Len(portals)].base
  /\ \A q \in 1..Len(cs) : cs[q] = Halt => HaltAt(q)

\* A frame's return address and epilogue are on cs, but that its epilogue may
\* be running.
FrameAt(i) ==
  LET c == frames[i].control IN
    /\ c < Len(cs)
    /\ cs[c + 1] = Entry(frames[i].thread, frames[i].ip)
    /\ IF Here = Epilogue /\ i = Len(frames)
       THEN c + 1 = Len(cs)
       ELSE c + 1 < Len(cs) /\ cs[c + 2] = Epilogue

FramesSound ==
  /\ \A i \in 1..Len(frames) : FrameAt(i)
  /\ \A i, j \in 1..Len(frames) : i < j => frames[i].control + 1 < frames[j].control
  /\ \A q \in 1..Len(cs) : cs[q] = Epilogue =>
       \E i \in 1..Len(frames) : frames[i].control + 2 = q
  /\ thread = "epilogue" => cs # <<>> /\ cs[Len(cs)] \in Place
  /\ Here = Epilogue => frames # <<>>

\* Every entry of cs but an epilogue is one activation's, in their order; the
\* epilogue runs when its activation has ended.
MarksSound ==
  ~Ended =>
    /\ \A k \in 1..Len(acts) :
         /\ acts[k].mark \in 1..Len(cs)
         /\ cs[acts[k].mark] # Epilogue
         /\ thread = "epilogue" => acts[k].mark # Len(cs)
    /\ \A j, k \in 1..Len(acts) : j < k => acts[j].mark < acts[k].mark
    /\ \A q \in 1..Len(cs) :
         \/ cs[q] = Epilogue
         \/ \E k \in 1..Len(acts) : acts[k].mark = q
         \/ thread = "epilogue" /\ q = Len(cs)

\* What a frame or portal has saved is what the activation began with.
Saved(h, a) ==
  /\ Len(a.loops) = h.lc_depth
  /\ a.rs = h.rs_ptr
  /\ h.lc_depth > 0 => a.loops[h.lc_depth].counter = h.li

ActAt(k) ==
  /\ \A i \in 1..Len(frames) : acts[k].mark = frames[i].control + 1 =>
       acts[k].kind = "catch" /\ Saved(frames[i], acts[k])
  /\ \A j \in 1..Len(portals) : acts[k].mark = portals[j].base + 1 =>
       /\ acts[k].kind = (IF portals[j].kind = "catch" THEN "catch" ELSE "run")
       /\ acts[k].ret = (IF j = 1 THEN Idle ELSE portals[j].caller)
       /\ Saved(portals[j], acts[k])
  /\ cs[acts[k].mark] # Halt => acts[k].ret = cs[acts[k].mark]
  /\ exc # Quit /\ acts[k].kind = "catch" =>
       \/ \E i \in 1..Len(frames) : acts[k].mark = frames[i].control + 1
       \/ \E j \in 1..Len(portals) : acts[k].mark = portals[j].base + 1

\* Every CATCH has its frame or its portal, with what its activation began with.
HandlersSound == ~Ended => \A k \in 1..Len(acts) : ActAt(k)

\* An activation ends no loop but its own.
LoopsNest ==
  ~Ended =>
    /\ \A j, k \in 1..Len(acts) : j < k => Len(acts[j].loops) <= Len(acts[k].loops)
    /\ exc = None => \A k \in 1..Len(acts) : Len(acts[k].loops) <= lc_depth

\* Text under EVALUATE or INCLUDED raises no Abort.
AbortAtTop ==
  exc = Quit => \A j \in 1..Len(portals) : portals[j].kind # "evaluate"

IInv ==
  /\ Shape /\ IdleEmpty /\ PortalsSound /\ FramesSound /\ MarksSound
  /\ HandlersSound /\ LoopsNest /\ AbortAtTop

-----------------------------------------------------------------------------
(* Sequences, as the steps change them.                                    *)

\* An entry below another, counted from one.
LEMMA NextBelow ==
  ASSUME NEW a \in Nat, NEW b \in Nat, NEW c \in Int, a < b, c = b + 1 \/ b + 1 < c
  PROVE  a + 1 < c
OBVIOUS

\* t is s with e on top; t is what is left of s below the mark m.
Grown(s, t, e) ==
  /\ Len(t) = Len(s) + 1 /\ t[Len(s) + 1] = e
  /\ \A k \in 1..Len(s) : t[k] = s[k]
CutTo(s, t, m) == Len(t) = m /\ \A k \in 1..m : t[k] = s[k]

\* What Append, SubSeq and Front do, entry by entry.
LEMMA AppendGrows ==
  ASSUME NEW S, NEW s \in Seq(S), NEW e \in S
  PROVE  Append(s, e) \in Seq(S) /\ Grown(s, Append(s, e), e)
BY DEF Grown

\* What SubSeq leaves is cut at the mark.
LEMMA SubSeqCuts ==
  ASSUME NEW S, NEW s \in Seq(S), NEW m \in 0..Len(s)
  PROVE  SubSeq(s, 1, m) \in Seq(S) /\ CutTo(s, SubSeq(s, 1, m), m)
BY DEF CutTo

\* Front cuts off the top entry.
LEMMA FrontCuts ==
  ASSUME NEW S, NEW s \in Seq(S), s # <<>>
  PROVE  /\ Front(s) \in Seq(S) /\ CutTo(s, Front(s), Len(s) - 1)
         /\ Len(s) \in Nat \ {0} /\ Last(s) = s[Len(s)] /\ Last(s) \in S
<1>1. Len(s) \in Nat \ {0} /\ Last(s) = s[Len(s)]
  BY EmptySeq DEF Last
<1>2. Len(s) - 1 \in 0..Len(s) /\ Len(s) \in 1..Len(s)
  BY <1>1
<1>3. s[Len(s)] \in S
  BY <1>2, ElementOfSeq
<1> QED BY <1>1, <1>2, <1>3, SubSeqCuts DEF Front

\* A sequence whose entries are rebuilt one by one.
LEMMA MappedIsSeq ==
  ASSUME NEW S, NEW n \in Nat, NEW f, f = [k \in 1..n |-> f[k]],
         \A k \in 1..n : f[k] \in S
  PROVE  f \in Seq(S) /\ Len(f) = n
<1>1. f \in [1..n -> S]
  OBVIOUS
<1>2. f \in Seq(S)
  BY <1>1, SeqDef
<1>3. Len(f) \in Nat /\ 1..Len(f) = 1..n
  BY <1>1, <1>2, LenProperties
<1>4. \A m \in Nat : 1..m = 1..n => m = n
  <2> TAKE m \in Nat
  <2>1. ASSUME 1..m = 1..n, m < n PROVE FALSE
    <3>1. n \in 1..n /\ n \notin 1..m
      BY <2>1
    <3> QED BY <3>1, <2>1
  <2>2. ASSUME 1..m = 1..n, n < m PROVE FALSE
    <3>1. m \in 1..m /\ m \notin 1..n
      BY <2>2
    <3> QED BY <3>1, <2>2
  <2> QED BY <2>1, <2>2
<1> QED BY <1>2, <1>3, <1>4

\* The distinct words that stand for places outside a definition.
LEMMA Special ==
  /\ Halt # Epilogue /\ Halt \notin Place /\ Epilogue \notin Place
  /\ Entry("epilogue", 1) # Epilogue /\ Entry("epilogue", 1) \notin Place
  /\ \A t, i : Entry(t, i).thread = t /\ Entry(t, i).ip = i
<1>1. \A t, i : Entry(t, i).thread = t /\ Entry(t, i).ip = i
  BY DEF Entry
<1>2. Halt.thread = "halt" /\ Epilogue.thread = "epilogue" /\ Epilogue.ip = 0
  BY <1>1 DEF Halt, Epilogue
<1>3. \A p \in Place : p.thread # "halt" /\ p.thread # "epilogue"
  BY ParameterAssumption DEF Place
<1> QED BY <1>1, <1>2, <1>3

-----------------------------------------------------------------------------
(* What the invariant says of a machine that runs.                         *)

\* The threads execute_thread may be in.
LEMMA ShapeParts ==
  ASSUME Shape
  PROVE  /\ thread \in Word \cup {"now", "epilogue"} /\ ip \in 0..CodeLen
         /\ thread # "epilogue" => Here \in Place
         /\ thread = "epilogue" => ip \in {0, 1}
         /\ Here = Epilogue <=> thread = "epilogue" /\ ip = 0
<1>1. Here.thread = thread /\ Here.ip = ip
  BY Special DEF Here
<1>2. /\ \A p \in Place : p.thread \in Word \cup {"now"} /\ p.ip \in 0..CodeLen
      /\ Epilogue.thread = "epilogue" /\ Epilogue.ip = 0
      /\ Entry("epilogue", 1).thread = "epilogue" /\ Entry("epilogue", 1).ip = 1
  BY Special DEF Place, Epilogue
<1>3. CodeLen \in Nat /\ 1 \in 0..CodeLen /\ 0 \in 0..CodeLen /\ "epilogue" \notin Word
  BY ParameterAssumption
<1>4. Here \in Place \cup {Epilogue, Entry("epilogue", 1)}
  BY DEF Shape
<1>5. thread = "epilogue" /\ ip = 0 => Here = Epilogue
  BY DEF Here, Epilogue
<1> QED BY <1>1, <1>2, <1>3, <1>4, <1>5

\* A running interpreter has an activation, and its loops are its own.
LEMMA RunningHasActivation ==
  ASSUME IInv, portals # <<>>
  PROVE  /\ Len(cs) \in Nat \ {0} /\ Len(acts) \in Nat \ {0}
         /\ Len(portals) \in Nat \ {0}
         /\ Last(acts) = acts[Len(acts)]
         /\ Len(Last(acts).loops) \in Nat
         /\ exc = None => Own \in Nat
<1>1. /\ cs \in Seq(Entries) /\ portals \in Seq(Portal) /\ acts \in Seq(ActType)
      /\ lc_depth \in Nat
  BY ParameterAssumption DEF IInv, Shape
<1>2. Len(portals) \in Nat \ {0} /\ Len(cs) \in Nat /\ Len(acts) \in Nat
  BY <1>1, EmptySeq, LenProperties
<1>3. 0 < Len(cs) /\ cs[1] = Halt
  BY <1>1, <1>2 DEF IInv, PortalsSound, PortalAt
<1>4. 1 \in 1..Len(cs) /\ (cs[Len(cs)] \in Place => 1 # Len(cs))
  BY <1>2, <1>3, Special
<1>5. Len(acts) # 0
  BY <1>2, <1>3, <1>4, Special DEF IInv, MarksSound, FramesSound, Ended
<1>6. Last(acts) = acts[Len(acts)] /\ Len(acts) \in 1..Len(acts)
  BY <1>2, <1>5 DEF Last
<1>7. acts[Len(acts)] \in ActType
  BY <1>1, <1>6, ElementOfSeq
<1>8. acts[Len(acts)].loops \in Seq(Loop)
  BY <1>7 DEF ActType
<1>9. Len(Last(acts).loops) \in Nat
  BY <1>6, <1>8, LenProperties
<1>10. exc = None => Len(Last(acts).loops) <= lc_depth
  BY <1>6 DEF IInv, LoopsNest, Ended
<1> QED BY <1>1, <1>2, <1>3, <1>5, <1>6, <1>9, <1>10 DEF Own

\* Where the next instruction is, and where a call would return to.
LEMMA FetchPlaces ==
  ASSUME IInv, Fetch
  PROVE  /\ exc = None /\ portals # <<>>
         /\ thread \in Word \cup {"now"} /\ thread # "epilogue"
         /\ ip \in 0..CodeLen /\ ip + 1 \in 0..CodeLen
         /\ Here \in Place /\ After \in Place
         /\ Own \in Nat
<1>1. exc = None /\ portals # <<>> /\ Own \in Nat
  BY RunningHasActivation DEF Fetch, Running
<1>2. Shape
  BY DEF IInv
<1>3. thread \in Word \cup {"now"} /\ thread # "epilogue"
  BY ParameterAssumption DEF Fetch
<1>4. ip \in 0..CodeLen /\ Here \in Place
  BY <1>2, <1>3, ShapeParts
<1>5. ip + 1 \in 0..CodeLen
  BY <1>1, <1>4, ParameterAssumption DEF Fetch
<1>6. After \in Place
  BY <1>3, <1>5 DEF After, Entry, Place
<1> QED BY <1>1, <1>3, <1>4, <1>5, <1>6

\* The loops a program sees are a sequence of them.
LEMMA LoopsTyped == ASSUME Shape PROVE Loops \in Seq(Loop) /\ Len(Loops) = lc_depth
<1>1. /\ lc_depth \in Nat /\ lc_depth <= LoopSize /\ LoopSize \in Nat /\ li \in Int /\ ll \in Int
      /\ lc_is \in [0..(LoopSize - 1) -> Int] /\ lc_ls \in [0..(LoopSize - 1) -> Int]
  BY ParameterAssumption DEF Shape
<1>2. ASSUME NEW k \in 1..lc_depth PROVE Loops[k] \in Loop
  <2>1. Loops[k] = IF k = lc_depth THEN [limit |-> ll, counter |-> li]
                   ELSE [limit |-> lc_ls[k - 1], counter |-> lc_is[k - 1]]
    BY DEF Loops
  <2>2. k - 1 \in 0..(LoopSize - 1)
    BY <1>1
  <2>3. lc_ls[k - 1] \in Int /\ lc_is[k - 1] \in Int
    BY <1>1, <2>2
  <2> QED BY <1>1, <2>1, <2>3 DEF Loop
<1>3. Loops = [k \in 1..lc_depth |-> Loops[k]]
  BY DEF Loops
<1> QED BY <1>1, <1>2, <1>3, MappedIsSeq

\* An activation begun here is well-formed.
LEMMA ActivationTyped ==
  ASSUME Shape, NEW ret \in Place \cup {Idle}, NEW kind \in {"call", "run", "catch"}
  PROVE  /\ Activation(ret, kind) \in ActType
         /\ Activation(ret, kind).ret = ret /\ Activation(ret, kind).kind = kind
         /\ Activation(ret, kind).loops = Loops
         /\ Activation(ret, kind).rs = rs_ptr
         /\ Activation(ret, kind).begun = FALSE
         /\ Activation(ret, kind).mark = Len(cs) + 1
<1>1. rs_ptr \in 0..RSize /\ Len(cs) + 1 \in Nat
  BY LenProperties DEF Shape
<1> QED BY <1>1, LoopsTyped DEF Activation, ActType

-----------------------------------------------------------------------------
(* Steps within an activation.                                             *)

\* The activations are the same, but that a loop may have begun.
SameActs ==
  /\ acts' \in Seq(ActType) /\ Len(acts') = Len(acts)
  /\ \A k \in 1..Len(acts) :
       /\ acts'[k].ret = acts[k].ret /\ acts'[k].kind = acts[k].kind
       /\ acts'[k].loops = acts[k].loops /\ acts'[k].rs = acts[k].rs
       /\ acts'[k].mark = acts[k].mark

LoopsTypedNext ==
  /\ li' \in Int /\ ll' \in Int /\ lc_depth' \in 0..LoopSize
  /\ lc_is' \in [0..(LoopSize - 1) -> Int] /\ lc_ls' \in [0..(LoopSize - 1) -> Int]
  /\ rs_ptr' \in 0..RSize

\* A step that keeps the control stack, the frames and the portals, in a
\* definition or in a word typed or evaluated.
Quiet ==
  /\ exc = None /\ portals # <<>> /\ thread # "epilogue"
  /\ thread' \in Word \cup {"now"} /\ ip' \in 0..CodeLen
  /\ UNCHANGED callVars /\ SameActs /\ LoopsTypedNext
  /\ exc' \in Code \cup {AbortCode, Quit, None}
  /\ exc' = None => \A k \in 1..Len(acts) : Len(acts[k].loops) <= lc_depth'
  /\ exc' = Quit => AbortAtTop'

\* No activation began with more loops than are running.
LEMMA LoopsBelow ==
  ASSUME IInv, portals # <<>>, exc = None
  PROVE  \A k \in 1..Len(acts) :
           Len(acts[k].loops) \in Nat /\ Len(acts[k].loops) <= lc_depth - Own
<1> TAKE k \in 1..Len(acts)
<1>1. /\ Len(acts) \in Nat \ {0} /\ Last(acts) = acts[Len(acts)]
      /\ Len(Last(acts).loops) \in Nat /\ Own \in Nat
  BY RunningHasActivation
<1>2. acts[k] \in ActType
  BY ElementOfSeq DEF IInv, Shape
<1>3. Len(acts[k].loops) \in Nat
  BY <1>2, LenProperties DEF ActType
<1>4. lc_depth - Own = Len(Last(acts).loops)
  BY <1>1, ParameterAssumption DEF Own, IInv, Shape
<1>5. k = Len(acts) \/ (k < Len(acts) /\ Len(acts) \in 1..Len(acts))
  BY <1>1
<1>6. Len(acts[k].loops) <= Len(Last(acts).loops)
  BY <1>1, <1>3, <1>5 DEF IInv, LoopsNest, Ended
<1> QED BY <1>3, <1>4, <1>6

\* Nothing of the activations has changed.
LEMMA SameActsIfUnchanged == ASSUME IInv, UNCHANGED acts PROVE SameActs
BY DEF IInv, Shape, SameActs

\* The words that transfer nothing.
LEMMA StepIsQuiet == ASSUME IInv, Step PROVE Quiet
<1>1. /\ exc = None /\ portals # <<>> /\ thread \in Word \cup {"now"}
      /\ thread # "epilogue" /\ ip + 1 \in 0..CodeLen /\ Own \in Nat
  BY FetchPlaces DEF Step
<1>2. /\ UNCHANGED <<thread, exc, callVars, loopVars, acts>>
      /\ rs_ptr' \in 0..RSize
      /\ ip' = ip + 1 \/ ip' \in 0..(CodeLen - Own)
  BY DEF Step
<1>3. ip' \in 0..CodeLen
  BY <1>1, <1>2, ParameterAssumption
<1>4. LoopsTypedNext
  BY <1>2 DEF LoopsTypedNext, IInv, Shape, loopVars
<1>5. exc' = None /\ exc' # Quit
  BY <1>1, <1>2, ParameterAssumption
<1>6. \A k \in 1..Len(acts) : Len(acts[k].loops) <= lc_depth'
  BY <1>1, <1>2 DEF IInv, LoopsNest, loopVars, Ended
<1> QED BY <1>1, <1>2, <1>3, <1>4, <1>5, <1>6, SameActsIfUnchanged DEF Quiet

\* A tail call replaces the thread and nothing else.
LEMMA TailCallIsQuiet ==
  ASSUME IInv, NEW w \in Word, TailCall(w) PROVE Quiet
<1>1. exc = None /\ portals # <<>> /\ thread # "epilogue"
  BY FetchPlaces DEF TailCall
<1>2. /\ UNCHANGED <<exc, callVars, loopVars, rs_ptr, acts>>
      /\ thread' \in Word \cup {"now"} /\ ip' \in 0..CodeLen
  BY ParameterAssumption DEF TailCall
<1>3. LoopsTypedNext
  BY <1>2 DEF LoopsTypedNext, IInv, Shape, loopVars
<1>4. exc' = None /\ exc' # Quit
  BY <1>1, <1>2, ParameterAssumption
<1>5. \A k \in 1..Len(acts) : Len(acts[k].loops) <= lc_depth'
  BY <1>1, <1>2 DEF IInv, LoopsNest, loopVars, Ended
<1> QED BY <1>1, <1>2, <1>3, <1>4, <1>5, SameActsIfUnchanged DEF Quiet

\* The next word of a text takes over the portal of the last.
LEMMA NextWordIsQuiet == ASSUME IInv, NextWord PROVE Quiet
<1>1. /\ exc = None /\ portals # <<>> /\ thread # "epilogue"
      /\ UNCHANGED <<thread, exc, callVars, loopVars, rs_ptr, acts>>
      /\ thread' \in Word \cup {"now"} /\ ip' \in 0..CodeLen
  BY ParameterAssumption DEF NextWord, Running
<1>2. LoopsTypedNext
  BY <1>1 DEF LoopsTypedNext, IInv, Shape, loopVars
<1>3. exc' = None /\ exc' # Quit
  BY <1>1, ParameterAssumption
<1>4. \A k \in 1..Len(acts) : Len(acts[k].loops) <= lc_depth'
  BY <1>1 DEF IInv, LoopsNest, loopVars, Ended
<1> QED BY <1>1, <1>2, <1>3, <1>4, SameActsIfUnchanged DEF Quiet

\* DO marks every activation, and moves none.
LEMMA DoIsQuiet ==
  ASSUME IInv, NEW limit \in Limit, NEW counter \in Limit, Do(limit, counter)
  PROVE  Quiet
<1>1. /\ exc = None /\ portals # <<>> /\ thread \in Word /\ thread # "epilogue"
      /\ ip + 1 \in 0..CodeLen
  BY FetchPlaces DEF Do
<1>2. /\ lc_depth \in Nat /\ lc_depth < LoopSize /\ LoopSize \in Nat
      /\ li \in Int /\ ll \in Int /\ limit \in Int /\ counter \in Int
      /\ lc_is \in [0..(LoopSize - 1) -> Int] /\ lc_ls \in [0..(LoopSize - 1) -> Int]
      /\ acts \in Seq(ActType)
  <2>1. Shape /\ lc_depth < LoopSize
    BY DEF Do, IInv
  <2>2. limit \in Int /\ counter \in Int /\ LoopSize \in Nat
    BY ParameterAssumption
  <2> QED BY <2>1, <2>2 DEF Shape
<1>3. /\ ip' = ip + 1 /\ lc_depth' = lc_depth + 1 /\ li' = counter /\ ll' = limit
      /\ UNCHANGED <<thread, exc, callVars, rs_ptr>>
  BY DEF Do
<1>4. /\ lc_is' \in [0..(LoopSize - 1) -> Int] /\ lc_ls' \in [0..(LoopSize - 1) -> Int]
  BY <1>2 DEF Do
<1>5. LoopsTypedNext
  BY <1>2, <1>3, <1>4 DEF LoopsTypedNext, IInv, Shape
<1>6. SameActs
  <2>1. /\ acts' = [k \in 1..Len(acts) |-> [acts[k] EXCEPT !.begun = TRUE]]
        /\ Len(acts) \in Nat
    BY <1>2, LenProperties DEF Do
  <2>2. ASSUME NEW k \in 1..Len(acts)
        PROVE  /\ acts'[k] \in ActType
               /\ acts'[k].ret = acts[k].ret /\ acts'[k].kind = acts[k].kind
               /\ acts'[k].loops = acts[k].loops /\ acts'[k].rs = acts[k].rs
               /\ acts'[k].mark = acts[k].mark
    <3>1. acts[k] \in ActType
      BY <1>2, ElementOfSeq
    <3>2. acts'[k] = [acts[k] EXCEPT !.begun = TRUE]
      BY <2>1
    <3> QED BY <3>1, <3>2 DEF ActType
  <2>3. acts' = [k \in 1..Len(acts) |-> acts'[k]]
    BY <2>1
  <2>4. acts' \in Seq(ActType) /\ Len(acts') = Len(acts)
    BY <2>1, <2>2, <2>3, MappedIsSeq
  <2> QED BY <2>2, <2>4 DEF SameActs
<1>7. exc' = None /\ exc' # Quit
  BY <1>1, <1>3, ParameterAssumption
<1>8. \A k \in 1..Len(acts) : Len(acts[k].loops) <= lc_depth'
  <2> TAKE k \in 1..Len(acts)
  <2>1. Len(acts[k].loops) \in Nat /\ Len(acts[k].loops) <= lc_depth
    BY <1>1, LoopsBelow DEF IInv, LoopsNest, Ended
  <2> QED BY <1>2, <1>3, <2>1
<1> QED BY <1>1, <1>3, <1>5, <1>6, <1>7, <1>8 DEF Quiet

\* Where LOOP and the words that leave a loop may be.
LEMMA FetchLoopPlaces ==
  ASSUME IInv, FetchLoop
  PROVE  /\ exc = None /\ portals # <<>> /\ thread \in Word /\ thread # "epilogue"
         /\ ip \in 0..CodeLen /\ ip + 1 \in 0..CodeLen
         /\ Own \in Nat \ {0} /\ lc_depth \in Nat \ {0}
<1>1. /\ exc = None /\ portals # <<>> /\ thread \in Word /\ thread # "epilogue"
      /\ Own > 0 /\ ip < CodeLen
  BY ParameterAssumption DEF FetchLoop, Running
<1>2. ip \in 0..CodeLen
  BY ShapeParts DEF IInv
<1>3. Own \in Nat /\ Len(Last(acts).loops) \in Nat /\ lc_depth \in Nat
  BY <1>1, RunningHasActivation, ParameterAssumption DEF IInv, Shape
<1>4. Own = lc_depth - Len(Last(acts).loops)
  BY DEF Own
<1>5. lc_depth # 0
  BY <1>1, <1>3, <1>4
<1> QED BY <1>1, <1>2, <1>3, <1>5, ParameterAssumption

\* LOOP and +LOOP going round change only a counter.
LEMMA AgainIsQuiet ==
  ASSUME IInv, NEW n \in Increment, Again(n) PROVE Quiet
<1>1. /\ exc = None /\ portals # <<>> /\ thread \in Word /\ thread # "epilogue"
      /\ ip \in 0..CodeLen
  BY FetchLoopPlaces DEF Again
<1>2. /\ li' = li + n /\ n \in Int /\ ip' \in 0..ip
      /\ UNCHANGED <<thread, exc, callVars, ll, lc_depth, lc_is, lc_ls, rs_ptr, acts>>
  BY ParameterAssumption DEF Again
<1>3. ip' \in 0..CodeLen
  BY <1>1, <1>2, ParameterAssumption
<1>4. LoopsTypedNext
  BY <1>2 DEF LoopsTypedNext, IInv, Shape
<1>5. exc' = None /\ exc' # Quit
  BY <1>1, <1>2, ParameterAssumption
<1>6. \A k \in 1..Len(acts) : Len(acts[k].loops) <= lc_depth'
  BY <1>1, <1>2 DEF IInv, LoopsNest, Ended
<1> QED BY <1>1, <1>2, <1>3, <1>4, <1>5, <1>6, SameActsIfUnchanged DEF Quiet

\* Leaving a loop ends one of the running definition's own.
LEMMA LeaveLoopIsQuiet == ASSUME IInv, LeaveLoop PROVE Quiet
<1>1. /\ exc = None /\ portals # <<>> /\ thread \in Word /\ thread # "epilogue"
      /\ ip \in 0..CodeLen /\ ip + 1 \in 0..CodeLen
      /\ Own \in Nat \ {0} /\ lc_depth \in Nat \ {0}
  BY FetchLoopPlaces DEF LeaveLoop
<1>2. /\ UNCHANGED <<thread, exc, callVars, rs_ptr, acts>>
      /\ ip' = ip + 1 \/ ip' \in (ip + 1)..(CodeLen - Own + 1)
      /\ lc_depth' = lc_depth - 1
      /\ li' = IF lc_depth > 1 THEN lc_is[lc_depth - 2] ELSE li
      /\ ll' = IF lc_depth > 1 THEN lc_ls[lc_depth - 2] ELSE ll
      /\ UNCHANGED <<lc_is, lc_ls>>
  BY DEF LeaveLoop, PopLoop
<1>3. ip' \in 0..CodeLen
  BY <1>1, <1>2, ParameterAssumption
<1>4. /\ lc_depth \in 0..LoopSize /\ LoopSize \in Nat /\ li \in Int /\ ll \in Int
      /\ lc_is \in [0..(LoopSize - 1) -> Int] /\ lc_ls \in [0..(LoopSize - 1) -> Int]
      /\ rs_ptr \in 0..RSize
  BY ParameterAssumption DEF IInv, Shape
<1>5. lc_depth > 1 => lc_is[lc_depth - 2] \in Int /\ lc_ls[lc_depth - 2] \in Int
  <2>1. lc_depth > 1 => lc_depth - 2 \in 0..(LoopSize - 1)
    BY <1>1, <1>4
  <2> QED BY <2>1, <1>4
<1>6. LoopsTypedNext
  BY <1>1, <1>2, <1>4, <1>5 DEF LoopsTypedNext
<1>7. exc' = None /\ exc' # Quit
  BY <1>1, <1>2, ParameterAssumption
<1>8. \A k \in 1..Len(acts) : Len(acts[k].loops) <= lc_depth'
  BY <1>1, <1>2, LoopsBelow
<1> QED BY <1>1, <1>2, <1>3, <1>6, <1>7, <1>8, SameActsIfUnchanged DEF Quiet

\* The words that raise.
LEMMA RaiseIsQuiet ==
  ASSUME IInv, ~NestedAborts,
         (\E code \in Code : Throw(code)) \/ Abort \/ QuitWord
  PROVE  Quiet
<1>1. /\ exc = None /\ portals # <<>> /\ thread \in Word \cup {"now"}
      /\ thread # "epilogue" /\ ip \in 0..CodeLen
  BY FetchPlaces DEF Throw, Abort, QuitWord
<1>2. /\ UNCHANGED <<codeVars, callVars, acts>>
      /\ UNCHANGED <<li, ll, lc_is, lc_ls>>
      /\ UNCHANGED <<lc_depth, rs_ptr>> \/ (lc_depth' = 0 /\ rs_ptr' = 0)
      /\ exc' \in Code \cup {AbortCode, Quit}
  BY DEF Throw, Abort, QuitWord, Raise, loopVars
<1>3. thread' \in Word \cup {"now"} /\ ip' \in 0..CodeLen
  BY <1>1, <1>2 DEF codeVars
<1>4. LoopsTypedNext
  BY <1>2, ParameterAssumption DEF LoopsTypedNext, IInv, Shape
<1>5. exc' # None
  BY <1>2, ParameterAssumption
<1>6. exc' = Quit => AbortAtTop'
  <2>1. exc' = Quit => QuitWord
    BY ParameterAssumption DEF Throw, Abort, Raise
  <2>2. portals \in Seq(Portal) /\ portals' = portals
    BY <1>2 DEF IInv, Shape, callVars
  <2>3. DOMAIN portals = 1..Len(portals)
    BY <2>2, LenProperties
  <2> QED BY <2>1, <2>2, <2>3 DEF QuitWord, AbortAtTop
<1> QED BY <1>1, <1>2, <1>3, <1>4, <1>5, <1>6, SameActsIfUnchanged DEF Quiet

\* A thread of a definition, or of a portal, is no epilogue.
LEMMA HereNext ==
  ASSUME thread' \in Word \cup {"now"}, ip' \in 0..CodeLen
  PROVE  Here' \in Place /\ thread' # "epilogue" /\ Here' # Epilogue
BY Special, ParameterAssumption DEF Here, Entry, Place

\* A quiet step keeps the invariant.
LEMMA QuietKeeps == ASSUME IInv, Quiet PROVE IInv'
<1>1. /\ cs' = cs /\ cs_base' = cs_base /\ frames' = frames /\ portals' = portals
      /\ exc = None /\ portals # <<>> /\ thread # "epilogue"
  BY DEF Quiet, callVars
<1>2. Here' \in Place /\ thread' # "epilogue" /\ Here' # Epilogue
  BY HereNext DEF Quiet
<1>3. Here # Epilogue
  BY <1>1, ShapeParts DEF IInv
<1>4. /\ Len(acts') = Len(acts) /\ acts' \in Seq(ActType)
      /\ \A k \in 1..Len(acts) :
           /\ acts'[k].ret = acts[k].ret /\ acts'[k].kind = acts[k].kind
           /\ acts'[k].loops = acts[k].loops /\ acts'[k].rs = acts[k].rs
           /\ acts'[k].mark = acts[k].mark
  BY DEF Quiet, SameActs
<1>5. Shape'
  BY <1>1, <1>2, <1>4 DEF Quiet, IInv, Shape, LoopsTypedNext
<1>6. IdleEmpty'
  BY <1>1 DEF IdleEmpty
<1>7. PortalsSound'
  BY <1>1 DEF IInv, PortalsSound, PortalAt, HaltAt
<1>8. FramesSound'
  BY <1>1, <1>2, <1>3 DEF IInv, FramesSound, FrameAt
<1>9. MarksSound'
  <2> SUFFICES ASSUME ~Ended' PROVE MarksSound'
    BY DEF MarksSound
  <2>1. ~Ended
    BY <1>1 DEF Ended
  <2>2. /\ \A k \in 1..Len(acts) : acts[k].mark \in 1..Len(cs) /\ cs[acts[k].mark] # Epilogue
        /\ \A j, k \in 1..Len(acts) : j < k => acts[j].mark < acts[k].mark
        /\ \A q \in 1..Len(cs) :
             cs[q] = Epilogue \/ \E k \in 1..Len(acts) : acts[k].mark = q
    BY <1>1, <2>1 DEF IInv, MarksSound
  <2>3. \A k \in 1..Len(acts') : acts'[k].mark \in 1..Len(cs') /\ cs'[acts'[k].mark] # Epilogue
    BY <1>1, <1>4, <2>2
  <2>4. \A j, k \in 1..Len(acts') : j < k => acts'[j].mark < acts'[k].mark
    BY <1>4, <2>2
  <2>5. \A q \in 1..Len(cs') :
          cs'[q] = Epilogue \/ \E k \in 1..Len(acts') : acts'[k].mark = q
    BY <1>1, <1>4, <2>2
  <2> QED BY <1>2, <2>3, <2>4, <2>5 DEF MarksSound
<1>10. HandlersSound'
  <2> SUFFICES ASSUME NEW k \in 1..Len(acts)
               PROVE  /\ \A i \in 1..Len(frames) : acts[k].mark = frames[i].control + 1 =>
                           acts[k].kind = "catch" /\ Saved(frames[i], acts'[k])
                      /\ \A j \in 1..Len(portals) : acts[k].mark = portals[j].base + 1 =>
                           /\ acts[k].kind = (IF portals[j].kind = "catch" THEN "catch" ELSE "run")
                           /\ acts[k].ret = (IF j = 1 THEN Idle ELSE portals[j].caller)
                           /\ Saved(portals[j], acts'[k])
                      /\ cs[acts[k].mark] # Halt => acts[k].ret = cs[acts[k].mark]
                      /\ exc # Quit /\ acts[k].kind = "catch" =>
                           \/ \E i \in 1..Len(frames) : acts[k].mark = frames[i].control + 1
                           \/ \E j \in 1..Len(portals) : acts[k].mark = portals[j].base + 1
    BY <1>1, <1>4, ParameterAssumption DEF HandlersSound, Ended, ActAt
  <2>1. \A h : Saved(h, acts[k]) => Saved(h, acts'[k])
    BY <1>4 DEF Saved
  <2> QED BY <1>1, <2>1 DEF IInv, HandlersSound, Ended, ActAt
<1>11. LoopsNest'
  BY <1>1, <1>4 DEF IInv, LoopsNest, Quiet, Ended
<1>12. AbortAtTop'
  BY DEF Quiet, AbortAtTop
<1> QED BY <1>5, <1>6, <1>7, <1>8, <1>9, <1>10, <1>11, <1>12 DEF IInv

-----------------------------------------------------------------------------
(* Steps that begin an activation.                                         *)

\* What a call, a CATCH and a new interpreter have in common: an entry on cs
\* that is the activation's.
Entering(a) ==
  /\ exc = None /\ exc' = None /\ thread # "epilogue"
  /\ thread' \in Word \cup {"now"} /\ ip' \in 0..CodeLen
  /\ cs' \in Seq(Entries) /\ Len(cs') <= StackSize /\ Len(cs) < Len(cs')
  /\ \A q \in 1..Len(cs) : cs'[q] = cs[q]
  /\ acts' \in Seq(ActType) /\ Grown(acts, acts', a)
  /\ a.mark = Len(cs) + 1 /\ Len(a.loops) = lc_depth
  /\ UNCHANGED <<loopVars, rs_ptr>>

\* A call pushes its return address and nothing else.
ByCall(a) ==
  /\ portals # <<>> /\ UNCHANGED <<frames, portals, cs_base>>
  /\ Len(cs') = Len(cs) + 1
  /\ cs'[Len(cs) + 1] \in Place
  /\ a.ret = cs'[Len(cs) + 1] /\ a.kind = "call"

\* A CATCH pushes the epilogue, too, and a frame.
ByCatch(a, f) ==
  /\ portals # <<>> /\ UNCHANGED <<portals, cs_base>>
  /\ frames' \in Seq(Frame) /\ Len(frames') <= CatchDepth /\ Grown(frames, frames', f)
  /\ Len(cs') = Len(cs) + 2
  /\ cs'[Len(cs) + 1] \in Place /\ cs'[Len(cs) + 1] = Entry(f.thread, f.ip)
  /\ cs'[Len(cs) + 2] = Epilogue
  /\ a.ret = cs'[Len(cs) + 1] /\ a.kind = "catch"
  /\ f.control = Len(cs) /\ Saved(f, a)

\* An interpreter pushes HALT, and its caller waits in a portal.
ByPortal(a, p) ==
  /\ UNCHANGED frames
  /\ portals' \in Seq(Portal) /\ Grown(portals, portals', p)
  /\ Len(cs') = Len(cs) + 1 /\ cs'[Len(cs) + 1] = Halt
  /\ cs_base' = Len(cs)
  /\ p.base = Len(cs) /\ p.saved_base = cs_base /\ p.catch_ptr = Len(frames)
  /\ p.kind = "line" <=> portals = <<>>
  /\ a.kind = (IF p.kind = "catch" THEN "catch" ELSE "run")
  /\ a.ret = (IF portals = <<>> THEN Idle ELSE p.caller)
  /\ Saved(p, a)

\* The lengths the proofs below count with.
LEMMA Lengths ==
  ASSUME Shape
  PROVE  /\ Len(cs) \in Nat /\ Len(frames) \in Nat /\ Len(portals) \in Nat
         /\ Len(acts) \in Nat /\ lc_depth \in Nat
         /\ \A i \in 1..Len(frames) : frames[i] \in Frame /\ frames[i].control \in Nat
         /\ \A j \in 1..Len(portals) : /\ portals[j] \in Portal
                                       /\ portals[j].base \in Nat
                                       /\ portals[j].catch_ptr \in Nat
         /\ \A k \in 1..Len(acts) : /\ acts[k] \in ActType /\ acts[k].mark \in Nat
                                    /\ Len(acts[k].loops) \in Nat
         /\ \A q \in 1..Len(cs) : cs[q] \in Entries
<1>1. /\ cs \in Seq(Entries) /\ frames \in Seq(Frame) /\ portals \in Seq(Portal)
      /\ acts \in Seq(ActType) /\ lc_depth \in 0..LoopSize
  BY DEF Shape
<1>2. /\ Len(cs) \in Nat /\ Len(frames) \in Nat /\ Len(portals) \in Nat
      /\ Len(acts) \in Nat /\ lc_depth \in Nat
  BY <1>1, LenProperties, ParameterAssumption
<1>3. \A i \in 1..Len(frames) : frames[i] \in Frame /\ frames[i].control \in Nat
  <2>1. \A i \in 1..Len(frames) : frames[i] \in Frame
    BY <1>1, ElementOfSeq
  <2> QED BY <2>1, ParameterAssumption DEF Frame
<1>4. \A j \in 1..Len(portals) : portals[j] \in Portal
  BY <1>1, ElementOfSeq
<1>5. \A j \in 1..Len(portals) : portals[j].base \in Nat /\ portals[j].catch_ptr \in Nat
  BY <1>4, ParameterAssumption DEF Portal
<1>6. \A k \in 1..Len(acts) : acts[k] \in ActType
  BY <1>1, ElementOfSeq
<1>7. \A k \in 1..Len(acts) : acts[k].mark \in Nat /\ acts[k].loops \in Seq(Loop)
  BY <1>6 DEF ActType
<1>8. \A k \in 1..Len(acts) : Len(acts[k].loops) \in Nat
  BY <1>7, LenProperties
<1>9. \A q \in 1..Len(cs) : cs[q] \in Entries
  BY <1>1, ElementOfSeq
<1> QED BY <1>2, <1>3, <1>4, <1>5, <1>6, <1>7, <1>8, <1>9

\* The new entries of cs are the new activation's, above all others.
LEMMA EnteringMarks ==
  ASSUME IInv, NEW a, Entering(a),
         ByCall(a) \/ (\E f : ByCatch(a, f)) \/ (\E p : ByPortal(a, p))
  PROVE  MarksSound'
<1>1. Len(cs) \in Nat /\ Len(acts) \in Nat
  BY Lengths DEF IInv
<1>2. /\ Len(cs') = Len(cs) + 1 \/ (Len(cs') = Len(cs) + 2 /\ cs'[Len(cs) + 2] = Epilogue)
      /\ cs'[Len(cs) + 1] # Epilogue
  BY Special DEF ByCall, ByCatch, ByPortal
<1>3. /\ \A q \in 1..Len(cs) : cs'[q] = cs[q]
      /\ Len(acts') = Len(acts) + 1 /\ acts'[Len(acts) + 1].mark = Len(cs) + 1
      /\ \A k \in 1..Len(acts) : acts'[k] = acts[k]
      /\ exc = None /\ thread # "epilogue" /\ thread' # "epilogue"
  BY ParameterAssumption DEF Entering, Grown
<1>4. /\ \A k \in 1..Len(acts) : acts[k].mark \in 1..Len(cs) /\ cs[acts[k].mark] # Epilogue
      /\ \A j, k \in 1..Len(acts) : j < k => acts[j].mark < acts[k].mark
      /\ \A q \in 1..Len(cs) : cs[q] = Epilogue \/ \E k \in 1..Len(acts) : acts[k].mark = q
  BY <1>3 DEF IInv, MarksSound, Ended
<1>5. \A k \in 1..Len(acts') : k \in 1..Len(acts) \/ k = Len(acts) + 1
  BY <1>1, <1>3
<1>6. \A k \in 1..Len(acts') : acts'[k].mark \in 1..Len(cs') /\ cs'[acts'[k].mark] # Epilogue
  <2> TAKE k \in 1..Len(acts')
  <2>1. CASE k \in 1..Len(acts)
    <3>1. /\ acts'[k].mark = acts[k].mark /\ acts[k].mark \in 1..Len(cs)
          /\ cs[acts[k].mark] # Epilogue
      BY <2>1, <1>3, <1>4
    <3>2. cs'[acts[k].mark] = cs[acts[k].mark]
      BY <3>1, <1>3
    <3> QED BY <3>1, <3>2, <1>1, <1>2
  <2>2. CASE k = Len(acts) + 1
    BY <2>2, <1>1, <1>2, <1>3
  <2> QED BY <2>1, <2>2, <1>5
<1>7. \A j, k \in 1..Len(acts') : j < k => acts'[j].mark < acts'[k].mark
  <2> SUFFICES ASSUME NEW j \in 1..Len(acts'), NEW k \in 1..Len(acts'), j < k
               PROVE  acts'[j].mark < acts'[k].mark
    OBVIOUS
  <2>1. j \in 1..Len(acts)
    BY <1>1, <1>3
  <2>2. /\ acts'[j].mark = acts[j].mark /\ acts[j].mark \in 1..Len(cs)
    BY <2>1, <1>3, <1>4
  <2>3. CASE k \in 1..Len(acts)
    BY <2>1, <2>3, <1>3, <1>4
  <2>4. CASE k = Len(acts) + 1
    BY <2>2, <2>4, <1>1, <1>3
  <2> QED BY <2>3, <2>4, <1>5
<1>8. \A q \in 1..Len(cs') : cs'[q] = Epilogue \/ \E k \in 1..Len(acts') : acts'[k].mark = q
  <2> TAKE q \in 1..Len(cs')
  <2>1. CASE q \in 1..Len(cs)
    <3>1. cs'[q] = cs[q]
      BY <2>1, <1>3
    <3>2. cs[q] = Epilogue \/ \E k \in 1..Len(acts) : acts[k].mark = q
      BY <2>1, <1>4
    <3>3. \A k \in 1..Len(acts) : k \in 1..Len(acts') /\ acts'[k] = acts[k]
      BY <1>1, <1>3
    <3> QED BY <3>1, <3>2, <3>3
  <2>2. CASE q = Len(cs) + 1
    <3>1. Len(acts) + 1 \in 1..Len(acts')
      BY <1>1, <1>3
    <3> QED BY <2>2, <3>1, <1>3
  <2>3. CASE q = Len(cs) + 2
    BY <2>3, <1>1, <1>2
  <2> QED BY <2>1, <2>2, <2>3, <1>1, <1>2
<1> QED BY <1>3, <1>6, <1>7, <1>8 DEF MarksSound

\* A frame is as sound as before if cs is the same as far as its epilogue.
LEMMA FrameStays ==
  ASSUME Shape, NEW i \in 1..Len(frames), FrameAt(i), Here # Epilogue, Here' # Epilogue,
         frames'[i] = frames[i], Len(cs') \in Nat,
         \A q \in 1..(frames[i].control + 2) : q <= Len(cs') /\ cs'[q] = cs[q]
  PROVE  FrameAt(i)'
<1>1. frames[i].control \in Nat
  BY Lengths
<1>2. /\ frames[i].control + 1 \in 1..(frames[i].control + 2)
      /\ frames[i].control + 2 \in 1..(frames[i].control + 2)
  BY <1>1
<1>3. /\ frames[i].control + 2 <= Len(cs')
      /\ cs'[frames[i].control + 1] = cs[frames[i].control + 1]
      /\ cs'[frames[i].control + 2] = cs[frames[i].control + 2]
  BY <1>2
<1>4. cs[frames[i].control + 1] = Entry(frames[i].thread, frames[i].ip)
      /\ cs[frames[i].control + 2] = Epilogue
  BY DEF FrameAt
<1>5. frames[i].control + 1 < Len(cs') /\ frames[i].control < Len(cs')
  BY <1>1, <1>3
<1> QED BY <1>3, <1>4, <1>5 DEF FrameAt

\* The frames that a calm machine has, below the top of cs.
LEMMA FramesCalm ==
  ASSUME IInv, thread # "epilogue"
  PROVE  /\ Here # Epilogue
         /\ \A i \in 1..Len(frames) :
              /\ frames[i].control + 2 <= Len(cs)
              /\ cs[frames[i].control + 1] = Entry(frames[i].thread, frames[i].ip)
              /\ cs[frames[i].control + 1] \in Place
              /\ cs[frames[i].control + 2] = Epilogue
<1>1. Here # Epilogue
  BY ShapeParts DEF IInv
<1>2. ASSUME NEW i \in 1..Len(frames)
      PROVE  /\ frames[i].control + 2 <= Len(cs)
             /\ cs[frames[i].control + 1] = Entry(frames[i].thread, frames[i].ip)
             /\ cs[frames[i].control + 1] \in Place
             /\ cs[frames[i].control + 2] = Epilogue
  <2>1. /\ frames[i].control + 1 < Len(cs)
        /\ cs[frames[i].control + 1] = Entry(frames[i].thread, frames[i].ip)
        /\ cs[frames[i].control + 2] = Epilogue
    BY <1>1 DEF IInv, FramesSound, FrameAt
  <2>2. frames[i] \in Frame /\ frames[i].control \in Nat /\ Len(cs) \in Nat
    BY Lengths DEF IInv
  <2>3. frames[i].thread \in Word \cup {"now"} /\ frames[i].ip \in 0..CodeLen
    BY <2>2 DEF Frame
  <2>4. Entry(frames[i].thread, frames[i].ip) \in Place
    BY <2>3 DEF Entry, Place
  <2> QED BY <2>1, <2>2, <2>4
<1> QED BY <1>1, <1>2

\* The frames keep their entries under a new activation.
LEMMA EnteringFrames ==
  ASSUME IInv, NEW a, Entering(a),
         ByCall(a) \/ (\E f : ByCatch(a, f)) \/ (\E p : ByPortal(a, p))
  PROVE  FramesSound'
<1>1. /\ Len(cs) \in Nat /\ Len(frames) \in Nat /\ Shape
      /\ \A i \in 1..Len(frames) : frames[i].control \in Nat
  BY Lengths DEF IInv
<1>2. /\ thread # "epilogue" /\ thread' # "epilogue" /\ Here' # Epilogue
      /\ \A q \in 1..Len(cs) : cs'[q] = cs[q]
      /\ Len(cs') \in Nat /\ Len(cs) < Len(cs')
  BY HereNext, LenProperties DEF Entering
<1>3. /\ Here # Epilogue
      /\ \A i \in 1..Len(frames) : frames[i].control + 2 <= Len(cs) /\ FrameAt(i)
      /\ \A i, j \in 1..Len(frames) : i < j => frames[i].control + 1 < frames[j].control
      /\ \A q \in 1..Len(cs) : cs[q] = Epilogue =>
           \E i \in 1..Len(frames) : frames[i].control + 2 = q
  BY <1>2, FramesCalm DEF IInv, FramesSound
<1>4. ASSUME NEW i \in 1..Len(frames), frames'[i] = frames[i] PROVE FrameAt(i)'
  <2>1. \A q \in 1..(frames[i].control + 2) : q \in 1..Len(cs)
    BY <1>1, <1>3
  <2>2. \A q \in 1..(frames[i].control + 2) : q <= Len(cs') /\ cs'[q] = cs[q]
    BY <2>1, <1>1, <1>2
  <2> QED BY <2>2, <1>1, <1>2, <1>3, <1>4, FrameStays
<1>5. CASE frames' = frames /\ cs'[Len(cs) + 1] # Epilogue /\ Len(cs') = Len(cs) + 1
  <2>1. \A i \in 1..Len(frames) : FrameAt(i)'
    BY <1>4, <1>5
  <2>2. ASSUME NEW q \in 1..Len(cs'), cs'[q] = Epilogue
        PROVE  \E i \in 1..Len(frames) : frames[i].control + 2 = q
    <3>1. q \in 1..Len(cs) \/ q = Len(cs) + 1
      BY <1>1, <1>5
    <3> QED BY <3>1, <2>2, <1>2, <1>3, <1>5
  <2> QED BY <2>1, <2>2, <1>2, <1>3, <1>5 DEF FramesSound
<1>6. ASSUME NEW f, ByCatch(a, f) PROVE FramesSound'
  <2>0. PICK n \in Nat : n = Len(frames)
    BY <1>1
  <2>1. /\ Len(frames') = n + 1 /\ frames'[n + 1] = f /\ f.control = Len(cs)
        /\ \A i \in 1..n : frames'[i] = frames[i]
        /\ Len(cs') = Len(cs) + 2 /\ cs'[Len(cs) + 2] = Epilogue
        /\ cs'[Len(cs) + 1] = Entry(f.thread, f.ip) /\ cs'[Len(cs) + 1] # Epilogue
    BY <1>6, <2>0, Special DEF ByCatch, Grown
  <2>2. \A i \in 1..(n + 1) : i \in 1..n \/ i = n + 1
    OBVIOUS
  <2>3. FrameAt(n + 1)'
    BY <2>1, <1>1, <1>2 DEF FrameAt
  <2>4. \A i \in 1..Len(frames') : FrameAt(i)'
    BY <2>0, <2>1, <2>2, <2>3, <1>4
  <2>5. ASSUME NEW i \in 1..Len(frames'), NEW j \in 1..Len(frames'), i < j
        PROVE  frames'[i].control + 1 < frames'[j].control
    <3>1. i \in 1..n
      BY <2>1, <2>5, <1>1
    <3>2. frames'[i].control = frames[i].control /\ frames[i].control + 2 <= Len(cs)
      BY <2>0, <2>1, <3>1, <1>3
    <3>3. CASE j \in 1..n
      BY <2>0, <2>1, <2>5, <3>1, <3>3, <1>3
    <3>4. CASE j = n + 1
      BY <2>0, <2>1, <3>1, <3>2, <3>4, <1>1
    <3> QED BY <2>1, <2>2, <3>3, <3>4
  <2>6. ASSUME NEW q \in 1..Len(cs'), cs'[q] = Epilogue
        PROVE  \E i \in 1..Len(frames') : frames'[i].control + 2 = q
    <3>1. q \in 1..Len(cs) \/ q = Len(cs) + 2
      BY <2>1, <2>6, <1>1
    <3>2. \A i \in 1..n : i \in 1..Len(frames') /\ frames'[i] = frames[i]
      BY <2>1, <1>1
    <3>3. CASE q \in 1..Len(cs)
      BY <2>0, <3>3, <3>2, <2>6, <1>2, <1>3
    <3>4. CASE q = Len(cs) + 2
      <4>1. n + 1 \in 1..Len(frames')
        BY <2>1, <1>1
      <4> QED BY <4>1, <3>4, <2>1
    <3> QED BY <3>1, <3>3, <3>4
  <2> QED BY <2>4, <2>5, <2>6, <1>2 DEF FramesSound
<1> QED BY <1>5, <1>6, Special DEF ByCall, ByPortal

\* The portals keep their entries under a new activation.
LEMMA EnteringPortals ==
  ASSUME IInv, NEW a, Entering(a),
         ByCall(a) \/ (\E f : ByCatch(a, f)) \/ (\E p : ByPortal(a, p))
  PROVE  PortalsSound'
<1>1. /\ Len(cs) \in Nat /\ Len(frames) \in Nat /\ Len(portals) \in Nat /\ Shape
      /\ \A j \in 1..Len(portals) : portals[j].base \in Nat /\ portals[j].catch_ptr \in Nat
  BY Lengths DEF IInv
<1>2. /\ exc = None /\ \A q \in 1..Len(cs) : cs'[q] = cs[q]
      /\ Len(cs') \in Nat /\ Len(cs) < Len(cs')
  BY LenProperties DEF Entering
<1>3. /\ \A j \in 1..Len(portals) : PortalAt(j)
      /\ \A i, j \in 1..Len(portals) : i < j => portals[i].base < portals[j].base
      /\ portals # <<>> => cs_base = portals[Len(portals)].base
      /\ \A q \in 1..Len(cs) : cs[q] = Halt => \E j \in 1..Len(portals) : portals[j].base + 1 = q
  BY <1>2 DEF IInv, PortalsSound, HaltAt
\* An old portal: whatever frame is new lies above it.
<1>4. ASSUME NEW j \in 1..Len(portals), portals'[j] = portals[j],
             j > 1 => portals'[j - 1] = portals[j - 1],
             frames' = frames \/ (\E f : Grown(frames, frames', f) /\ f.control = Len(cs))
      PROVE  PortalAt(j)'
  <2>1. PICK b, c : b = portals[j].base /\ c = portals[j].catch_ptr
    OBVIOUS
  <2>2. /\ b \in Nat /\ c \in Nat /\ b < Len(cs) /\ cs[b + 1] = Halt /\ c <= Len(frames)
        /\ \A i \in 1..Len(frames) : i <= c <=> frames[i].control < b
        /\ portals[j].kind = "line" <=> j = 1
        /\ IF j = 1 THEN b = 0 ELSE portals[j].saved_base = portals[j - 1].base
    BY <2>1, <1>1, <1>3 DEF PortalAt
  <2>3. b < Len(cs') /\ cs'[b + 1] = Halt
    BY <2>2, <1>1, <1>2
  <2>4. c <= Len(frames') /\ \A i \in 1..Len(frames') : i <= c <=> frames'[i].control < b
    <3>1. CASE frames' = frames
      BY <3>1, <2>2
    <3>2. ASSUME NEW f, Grown(frames, frames', f), f.control = Len(cs)
          PROVE  c <= Len(frames') /\ \A i \in 1..Len(frames') : i <= c <=> frames'[i].control < b
      <4>1. /\ Len(frames') = Len(frames) + 1 /\ frames'[Len(frames) + 1] = f
            /\ \A i \in 1..Len(frames) : frames'[i] = frames[i]
        BY <3>2 DEF Grown
      <4>2. \A i \in 1..Len(frames') : i \in 1..Len(frames) \/ i = Len(frames) + 1
        BY <4>1, <1>1
      <4>3. ~ (Len(frames) + 1 <= c) /\ ~ (f.control < b)
        BY <3>2, <2>2, <1>1
      <4>4. c <= Len(frames')
        BY <4>1, <2>2, <1>1
      <4>5. ASSUME NEW i \in 1..Len(frames') PROVE i <= c <=> frames'[i].control < b
        <5>1. CASE i \in 1..Len(frames)
          BY <5>1, <4>1, <2>2
        <5>2. CASE i = Len(frames) + 1
          BY <5>2, <4>1, <4>3
        <5> QED BY <5>1, <5>2, <4>2
      <4> QED BY <4>4, <4>5
    <3> QED BY <3>1, <3>2, <1>4
  <2>5. IF j = 1 THEN b = 0 ELSE portals'[j].saved_base = portals'[j - 1].base
    BY <2>2, <1>4
  <2> QED BY <2>1, <2>2, <2>3, <2>4, <2>5, <1>4 DEF PortalAt
<1>5. CASE /\ UNCHANGED <<portals, cs_base>>
           /\ Len(cs') = Len(cs) + 1 \/ (Len(cs') = Len(cs) + 2 /\ cs'[Len(cs) + 2] # Halt)
           /\ cs'[Len(cs) + 1] # Halt
           /\ frames' = frames \/ (\E f : Grown(frames, frames', f) /\ f.control = Len(cs))
  <2>1. \A j \in 1..Len(portals) : PortalAt(j)'
    BY <1>4, <1>5
  <2>2. ASSUME NEW q \in 1..Len(cs'), cs'[q] = Halt
        PROVE  \E j \in 1..Len(portals) : portals[j].base + 1 = q
    <3>1. q \in 1..Len(cs)
      BY <2>2, <1>5, <1>1
    <3> QED BY <3>1, <2>2, <1>2, <1>3
  <2> QED BY <2>1, <2>2, <1>3, <1>5 DEF PortalsSound, HaltAt
<1>6. ASSUME NEW p, ByPortal(a, p) PROVE PortalsSound'
  <2>0. PICK n \in Nat : n = Len(portals)
    BY <1>1
  <2>1. /\ Len(portals') = n + 1 /\ portals'[n + 1] = p
        /\ \A j \in 1..n : portals'[j] = portals[j]
        /\ frames' = frames /\ Len(cs') = Len(cs) + 1 /\ cs'[Len(cs) + 1] = Halt
        /\ cs_base' = Len(cs) /\ p.base = Len(cs) /\ p.saved_base = cs_base
        /\ p.catch_ptr = Len(frames) /\ (p.kind = "line" <=> portals = <<>>)
    BY <1>6, <2>0 DEF ByPortal, Grown
  <2>2. portals = <<>> <=> n = 0
    BY <2>0, EmptySeq DEF Shape, IInv
  <2>3. \A j \in 1..(n + 1) : j \in 1..n \/ j = n + 1
    OBVIOUS
  <2>4. \A j \in 1..n : PortalAt(j)'
    <3> TAKE j \in 1..n
    <3>1. j > 1 => j - 1 \in 1..n
      OBVIOUS
    <3> QED BY <3>1, <2>0, <2>1, <1>4
  <2>5. PortalAt(n + 1)'
    <3>1. \A i \in 1..Len(frames) : i <= Len(frames) /\ frames[i].control < Len(cs)
      BY <1>1 DEF IInv, FramesSound, FrameAt
    <3>2. p.kind = "line" <=> n + 1 = 1
      BY <2>1, <2>2
    <3>3. n + 1 = 1 => Len(cs) = 0
      <4>1. n + 1 = 1 => cs = <<>>
        BY <2>2, <1>2 DEF IInv, IdleEmpty
      <4> QED BY <4>1, EmptySeq
    <3>4. n + 1 # 1 => p.saved_base = portals'[n].base
      <4>1. n + 1 # 1 => n \in 1..n
        OBVIOUS
      <4> QED BY <4>1, <2>0, <2>1, <2>2, <1>3
    <3>5. (n + 1) - 1 = n
      OBVIOUS
    <3> QED BY <3>1, <3>2, <3>3, <3>4, <3>5, <2>1, <1>1 DEF PortalAt
  <2>6. \A j \in 1..Len(portals') : PortalAt(j)'
    BY <2>1, <2>3, <2>4, <2>5
  <2>7. ASSUME NEW i \in 1..Len(portals'), NEW j \in 1..Len(portals'), i < j
        PROVE  portals'[i].base < portals'[j].base
    <3>1. i \in 1..n
      BY <2>1, <2>7
    <3>2. portals'[i] = portals[i] /\ portals[i].base < Len(cs)
      BY <3>1, <2>0, <2>1, <1>3 DEF PortalAt
    <3>3. CASE j \in 1..n
      BY <3>1, <3>3, <2>0, <2>1, <2>7, <1>3
    <3>4. CASE j = n + 1
      BY <3>2, <3>4, <2>1
    <3> QED BY <3>3, <3>4, <2>1, <2>3
  <2>8. cs_base' = portals'[Len(portals')].base
    BY <2>1
  <2>9. ASSUME NEW q \in 1..Len(cs'), cs'[q] = Halt
        PROVE  \E j \in 1..Len(portals') : portals'[j].base + 1 = q
    <3>1. CASE q \in 1..Len(cs)
      <4>1. \E j \in 1..n : portals[j].base + 1 = q
        BY <3>1, <2>9, <2>0, <1>2, <1>3
      <4>2. \A j \in 1..n : j \in 1..Len(portals')
        BY <2>1
      <4> QED BY <4>1, <4>2, <2>1
    <3>2. CASE q = Len(cs) + 1
      <4>1. n + 1 \in 1..Len(portals')
        BY <2>1
      <4> QED BY <4>1, <3>2, <2>1
    <3> QED BY <3>1, <3>2, <2>1, <1>1
  <2> QED BY <2>6, <2>7, <2>8, <2>9 DEF PortalsSound, HaltAt
<1>7. (ByCall(a) \/ (\E f : ByCatch(a, f))) => PortalsSound'
  BY <1>5, Special DEF ByCall, ByCatch
<1> QED BY <1>6, <1>7

\* The handlers keep their activations, and a new CATCH has its own.
LEMMA EnteringHandlers ==
  ASSUME IInv, NEW a, Entering(a),
         ByCall(a) \/ (\E f : ByCatch(a, f)) \/ (\E p : ByPortal(a, p))
  PROVE  HandlersSound'
<1>1. /\ Len(cs) \in Nat /\ Len(frames) \in Nat /\ Len(portals) \in Nat /\ Len(acts) \in Nat
      /\ \A i \in 1..Len(frames) : frames[i].control \in Nat
      /\ \A j \in 1..Len(portals) : portals[j].base \in Nat
  BY Lengths DEF IInv
<1>2. /\ exc = None /\ exc' = None /\ thread # "epilogue" /\ exc' # Quit
      /\ \A q \in 1..Len(cs) : cs'[q] = cs[q]
      /\ Len(acts') = Len(acts) + 1 /\ acts'[Len(acts) + 1] = a /\ a.mark = Len(cs) + 1
      /\ \A k \in 1..Len(acts) : acts'[k] = acts[k]
  BY ParameterAssumption DEF Entering, Grown
<1>3. /\ \A k \in 1..Len(acts) : ActAt(k) /\ acts[k].mark \in 1..Len(cs)
      /\ \A i \in 1..Len(frames) : frames[i].control < Len(cs)
      /\ \A j \in 1..Len(portals) : portals[j].base < Len(cs)
  BY <1>2 DEF IInv, HandlersSound, MarksSound, Ended, FramesSound, FrameAt, PortalsSound, PortalAt
\* What is new lies above the old activations, what is old below the new one.
<1>4. /\ frames' = frames \/ \E f : /\ Grown(frames, frames', f) /\ f.control = Len(cs)
                                    /\ a.kind = "catch" /\ Saved(f, a)
      /\ portals' = portals \/ \E p : /\ Grown(portals, portals', p) /\ p.base = Len(cs)
                                      /\ a.kind = (IF p.kind = "catch" THEN "catch" ELSE "run")
                                      /\ a.ret = (IF portals = <<>> THEN Idle ELSE p.caller)
                                      /\ Saved(p, a)
      /\ cs'[Len(cs) + 1] # Halt => a.ret = cs'[Len(cs) + 1]
      /\ a.kind = "catch" => frames' # frames \/ portals' # portals
  <2>1. ByCall(a) => cs'[Len(cs) + 1] # Halt /\ a.kind # "catch"
    BY Special DEF ByCall
  <2>2. ASSUME NEW f, ByCatch(a, f) PROVE frames' # frames
    BY <2>2, <1>1 DEF ByCatch, Grown
  <2>3. ASSUME NEW p, ByPortal(a, p) PROVE portals' # portals
    BY <2>3, <1>1 DEF ByPortal, Grown
  <2>4. ByCall(a) => frames' = frames /\ portals' = portals /\ a.ret = cs'[Len(cs) + 1]
    BY DEF ByCall
  <2>5. ASSUME NEW f, ByCatch(a, f)
        PROVE  /\ portals' = portals /\ a.ret = cs'[Len(cs) + 1]
               /\ Grown(frames, frames', f) /\ f.control = Len(cs) /\ a.kind = "catch" /\ Saved(f, a)
    BY <2>5 DEF ByCatch
  <2>6. ASSUME NEW p, ByPortal(a, p)
        PROVE  /\ frames' = frames /\ cs'[Len(cs) + 1] = Halt
               /\ Grown(portals, portals', p) /\ p.base = Len(cs)
               /\ a.kind = (IF p.kind = "catch" THEN "catch" ELSE "run")
               /\ a.ret = (IF portals = <<>> THEN Idle ELSE p.caller)
               /\ Saved(p, a)
    BY <2>6 DEF ByPortal
  <2> QED BY <2>1, <2>2, <2>3, <2>4, <2>5, <2>6
<1>5. /\ Len(frames') \in Nat /\ Len(frames) <= Len(frames')
      /\ \A i \in 1..Len(frames) : frames'[i] = frames[i] /\ i \in 1..Len(frames')
      /\ \A i \in 1..Len(frames') : i \in 1..Len(frames) \/
           (frames'[i].control = Len(cs) /\ a.kind = "catch" /\ Saved(frames'[i], a))
      /\ frames' # frames => \E i \in 1..Len(frames') : frames'[i].control = Len(cs)
  <2>1. CASE frames' = frames
    BY <2>1, <1>1
  <2>2. ASSUME NEW f, Grown(frames, frames', f), f.control = Len(cs), a.kind = "catch", Saved(f, a)
        PROVE  <1>5
    <3>1. /\ Len(frames') = Len(frames) + 1 /\ frames'[Len(frames) + 1] = f
          /\ \A i \in 1..Len(frames) : frames'[i] = frames[i]
      BY <2>2 DEF Grown
    <3>2. /\ \A i \in 1..Len(frames') : i \in 1..Len(frames) \/ i = Len(frames) + 1
          /\ \A i \in 1..Len(frames) : i \in 1..Len(frames')
          /\ Len(frames) + 1 \in 1..Len(frames')
      BY <3>1, <1>1
    <3> QED BY <3>1, <3>2, <2>2, <1>1
  <2> QED BY <2>1, <2>2, <1>4
<1>6. /\ Len(portals') \in Nat /\ Len(portals) <= Len(portals')
      /\ \A j \in 1..Len(portals) : portals'[j] = portals[j] /\ j \in 1..Len(portals')
      /\ \A j \in 1..Len(portals') : j \in 1..Len(portals) \/
           /\ portals'[j].base = Len(cs) /\ Saved(portals'[j], a)
           /\ a.kind = (IF portals'[j].kind = "catch" THEN "catch" ELSE "run")
           /\ a.ret = (IF j = 1 THEN Idle ELSE portals'[j].caller)
      /\ portals' # portals => \E j \in 1..Len(portals') : portals'[j].base = Len(cs)
  <2>1. CASE portals' = portals
    BY <2>1, <1>1
  <2>2. ASSUME NEW p, Grown(portals, portals', p), p.base = Len(cs), Saved(p, a),
               a.kind = (IF p.kind = "catch" THEN "catch" ELSE "run"),
               a.ret = (IF portals = <<>> THEN Idle ELSE p.caller)
        PROVE  <1>6
    <3>1. /\ Len(portals') = Len(portals) + 1 /\ portals'[Len(portals) + 1] = p
          /\ \A j \in 1..Len(portals) : portals'[j] = portals[j]
      BY <2>2 DEF Grown
    <3>2. /\ \A j \in 1..Len(portals') : j \in 1..Len(portals) \/ j = Len(portals) + 1
          /\ \A j \in 1..Len(portals) : j \in 1..Len(portals')
          /\ Len(portals) + 1 \in 1..Len(portals')
      BY <3>1, <1>1
    <3>3. portals = <<>> <=> Len(portals) + 1 = 1
      BY <1>1, EmptySeq DEF IInv, Shape
    <3> QED BY <3>1, <3>2, <3>3, <2>2, <1>1, SMTT(30)
  <2> QED BY <2>1, <2>2, <1>4
<1>7. ASSUME NEW k \in 1..Len(acts) PROVE ActAt(k)'
  <2>1. acts'[k] = acts[k] /\ acts[k].mark \in 1..Len(cs) /\ cs'[acts[k].mark] = cs[acts[k].mark]
    BY <1>2, <1>3
  <2>2. acts[k].mark # Len(cs) + 1
    BY <2>1, <1>1
  <2>3. ASSUME NEW i \in 1..Len(frames'), acts[k].mark = frames'[i].control + 1
        PROVE  acts[k].kind = "catch" /\ Saved(frames'[i], acts[k])
    BY <2>2, <2>3, <1>3, <1>5 DEF ActAt
  <2>4. ASSUME NEW j \in 1..Len(portals'), acts[k].mark = portals'[j].base + 1
        PROVE  /\ acts[k].kind = (IF portals'[j].kind = "catch" THEN "catch" ELSE "run")
               /\ acts[k].ret = (IF j = 1 THEN Idle ELSE portals'[j].caller)
               /\ Saved(portals'[j], acts[k])
    BY <2>2, <2>4, <1>3, <1>6, SMTT(30) DEF ActAt
  <2>5. cs'[acts[k].mark] # Halt => acts[k].ret = cs'[acts[k].mark]
    BY <2>1, <1>3 DEF ActAt
  <2>6. acts[k].kind = "catch" =>
          \/ \E i \in 1..Len(frames') : acts[k].mark = frames'[i].control + 1
          \/ \E j \in 1..Len(portals') : acts[k].mark = portals'[j].base + 1
    <3>1. acts[k].kind = "catch" =>
            \/ \E i \in 1..Len(frames) : acts[k].mark = frames[i].control + 1
            \/ \E j \in 1..Len(portals) : acts[k].mark = portals[j].base + 1
      BY <1>2, <1>3, ParameterAssumption DEF ActAt
    <3> QED BY <3>1, <1>5, <1>6
  <2> QED BY <2>1, <2>3, <2>4, <2>5, <2>6 DEF ActAt
<1>8. PICK n \in Nat : n = Len(acts) + 1
  BY <1>1
<1>9. ActAt(n)'
  <2>1. acts'[n] = a /\ a.mark = Len(cs) + 1
    BY <1>2, <1>8
  <2>2. ASSUME NEW i \in 1..Len(frames'), a.mark = frames'[i].control + 1
        PROVE  a.kind = "catch" /\ Saved(frames'[i], a)
    <3>1. ~ (i \in 1..Len(frames))
      BY <2>1, <2>2, <1>1, <1>3, <1>5
    <3> QED BY <3>1, <1>5
  <2>3. ASSUME NEW j \in 1..Len(portals'), a.mark = portals'[j].base + 1
        PROVE  /\ a.kind = (IF portals'[j].kind = "catch" THEN "catch" ELSE "run")
               /\ a.ret = (IF j = 1 THEN Idle ELSE portals'[j].caller)
               /\ Saved(portals'[j], a)
    <3>1. ~ (j \in 1..Len(portals))
      BY <2>1, <2>3, <1>1, <1>3, <1>6
    <3> QED BY <3>1, <1>6
  <2>4. cs'[a.mark] # Halt => a.ret = cs'[a.mark]
    BY <2>1, <1>4
  <2>5. a.kind = "catch" =>
          \/ \E i \in 1..Len(frames') : a.mark = frames'[i].control + 1
          \/ \E j \in 1..Len(portals') : a.mark = portals'[j].base + 1
    BY <2>1, <1>4, <1>5, <1>6
  <2> QED BY <2>1, <2>2, <2>3, <2>4, <2>5 DEF ActAt
<1>10. \A k \in 1..Len(acts') : k \in 1..Len(acts) \/ k = n
  BY <1>1, <1>2, <1>8
<1> QED BY <1>7, <1>9, <1>10 DEF HandlersSound

\* Whatever begins an activation keeps the invariant.
LEMMA EnteringKeeps ==
  ASSUME IInv, NEW a, Entering(a),
         ByCall(a) \/ (\E f : ByCatch(a, f)) \/ (\E p : ByPortal(a, p))
  PROVE  IInv'
<1>1. /\ exc = None /\ exc' = None
      /\ Here' \in Place /\ thread' # "epilogue" /\ Here' # Epilogue
  BY HereNext DEF Entering
<1>2. Shape'
  <2>1. frames' \in Seq(Frame) /\ Len(frames') <= CatchDepth /\ portals' \in Seq(Portal)
    BY DEF ByCall, ByCatch, ByPortal, IInv, Shape
  <2>2. cs_base' \in 0..StackSize
    <3>1. Len(cs) \in 0..StackSize
      BY Lengths, LenProperties, ParameterAssumption DEF Entering, IInv
    <3> QED BY <3>1 DEF ByCall, ByCatch, ByPortal, IInv, Shape
  <2>3. UNCHANGED <<li, ll, lc_depth, lc_is, lc_ls, rs_ptr>>
    BY DEF Entering, loopVars
  <2> QED BY <1>1, <2>1, <2>2, <2>3 DEF Entering, IInv, Shape
<1>3. portals' # <<>>
  <2>1. ASSUME NEW p, ByPortal(a, p) PROVE portals' # <<>>
    <3>1. Len(portals') = Len(portals) + 1 /\ Len(portals) \in Nat
      BY <2>1, Lengths DEF ByPortal, Grown, IInv
    <3>2. Len(portals') # 0
      BY <3>1
    <3> QED BY <3>2, EmptySeq
  <2> QED BY <2>1 DEF ByCall, ByCatch
<1>4. IdleEmpty'
  BY <1>3 DEF IdleEmpty
<1>5. LoopsNest'
  <2>1. /\ Len(acts) \in Nat /\ lc_depth \in Nat
        /\ \A k \in 1..Len(acts) : Len(acts[k].loops) \in Nat /\ Len(acts[k].loops) <= lc_depth
        /\ \A j, k \in 1..Len(acts) : j < k => Len(acts[j].loops) <= Len(acts[k].loops)
    BY <1>1, Lengths DEF IInv, LoopsNest, Ended
  <2>2. /\ Len(acts') = Len(acts) + 1 /\ acts'[Len(acts) + 1] = a /\ Len(a.loops) = lc_depth
        /\ \A k \in 1..Len(acts) : acts'[k] = acts[k]
        /\ lc_depth' = lc_depth
    BY DEF Entering, Grown, loopVars
  <2>3. \A k \in 1..Len(acts') : k \in 1..Len(acts) \/ k = Len(acts) + 1
    BY <2>1, <2>2
  <2>4. \A k \in 1..Len(acts') : Len(acts'[k].loops) <= lc_depth'
    BY <2>1, <2>2, <2>3
  <2>5. ASSUME NEW j \in 1..Len(acts'), NEW k \in 1..Len(acts'), j < k
        PROVE  Len(acts'[j].loops) <= Len(acts'[k].loops)
    <3>1. j \in 1..Len(acts)
      BY <2>1, <2>2, <2>5
    <3> QED BY <3>1, <2>1, <2>2, <2>3, <2>5
  <2> QED BY <2>4, <2>5 DEF LoopsNest
<1>6. AbortAtTop'
  BY <1>1, ParameterAssumption DEF AbortAtTop
<1> QED BY <1>2, <1>4, <1>5, <1>6, EnteringMarks, EnteringHandlers, EnteringFrames,
           EnteringPortals DEF IInv

\* What a handler saves is what the new activation has.
LEMMA SavedNow ==
  ASSUME Shape, NEW ret \in Place \cup {Idle}, NEW kind \in {"call", "run", "catch"},
         NEW h, h.rs_ptr = rs_ptr, h.li = li, h.lc_depth = lc_depth
  PROVE  Saved(h, Activation(ret, kind))
<1>1. lc_depth \in Nat
  BY Lengths
<1>2. lc_depth > 0 => Loops[lc_depth] = [limit |-> ll, counter |-> li]
  BY <1>1 DEF Loops
<1>3. lc_depth > 0 => Loops[lc_depth].counter = li
  BY <1>2
<1> QED BY <1>3, ActivationTyped, LoopsTyped DEF Saved

\* Entering an activation, whatever else the step does.
LEMMA EnterActs ==
  ASSUME IInv, exc = None, NEW ret \in Place \cup {Idle},
         NEW kind \in {"call", "run", "catch"}, Enter(ret, kind)
  PROVE  LET a == Activation(ret, kind) IN
           /\ acts' \in Seq(ActType) /\ Grown(acts, acts', a)
           /\ a.mark = Len(cs) + 1 /\ Len(a.loops) = lc_depth
           /\ a.ret = ret /\ a.kind = kind
BY ActivationTyped, AppendGrows, LoopsTyped DEF IInv, Shape, Enter

\* A call, EXECUTE of a word with a thread.
LEMMA CallKeeps == ASSUME IInv, NEW w \in Word, Call(w) PROVE IInv'
<1> DEFINE a == Activation(After, "call")
<1>1. exc = None /\ portals # <<>> /\ thread # "epilogue" /\ After \in Place
  BY FetchPlaces DEF Call
<1>2. /\ cs' = Append(cs, After) /\ Len(cs) < StackSize /\ thread' = w /\ ip' = 0
      /\ Enter(After, "call") /\ UNCHANGED <<exc, cs_base, frames, portals, loopVars, rs_ptr>>
  BY DEF Call
<1>3. /\ acts' \in Seq(ActType) /\ Grown(acts, acts', a)
      /\ a.mark = Len(cs) + 1 /\ Len(a.loops) = lc_depth
      /\ a.ret = After /\ a.kind = "call"
  BY <1>1, <1>2, EnterActs
<1>4. cs' \in Seq(Entries) /\ Grown(cs, cs', After)
  BY <1>1, <1>2, AppendGrows DEF Entries, IInv, Shape
<1>5. Len(cs) \in Nat /\ Len(cs') = Len(cs) + 1 /\ StackSize \in Nat /\ 0 \in 0..CodeLen
  BY <1>4, Lengths, ParameterAssumption DEF Grown, IInv
<1> HIDE DEF a
<1>6. Entering(a)
  BY <1>1, <1>2, <1>3, <1>4, <1>5 DEF Entering, Grown
<1>7. ByCall(a)
  BY <1>1, <1>2, <1>3, <1>4, <1>5 DEF ByCall, Grown
<1> QED BY <1>6, <1>7, EnteringKeeps

\* CATCH of a word with a thread.
LEMMA CatchKeeps == ASSUME IInv, NEW w \in Word, Catch(w) PROVE IInv'
<1> DEFINE a == Activation(After, "catch")
           f == [thread |-> thread, ip |-> ip + 1, rs_ptr |-> rs_ptr, li |-> li,
                 lc_depth |-> lc_depth, control |-> Len(cs)]
<1>1. /\ exc = None /\ portals # <<>> /\ thread # "epilogue" /\ After \in Place
      /\ thread \in Word \cup {"now"} /\ ip + 1 \in 0..CodeLen
  BY FetchPlaces DEF Catch
<1>2. /\ cs' = cs \o <<After, Epilogue>> /\ Len(cs) + 1 < StackSize /\ thread' = w /\ ip' = 0
      /\ frames' = Append(frames, f) /\ Len(frames) < CatchDepth
      /\ Enter(After, "catch") /\ UNCHANGED <<exc, cs_base, portals, loopVars, rs_ptr>>
  BY DEF Catch
<1>3. /\ acts' \in Seq(ActType) /\ Grown(acts, acts', a)
      /\ a.mark = Len(cs) + 1 /\ Len(a.loops) = lc_depth
      /\ a.ret = After /\ a.kind = "catch"
  BY <1>1, <1>2, EnterActs
<1>4. /\ cs \in Seq(Entries) /\ Len(cs) \in Nat /\ Len(frames) \in Nat
      /\ rs_ptr \in 0..RSize /\ li \in Int /\ lc_depth \in 0..LoopSize
      /\ frames \in Seq(Frame)
  BY Lengths DEF IInv, Shape
<1>5. /\ cs' \in Seq(Entries) /\ Len(cs') = Len(cs) + 2
      /\ cs'[Len(cs) + 1] = After /\ cs'[Len(cs) + 2] = Epilogue
      /\ \A q \in 1..Len(cs) : cs'[q] = cs[q]
  <2>1. After \in Entries /\ Epilogue \in Entries
    BY <1>1 DEF Entries
  <2>2. cs' = Append(Append(cs, After), Epilogue)
    BY <1>2, <1>4, <2>1
  <2>3. Append(cs, After) \in Seq(Entries) /\ Grown(cs, Append(cs, After), After)
    BY <1>4, <2>1, AppendGrows
  <2>4. /\ cs' \in Seq(Entries) /\ Grown(Append(cs, After), cs', Epilogue)
    BY <2>1, <2>2, <2>3, AppendGrows
  <2> QED BY <2>3, <2>4, <1>4, SMTT(30) DEF Grown
<1>6. f \in Frame /\ f.control = Len(cs) /\ After = Entry(f.thread, f.ip) /\ Saved(f, a)
  <2>1. Len(cs) \in 0..StackSize
    BY <1>2, <1>4, ParameterAssumption
  <2>2. f \in Frame
    BY <1>1, <1>4, <2>1 DEF Frame
  <2>3. Saved(f, a)
    BY <1>1, SavedNow DEF IInv
  <2> QED BY <2>2, <2>3 DEF After
<1> HIDE DEF a, f
<1>7. frames' \in Seq(Frame) /\ Grown(frames, frames', f) /\ Len(frames') <= CatchDepth
  <2>1. frames' \in Seq(Frame) /\ Grown(frames, frames', f)
    BY <1>2, <1>4, <1>6, AppendGrows
  <2> QED BY <2>1, <1>2, <1>4, ParameterAssumption DEF Grown
<1>8. Len(cs') <= StackSize /\ Len(cs) < Len(cs') /\ 0 \in 0..CodeLen
  BY <1>2, <1>4, <1>5, ParameterAssumption
<1>9. Entering(a)
  BY <1>1, <1>2, <1>3, <1>5, <1>8 DEF Entering
<1>10. ByCatch(a, f)
  BY <1>1, <1>2, <1>3, <1>5, <1>6, <1>7 DEF ByCatch
<1> QED BY <1>9, <1>10, EnteringKeeps

\* execute_word_now begins, for any caller.
LEMMA OpenPortalKeeps ==
  ASSUME IInv, exc = None, thread # "epilogue",
         NEW kind \in {"line", "execute", "evaluate", "catch"}, NEW caller \in Place,
         OpenPortal(kind, caller), kind = "line" <=> portals = <<>>,
         Enter(IF portals = <<>> THEN Idle ELSE caller, IF kind = "catch" THEN "catch" ELSE "run")
  PROVE  IInv'
<1> DEFINE ret == IF portals = <<>> THEN Idle ELSE caller
           kd == IF kind = "catch" THEN "catch" ELSE "run"
           a == Activation(ret, kd)
           p == [kind |-> kind, caller |-> caller, saved_base |-> cs_base, base |-> Len(cs),
                 li |-> li, lc_depth |-> lc_depth, rs_ptr |-> rs_ptr, catch_ptr |-> Len(frames)]
<1>1. /\ cs' = Append(cs, Halt) /\ Len(cs) < StackSize /\ thread' = "now" /\ ip' = 0
      /\ portals' = Append(portals, p) /\ cs_base' = Len(cs)
      /\ UNCHANGED <<exc, frames, loopVars, rs_ptr>>
  BY DEF OpenPortal
<1>2. ret \in Place \cup {Idle} /\ kd \in {"call", "run", "catch"} /\ Enter(ret, kd)
  OBVIOUS
<1>3. /\ acts' \in Seq(ActType) /\ Grown(acts, acts', a)
      /\ a.mark = Len(cs) + 1 /\ Len(a.loops) = lc_depth
      /\ a.ret = ret /\ a.kind = kd
  BY <1>2, EnterActs
<1>4. /\ cs \in Seq(Entries) /\ Len(cs) \in Nat /\ Len(frames) \in Nat
      /\ Len(frames) <= CatchDepth /\ cs_base \in 0..StackSize
      /\ rs_ptr \in 0..RSize /\ li \in Int /\ lc_depth \in 0..LoopSize
      /\ portals \in Seq(Portal)
  BY Lengths DEF IInv, Shape
<1>5. cs' \in Seq(Entries) /\ Grown(cs, cs', Halt)
  BY <1>1, <1>4, AppendGrows DEF Entries
<1>6. p \in Portal /\ Saved(p, a)
  <2>1. Len(cs) \in 0..StackSize /\ Len(frames) \in 0..CatchDepth
    BY <1>1, <1>4, ParameterAssumption
  <2>2. p \in Portal
    BY <1>4, <2>1 DEF Portal
  <2>3. Saved(p, a)
    BY <1>2, SavedNow DEF IInv
  <2> QED BY <2>2, <2>3
<1>7. /\ p.base = Len(cs) /\ p.saved_base = cs_base /\ p.catch_ptr = Len(frames)
      /\ p.kind = kind /\ p.caller = caller
  OBVIOUS
<1> HIDE DEF a, p
<1>8. portals' \in Seq(Portal) /\ Grown(portals, portals', p)
  BY <1>1, <1>4, <1>6, AppendGrows
<1>9. Len(cs') = Len(cs) + 1 /\ Len(cs') <= StackSize /\ Len(cs) < Len(cs') /\ 0 \in 0..CodeLen
  BY <1>1, <1>4, <1>5, ParameterAssumption DEF Grown
<1>10. Entering(a)
  BY <1>1, <1>3, <1>5, <1>9 DEF Entering, Grown
<1>11. ByPortal(a, p)
  BY <1>1, <1>3, <1>5, <1>6, <1>7, <1>8, <1>9 DEF ByPortal, Grown
<1> QED BY <1>10, <1>11, EnteringKeeps

\* EXECUTE or CATCH of a primitive, EVALUATE and INCLUDED.
LEMMA NestKeeps ==
  ASSUME IInv, NEW kind \in {"execute", "evaluate", "catch"}, Nest(kind) PROVE IInv'
<1>1. exc = None /\ portals # <<>> /\ thread # "epilogue" /\ After \in Place
  BY FetchPlaces DEF Nest
<1>2. OpenPortal(kind, After) /\ Enter(After, IF kind = "catch" THEN "catch" ELSE "run")
  BY DEF Nest
<1>3. kind # "line" /\ kind \in {"line", "execute", "evaluate", "catch"}
  OBVIOUS
<1> QED BY <1>1, <1>2, <1>3, OpenPortalKeeps

\* A line of input, from the idle machine.
LEMMA StartLineKeeps == ASSUME IInv, StartLine PROVE IInv'
<1>1. exc = None /\ portals = <<>> /\ OpenPortal("line", Entry("now", 0)) /\ Enter(Idle, "run")
  BY DEF StartLine
<1>2. thread # "epilogue"
  BY <1>1 DEF IInv, IdleEmpty, FramesSound
<1>3. Entry("now", 0) \in Place
  BY ParameterAssumption DEF Entry, Place
<1> QED BY <1>1, <1>2, <1>3, OpenPortalKeeps

-----------------------------------------------------------------------------
(* Steps that end activations: a return, the epilogue, a THROW that lands. *)

\* All that lies above c on cs, above m, g and r on the others, is gone.
Cut(c, m, g, r) ==
  /\ c \in 0..Len(cs) /\ m \in 0..Len(acts) /\ g \in 0..Len(frames) /\ r \in 0..Len(portals)
  /\ cs' \in Seq(Entries) /\ CutTo(cs, cs', c)
  /\ acts' \in Seq(ActType) /\ CutTo(acts, acts', m)
  /\ frames' \in Seq(Frame) /\ CutTo(frames, frames', g)
  /\ portals' \in Seq(Portal) /\ CutTo(portals, portals', r)
  /\ portals # <<>> /\ exc # Quit /\ exc' = None
  /\ Here' \in Place \cup {Epilogue, Entry("epilogue", 1)}

\* The cut is at the same place on all four, but that the frame of an epilogue
\* that begins is still there.
CutMarks(c, m) ==
  /\ \A k \in 1..Len(acts) :
       k <= m <=> /\ acts[k].mark <= c
                  /\ ~ (thread' = "epilogue" /\ acts[k].mark = c)
  /\ thread = "epilogue" /\ c = Len(cs) => thread' = "epilogue"

CutFrames(c, g) ==
  /\ \A i \in 1..g :
       /\ ~ (Here = Epilogue /\ i = Len(frames))
       /\ IF Here' = Epilogue /\ i = g THEN frames[i].control + 1 = c
                                       ELSE frames[i].control + 2 <= c
  /\ \A i \in 1..Len(frames) : frames[i].control + 2 <= c => i <= g
  /\ Here' = Epilogue => g > 0
  /\ thread' = "epilogue" => c > 0 /\ cs[c] \in Place

CutPortals(c, m, g, r) ==
  /\ \A j \in 1..r : portals[j].base < c /\ portals[j].catch_ptr <= g
  /\ \A q \in 1..c : cs[q] = Halt => \E j \in 1..r : portals[j].base + 1 = q
  /\ r > 0 => cs_base' = portals[r].base
  /\ cs_base' \in 0..StackSize
  /\ r = 0 => c = 0 /\ g = 0 /\ m = 0

CutHandlers(m, g, r) ==
  \A k \in 1..m :
    /\ \A i \in 1..Len(frames) : acts[k].mark = frames[i].control + 1 => i <= g
    /\ \A j \in 1..Len(portals) : acts[k].mark = portals[j].base + 1 => j <= r
    /\ Len(acts[k].loops) <= lc_depth'

\* Whatever the cut, its parts are lengths.
LEMMA CutLengths ==
  ASSUME IInv, NEW c, NEW m, NEW g, NEW r, Cut(c, m, g, r)
  PROVE  /\ c \in Nat /\ m \in Nat /\ g \in Nat /\ r \in Nat
         /\ Len(cs') = c /\ Len(acts') = m /\ Len(frames') = g /\ Len(portals') = r
         /\ \A q \in 1..c : cs'[q] = cs[q] /\ q \in 1..Len(cs)
         /\ \A k \in 1..m : acts'[k] = acts[k] /\ k \in 1..Len(acts)
         /\ \A i \in 1..g : frames'[i] = frames[i] /\ i \in 1..Len(frames)
         /\ \A j \in 1..r : portals'[j] = portals[j] /\ j \in 1..Len(portals)
<1>1. Len(cs) \in Nat /\ Len(frames) \in Nat /\ Len(portals) \in Nat /\ Len(acts) \in Nat
  BY Lengths DEF IInv
<1>2. c \in 0..Len(cs) /\ m \in 0..Len(acts) /\ g \in 0..Len(frames) /\ r \in 0..Len(portals)
  BY DEF Cut
<1>3. CutTo(cs, cs', c) /\ CutTo(acts, acts', m) /\ CutTo(frames, frames', g)
      /\ CutTo(portals, portals', r)
  BY DEF Cut
<1>4. /\ \A q \in 1..c : q \in 1..Len(cs)
      /\ \A q \in 1..m : q \in 1..Len(acts)
      /\ \A q \in 1..g : q \in 1..Len(frames)
      /\ \A q \in 1..r : q \in 1..Len(portals)
  BY <1>1, <1>2
<1>5. c \in Nat /\ m \in Nat /\ g \in Nat /\ r \in Nat
  BY <1>1, <1>2
<1> QED BY <1>3, <1>4, <1>5 DEF CutTo

\* What is left of cs belongs to the activations that are left.
LEMMA CutMarksSound ==
  ASSUME IInv, NEW c, NEW m, NEW g, NEW r, Cut(c, m, g, r), CutMarks(c, m)
  PROVE  MarksSound'
<1>1. /\ c \in 0..Len(cs) /\ Len(cs') = c /\ Len(acts') = m /\ c \in Nat
      /\ \A q \in 1..c : cs'[q] = cs[q] /\ q \in 1..Len(cs)
      /\ \A k \in 1..m : acts'[k] = acts[k] /\ k \in 1..Len(acts)
  BY CutLengths DEF Cut
<1>2. /\ \A k \in 1..Len(acts) : acts[k].mark \in 1..Len(cs) /\ cs[acts[k].mark] # Epilogue
      /\ \A j, k \in 1..Len(acts) : j < k => acts[j].mark < acts[k].mark
      /\ \A q \in 1..Len(cs) : \/ cs[q] = Epilogue
                               \/ \E k \in 1..Len(acts) : acts[k].mark = q
                               \/ thread = "epilogue" /\ q = Len(cs)
  <2>1. ~Ended
    BY DEF Ended, Cut
  <2>2. MarksSound
    BY DEF IInv
  <2>3. \A k \in 1..Len(acts) : acts[k].mark \in 1..Len(cs) /\ cs[acts[k].mark] # Epilogue
    BY <2>1, <2>2 DEF MarksSound
  <2>4. \A j, k \in 1..Len(acts) : j < k => acts[j].mark < acts[k].mark
    BY <2>1, <2>2 DEF MarksSound
  <2>5. \A q \in 1..Len(cs) : \/ cs[q] = Epilogue
                              \/ \E k \in 1..Len(acts) : acts[k].mark = q
                              \/ thread = "epilogue" /\ q = Len(cs)
    BY <2>1, <2>2 DEF MarksSound
  <2> QED BY <2>3, <2>4, <2>5
<1>3. ASSUME NEW k \in 1..m
      PROVE  /\ acts'[k].mark \in 1..c /\ cs'[acts'[k].mark] # Epilogue
             /\ thread' = "epilogue" => acts'[k].mark # c
  <2>1. acts'[k] = acts[k] /\ k \in 1..Len(acts) /\ k <= m
    BY <1>1
  <2>2. acts[k].mark <= c /\ (thread' = "epilogue" => acts[k].mark # c)
    BY <2>1 DEF CutMarks
  <2>3. acts[k].mark \in 1..c /\ cs[acts[k].mark] # Epilogue
    BY <2>1, <2>2, <1>1, <1>2
  <2> QED BY <2>1, <2>2, <2>3, <1>1
<1>4. ASSUME NEW q \in 1..c
      PROVE  \/ cs'[q] = Epilogue
             \/ \E k \in 1..m : acts'[k].mark = q
             \/ thread' = "epilogue" /\ q = c
  <2>1. cs'[q] = cs[q] /\ q \in 1..Len(cs) /\ q <= c
    BY <1>1
  <2>2. CASE thread = "epilogue" /\ q = Len(cs)
    <3>1. c = Len(cs)
      BY <2>1, <2>2, <1>1
    <3> QED BY <3>1, <2>2 DEF CutMarks
  <2>3. ASSUME NEW k \in 1..Len(acts), acts[k].mark = q
        PROVE  (\E l \in 1..m : acts'[l].mark = q) \/ (thread' = "epilogue" /\ q = c)
    <3>1. CASE ~ (thread' = "epilogue" /\ q = c)
      <4>1. k <= m
        BY <2>1, <2>3, <3>1 DEF CutMarks
      <4>2. k \in 1..m
        BY <4>1, <1>1, CutLengths
      <4> QED BY <4>2, <2>3, <1>1
    <3> QED BY <3>1
  <2> QED BY <2>1, <2>2, <2>3, <1>2
<1> QED BY <1>1, <1>2, <1>3, <1>4 DEF MarksSound

\* The frames that are left have their entries left.
LEMMA CutFramesSound ==
  ASSUME IInv, NEW c, NEW m, NEW g, NEW r, Cut(c, m, g, r), CutFrames(c, g)
  PROVE  FramesSound'
<1>1. /\ c \in Nat /\ g \in Nat /\ Len(cs') = c /\ Len(frames') = g
      /\ \A q \in 1..c : cs'[q] = cs[q] /\ q \in 1..Len(cs)
      /\ \A i \in 1..g : frames'[i] = frames[i] /\ i \in 1..Len(frames)
      /\ \A i \in 1..Len(frames) : frames[i].control \in Nat
  BY CutLengths, Lengths DEF IInv
<1>2. ASSUME NEW i \in 1..g PROVE FrameAt(i)'
  <2>1. /\ frames'[i] = frames[i] /\ i \in 1..Len(frames) /\ frames[i].control \in Nat
    BY <1>1
  <2>2. /\ cs[frames[i].control + 1] = Entry(frames[i].thread, frames[i].ip)
        /\ cs[frames[i].control + 2] = Epilogue
    BY <2>1 DEF IInv, FramesSound, FrameAt, CutFrames
  <2>3. CASE Here' = Epilogue /\ i = g
    <3>1. frames[i].control + 1 = c
      BY <2>3 DEF CutFrames
    <3>2. frames[i].control < c /\ frames[i].control + 1 \in 1..c
      BY <3>1, <2>1, <1>1
    <3> QED BY <3>1, <3>2, <2>1, <2>2, <2>3, <1>1 DEF FrameAt
  <2>4. CASE ~ (Here' = Epilogue /\ i = g)
    <3>1. frames[i].control + 2 <= c
      BY <2>4 DEF CutFrames
    <3>2. /\ frames[i].control < c /\ frames[i].control + 1 < c
          /\ frames[i].control + 1 \in 1..c /\ frames[i].control + 2 \in 1..c
      BY <3>1, <2>1, <1>1
    <3> QED BY <3>2, <2>1, <2>2, <2>4, <1>1 DEF FrameAt
  <2> QED BY <2>3, <2>4
<1>3. \A i, j \in 1..g : i < j => frames'[i].control + 1 < frames'[j].control
  BY <1>1 DEF IInv, FramesSound
<1>4. ASSUME NEW q \in 1..c, cs'[q] = Epilogue
      PROVE  \E i \in 1..g : frames'[i].control + 2 = q
  <2>1. PICK i \in 1..Len(frames) : frames[i].control + 2 = q
    BY <1>1, <1>4 DEF IInv, FramesSound
  <2>2. i <= g
    BY <2>1, <1>1 DEF CutFrames
  <2>3. i \in 1..g
    BY <2>2, <1>1
  <2> QED BY <2>1, <2>3, <1>1
<1>5. thread' = "epilogue" => cs' # <<>> /\ cs'[c] \in Place
  <2>1. ASSUME thread' = "epilogue" PROVE cs' # <<>> /\ cs'[c] \in Place
    <3>1. c > 0 /\ cs[c] \in Place
      BY <2>1 DEF CutFrames
    <3>2. c \in 1..c
      BY <3>1, <1>1
    <3> QED BY <3>1, <3>2, <1>1, EmptySeq
  <2> QED BY <2>1
<1>6. Here' = Epilogue => frames' # <<>>
  BY <1>1, EmptySeq DEF CutFrames
<1> QED BY <1>1, <1>2, <1>3, <1>4, <1>5, <1>6 DEF FramesSound

\* The portals that are left have their HALT left.
LEMMA CutPortalsSound ==
  ASSUME IInv, NEW c, NEW m, NEW g, NEW r, Cut(c, m, g, r), CutPortals(c, m, g, r)
  PROVE  PortalsSound'
<1>1. /\ c \in Nat /\ g \in Nat /\ r \in Nat
      /\ Len(cs') = c /\ Len(frames') = g /\ Len(portals') = r
      /\ \A q \in 1..c : cs'[q] = cs[q] /\ q \in 1..Len(cs)
      /\ \A i \in 1..g : frames'[i] = frames[i] /\ i \in 1..Len(frames)
      /\ \A j \in 1..r : portals'[j] = portals[j] /\ j \in 1..Len(portals)
      /\ \A j \in 1..Len(portals) : portals[j].base \in Nat
  BY CutLengths, Lengths DEF IInv
<1>2. ASSUME NEW j \in 1..r PROVE PortalAt(j)'
  <2>1. PICK b : b = portals[j].base
    OBVIOUS
  <2>2. portals'[j] = portals[j] /\ j \in 1..Len(portals) /\ PortalAt(j) /\ b \in Nat
    BY <2>1, <1>1 DEF IInv, PortalsSound
  <2>3. b < c /\ portals[j].catch_ptr <= g
    BY <2>1 DEF CutPortals
  <2>4. cs[b + 1] = Halt /\ b + 1 \in 1..c
    BY <2>1, <2>2, <2>3, <1>1 DEF PortalAt
  <2>5. \A i \in 1..g : i <= portals[j].catch_ptr <=> frames'[i].control < b
    BY <2>1, <2>2, <1>1 DEF PortalAt
  <2>6. j # 1 => j - 1 \in 1..r
    BY <1>1
  <2>7. IF j = 1 THEN b = 0 ELSE portals'[j].saved_base = portals'[j - 1].base
    BY <2>1, <2>2, <2>6, <1>1 DEF PortalAt
  <2>8. portals[j].kind = "line" <=> j = 1
    BY <2>2 DEF PortalAt
  <2> QED BY <2>1, <2>2, <2>3, <2>4, <2>5, <2>7, <2>8, <1>1 DEF PortalAt
<1>3. \A i, j \in 1..r : i < j => portals'[i].base < portals'[j].base
  BY <1>1 DEF IInv, PortalsSound
<1>4. portals' # <<>> => cs_base' = portals'[r].base
  <2>1. portals' # <<>> => r > 0 /\ r \in 1..r
    BY <1>1, EmptySeq DEF Cut
  <2> QED BY <2>1, <1>1 DEF CutPortals
<1>5. \A q \in 1..c : cs'[q] = Halt => \E j \in 1..r : portals'[j].base + 1 = q
  BY <1>1 DEF CutPortals
<1> QED BY <1>1, <1>2, <1>3, <1>4, <1>5 DEF PortalsSound, HaltAt

\* The handlers that are left have their activations left.
LEMMA CutHandlersSound ==
  ASSUME IInv, NEW c, NEW m, NEW g, NEW r, Cut(c, m, g, r), CutMarks(c, m),
         CutHandlers(m, g, r)
  PROVE  HandlersSound' /\ LoopsNest'
<1>1. /\ c \in Nat /\ g \in Nat /\ r \in Nat /\ m \in Nat
      /\ Len(cs') = c /\ Len(frames') = g /\ Len(portals') = r /\ Len(acts') = m
      /\ \A q \in 1..c : cs'[q] = cs[q] /\ q \in 1..Len(cs)
      /\ \A i \in 1..g : frames'[i] = frames[i] /\ i \in 1..Len(frames)
      /\ \A j \in 1..r : portals'[j] = portals[j] /\ j \in 1..Len(portals)
      /\ \A k \in 1..m : acts'[k] = acts[k] /\ k \in 1..Len(acts)
  BY CutLengths
<1>2. ASSUME NEW k \in 1..m PROVE ActAt(k)'
  <2>1. acts'[k] = acts[k] /\ k \in 1..Len(acts) /\ k <= m /\ ActAt(k)
        /\ acts[k].mark \in 1..Len(cs)
    BY <1>1 DEF IInv, HandlersSound, MarksSound, Ended, Cut
  <2>2. acts[k].mark \in 1..c
    BY <2>1, <1>1 DEF CutMarks
  <2>3. cs'[acts[k].mark] = cs[acts[k].mark]
    BY <2>2, <1>1
  <2>4. acts[k].kind = "catch" =>
          \/ \E i \in 1..g : acts[k].mark = frames[i].control + 1
          \/ \E j \in 1..r : acts[k].mark = portals[j].base + 1
    <3>1. acts[k].kind = "catch" =>
            \/ \E i \in 1..Len(frames) : acts[k].mark = frames[i].control + 1
            \/ \E j \in 1..Len(portals) : acts[k].mark = portals[j].base + 1
      BY <2>1 DEF ActAt, Cut
    <3>2. ASSUME NEW i \in 1..Len(frames), acts[k].mark = frames[i].control + 1
          PROVE  i \in 1..g
      BY <3>2, <1>1 DEF CutHandlers
    <3>3. ASSUME NEW j \in 1..Len(portals), acts[k].mark = portals[j].base + 1
          PROVE  j \in 1..r
      BY <3>3, <1>1 DEF CutHandlers
    <3> QED BY <3>1, <3>2, <3>3
  <2>5. \A i \in 1..Len(frames') : acts'[k].mark = frames'[i].control + 1 =>
          acts'[k].kind = "catch" /\ Saved(frames'[i], acts'[k])
    BY <2>1, <1>1 DEF ActAt
  <2>6. ASSUME NEW j \in 1..r, acts'[k].mark = portals'[j].base + 1
        PROVE  /\ acts'[k].kind = (IF portals'[j].kind = "catch" THEN "catch" ELSE "run")
               /\ acts'[k].ret = (IF j = 1 THEN Idle ELSE portals'[j].caller)
               /\ Saved(portals'[j], acts'[k])
    <3>1. portals'[j] = portals[j] /\ j \in 1..Len(portals)
      BY <1>1
    <3> QED BY <3>1, <2>1, <2>6 DEF ActAt
  <2>7. cs'[acts'[k].mark] # Halt => acts'[k].ret = cs'[acts'[k].mark]
    BY <2>1, <2>3 DEF ActAt
  <2>8. acts'[k].kind = "catch" =>
          \/ \E i \in 1..Len(frames') : acts'[k].mark = frames'[i].control + 1
          \/ \E j \in 1..Len(portals') : acts'[k].mark = portals'[j].base + 1
    BY <2>1, <2>4, <1>1
  <2> QED BY <2>5, <2>6, <2>7, <2>8, <1>1 DEF ActAt
<1>3. \A j, k \in 1..m : j < k => Len(acts'[j].loops) <= Len(acts'[k].loops)
  BY <1>1 DEF IInv, LoopsNest, Ended, Cut
<1>4. \A k \in 1..m : Len(acts'[k].loops) <= lc_depth'
  BY <1>1 DEF CutHandlers
<1> QED BY <1>1, <1>2, <1>3, <1>4 DEF HandlersSound, LoopsNest

\* A cut that is the same on all four keeps the invariant.
LEMMA CutKeeps ==
  ASSUME IInv, NEW c, NEW m, NEW g, NEW r, Cut(c, m, g, r), CutMarks(c, m),
         CutFrames(c, g), CutPortals(c, m, g, r), CutHandlers(m, g, r), LoopsTypedNext
  PROVE  IInv'
<1>1. /\ c \in 0..Len(cs) /\ g \in 0..Len(frames)
      /\ Len(cs) \in Nat /\ Len(frames) \in Nat
      /\ Len(cs) <= StackSize /\ Len(frames) <= CatchDepth
  BY Lengths DEF IInv, Shape, Cut
<1>2. Len(cs') <= StackSize /\ Len(frames') <= CatchDepth
  BY <1>1, CutLengths, ParameterAssumption
<1>3. exc' = None
  BY DEF Cut
<1>4. Shape'
  BY <1>2, <1>3 DEF Cut, CutPortals, LoopsTypedNext, Shape
<1>5. IdleEmpty'
  <2>1. portals' = <<>> => r = 0
    BY CutLengths, EmptySeq
  <2>2. r = 0 => Len(cs') = 0 /\ Len(frames') = 0 /\ Len(acts') = 0
    BY CutLengths DEF CutPortals
  <2>3. cs' \in Seq(Entries) /\ frames' \in Seq(Frame) /\ acts' \in Seq(ActType)
    BY DEF Cut
  <2>4. r = 0 => cs' = <<>> /\ frames' = <<>> /\ acts' = <<>>
    BY <2>2, <2>3, EmptySeq
  <2> QED BY <2>1, <2>4 DEF IdleEmpty
<1>6. AbortAtTop'
  BY <1>3, ParameterAssumption DEF AbortAtTop
<1> QED BY <1>4, <1>5, <1>6, CutMarksSound, CutFramesSound, CutPortalsSound,
           CutHandlersSound DEF IInv

\* What lies on top of cs is the innermost activation's: its return address,
\* or the epilogue above it.
LEMMA TopOfControl ==
  ASSUME IInv, portals # <<>>, thread # "epilogue",
         NEW n, n = Len(cs), NEW m, m = Len(acts), NEW g, g = Len(frames)
  PROVE  /\ n \in Nat \ {0} /\ m \in Nat \ {0} /\ g \in Nat
         /\ \A k \in 1..m : acts[k].mark \in 1..n
         /\ \A k \in 1..(m - 1) : acts[k].mark < acts[m].mark
         /\ cs[n] # Epilogue => acts[m].mark = n
         /\ cs[n] = Epilogue => /\ n > 1 /\ cs[n - 1] \in Place /\ acts[m].mark = n - 1
                                /\ g > 0 /\ frames[g].control + 2 = n
                                /\ \A i \in 1..(g - 1) : frames[i].control + 3 < n
<1>1. n \in Nat \ {0} /\ m \in Nat \ {0} /\ g \in Nat
  BY RunningHasActivation, Lengths DEF IInv
<1>2. ~Ended
  BY DEF Ended
<1>3. /\ \A k \in 1..m : acts[k].mark \in 1..n /\ cs[acts[k].mark] # Epilogue
      /\ \A j, k \in 1..m : j < k => acts[j].mark < acts[k].mark
      /\ \A q \in 1..n : cs[q] = Epilogue \/ (\E k \in 1..m : acts[k].mark = q)
  BY <1>2 DEF IInv, MarksSound
<1>4. m \in 1..m /\ n \in 1..n
  BY <1>1
<1>5. \A k \in 1..m : k = m \/ k \in 1..(m - 1)
  BY <1>1
<1>6. \A k \in 1..(m - 1) : k \in 1..m /\ k < m
  BY <1>1
<1>7. \A k \in 1..(m - 1) : acts[k].mark < acts[m].mark
  BY <1>3, <1>4, <1>6
<1>8. ASSUME cs[n] # Epilogue PROVE acts[m].mark = n
  <2>1. PICK k \in 1..m : acts[k].mark = n
    BY <1>3, <1>4, <1>8
  <2>2. acts[m].mark <= n
    BY <1>1, <1>3, <1>4
  <2>3. ~ (k \in 1..(m - 1))
    BY <2>1, <2>2, <1>1, <1>3, <1>4, <1>7
  <2> QED BY <2>1, <2>3, <1>5
<1>9. ASSUME cs[n] = Epilogue
      PROVE  /\ n > 1 /\ cs[n - 1] \in Place /\ acts[m].mark = n - 1
             /\ g > 0 /\ frames[g].control + 2 = n
             /\ \A i \in 1..(g - 1) : frames[i].control + 3 < n
  <2>1. /\ \A i \in 1..g : /\ frames[i].control + 2 <= n /\ frames[i].control \in Nat
                           /\ cs[frames[i].control + 1] \in Place
        /\ \A i, j \in 1..g : i < j => frames[i].control + 1 < frames[j].control
    BY FramesCalm, Lengths DEF IInv, FramesSound
  <2>2. PICK i \in 1..g : frames[i].control + 2 = n
    BY <1>4, <1>9 DEF IInv, FramesSound
  <2>3. g \in 1..g /\ g > 0
    BY <1>1, <2>2
  <2>4. ~ (i < g)
    BY <2>1, <2>2, <2>3, <1>1, SMTT(30)
  <2>5. i = g
    BY <2>2, <2>4, <1>1
  <2>6. frames[g].control \in Nat /\ frames[g].control + 1 = n - 1 /\ n > 1
    BY <2>1, <2>2, <2>3, <2>5, <1>1, SMTT(30)
  <2>7. cs[n - 1] \in Place
    BY <2>1, <2>3, <2>6
  <2>8. n - 1 \in 1..n /\ cs[n - 1] # Epilogue
    BY <2>6, <2>7, <1>1, Special
  <2>9. PICK k \in 1..m : acts[k].mark = n - 1
    BY <2>8, <1>3
  <2>10. acts[m].mark \in 1..n /\ acts[m].mark # n
    BY <1>3, <1>4, <1>9
  <2>11. ~ (k \in 1..(m - 1))
    BY <2>9, <2>10, <1>1, <1>7
  <2>12. acts[m].mark = n - 1
    BY <2>9, <2>11, <1>5
  <2>13. \A l \in 1..(g - 1) : frames[l].control + 3 < n
    <3> TAKE l \in 1..(g - 1)
    <3>1. l \in 1..g /\ l < g
      BY <1>1
    <3>2. frames[l].control + 1 < frames[g].control /\ frames[l].control \in Nat
      BY <3>1, <2>1, <2>3
    <3> QED BY <3>2, <2>6, <1>1
  <2> QED BY <2>3, <2>5, <2>2, <2>6, <2>7, <2>12, <2>13
<1> QED BY <1>1, <1>3, <1>7, <1>8, <1>9

\* A HALT on top is the innermost portal's.
LEMMA TopPortal ==
  ASSUME IInv, portals # <<>>, exc = None, NEW n, n = Len(cs), cs[n] = Halt,
         NEW r, r = Len(portals)
  PROVE  portals[r].base + 1 = n
<1>1. n \in Nat \ {0} /\ r \in Nat \ {0}
  BY RunningHasActivation
<1>2. n \in 1..n /\ r \in 1..r
  BY <1>1
<1>3. PICK j \in 1..r : portals[j].base + 1 = n
  BY <1>2 DEF IInv, PortalsSound, HaltAt
<1>4. portals[r].base < n /\ portals[r].base \in Nat
  BY <1>2, Lengths DEF IInv, PortalsSound, PortalAt
<1>5. j < r => portals[j].base < portals[r].base
  BY <1>2 DEF IInv, PortalsSound
<1>6. portals[j].base \in Nat
  BY <1>3, Lengths DEF IInv
<1>7. ~ (j < r)
  BY <1>1, <1>3, <1>4, <1>5, <1>6
<1> QED BY <1>1, <1>3, <1>7

\* What is kept whole is a cut, too.
LEMMA WholeCuts ==
  ASSUME NEW S, NEW s \in Seq(S) PROVE CutTo(s, s, Len(s)) /\ Len(s) \in 0..Len(s)
BY LenProperties DEF CutTo

\* Pops of cs, by a return or by the end of a portal.
LEMMA PopCut ==
  ASSUME IInv, portals # <<>>, exc = None, exc' = None,
         NEW n, n = Len(cs), NEW m, m = Len(acts), NEW g, g = Len(frames), NEW r, r = Len(portals),
         cs' = Front(cs), acts' = acts \/ acts' = Front(acts),
         portals' = portals \/ portals' = Front(portals), frames' = frames,
         Here' \in Place \cup {Epilogue, Entry("epilogue", 1)}
  PROVE  Cut(n - 1, IF acts' = acts THEN m ELSE m - 1, g,
             IF portals' = portals THEN r ELSE r - 1)
<1>1. /\ cs \in Seq(Entries) /\ acts \in Seq(ActType) /\ frames \in Seq(Frame)
      /\ portals \in Seq(Portal) /\ cs # <<>> /\ acts # <<>>
      /\ n \in Nat \ {0} /\ m \in Nat \ {0} /\ g \in Nat /\ r \in Nat \ {0}
  <2>1. n \in Nat \ {0} /\ m \in Nat \ {0} /\ r \in Nat \ {0}
    BY RunningHasActivation
  <2>2. cs # <<>> /\ acts # <<>>
    BY <2>1, EmptySeq
  <2> QED BY <2>1, <2>2, Lengths DEF IInv, Shape
<1>2. cs' \in Seq(Entries) /\ CutTo(cs, cs', n - 1)
  BY <1>1, FrontCuts
<1>3. /\ acts' \in Seq(ActType)
      /\ CutTo(acts, acts', IF acts' = acts THEN m ELSE m - 1)
  BY <1>1, FrontCuts, WholeCuts, SMTT(30)
<1>4. /\ portals' \in Seq(Portal)
      /\ CutTo(portals, portals', IF portals' = portals THEN r ELSE r - 1)
  BY <1>1, FrontCuts, WholeCuts
<1>5. frames' \in Seq(Frame) /\ CutTo(frames, frames', g)
  BY <1>1, WholeCuts
<1>6. /\ n - 1 \in 0..Len(cs) /\ (IF acts' = acts THEN m ELSE m - 1) \in 0..Len(acts)
      /\ (IF portals' = portals THEN r ELSE r - 1) \in 0..Len(portals) /\ g \in 0..Len(frames)
  BY <1>1
<1> QED BY <1>2, <1>3, <1>4, <1>5, <1>6, ParameterAssumption DEF Cut

\* EXIT and the end of a definition; the end of the epilogue.
LEMMA ReturnKeeps == ASSUME IInv, Return PROVE IInv'
<1>1. /\ exc = None /\ portals # <<>> /\ Last(cs) # Halt /\ exc' = None
      /\ thread' = Last(cs).thread /\ ip' = Last(cs).ip
      /\ cs' = Front(cs) /\ acts' = (IF thread = "epilogue" THEN acts ELSE Front(acts))
      /\ UNCHANGED <<cs_base, frames, portals, loopVars, rs_ptr>>
      /\ thread = "epilogue" => ip = 1
  BY ParameterAssumption DEF Return, AtReturn, Running, GoTo
<1>2. PICK n, m, g, r : n = Len(cs) /\ m = Len(acts) /\ g = Len(frames) /\ r = Len(portals)
  OBVIOUS
<1>3. /\ n \in Nat \ {0} /\ m \in Nat \ {0} /\ r \in Nat \ {0} /\ g \in Nat
      /\ cs \in Seq(Entries) /\ acts \in Seq(ActType)
  BY <1>1, <1>2, RunningHasActivation, Lengths DEF IInv, Shape
<1>4. Last(cs) = cs[n] /\ cs[n] \in Place \cup {Epilogue}
  <2>1. cs # <<>>
    BY <1>2, <1>3, EmptySeq
  <2> QED BY <2>1, <1>1, <1>2, <1>3, FrontCuts DEF Entries
<1>5. Here # Epilogue
  BY <1>1, ShapeParts DEF IInv
<1>6. cs[n] = Epilogue => thread # "epilogue"
  BY <1>2, Special DEF IInv, FramesSound
<1>7. /\ cs[n] \in Place => thread' \in Word \cup {"now"} /\ ip' \in 0..CodeLen
      /\ cs[n] = Epilogue => Here' = Epilogue /\ thread' = "epilogue"
  <2>1. cs[n] \in Place => thread' \in Word \cup {"now"} /\ ip' \in 0..CodeLen
    BY <1>1, <1>4 DEF Place
  <2>2. ASSUME cs[n] = Epilogue PROVE thread' = "epilogue" /\ ip' = 0
    BY <2>2, <1>1, <1>4, Special DEF Epilogue
  <2>3. cs[n] = Epilogue => Here' = Epilogue
    BY <2>2 DEF Here, Epilogue
  <2> QED BY <2>1, <2>2, <2>3
<1>8. /\ cs[n] \in Place => Here' \in Place /\ thread' # "epilogue" /\ Here' # Epilogue
      /\ Here' \in Place \cup {Epilogue, Entry("epilogue", 1)}
  BY <1>4, <1>7, HereNext
<1>9. PICK a : a = IF thread = "epilogue" THEN m ELSE m - 1
  OBVIOUS
<1>10. Cut(n - 1, a, g, r)
  <2>1. acts' = acts <=> thread = "epilogue"
    <3>1. thread # "epilogue" => Len(acts') = m - 1
      <4>1. acts # <<>>
        BY <1>2, <1>3, EmptySeq
      <4> QED BY <4>1, <1>1, <1>2, <1>3, FrontCuts DEF CutTo
    <3> QED BY <3>1, <1>1, <1>2, <1>3
  <2> QED BY <2>1, <1>1, <1>2, <1>8, <1>9, PopCut
<1>11. a \in Nat /\ a <= m /\ \A k \in 1..a : k \in 1..m
  BY <1>3, <1>9
<1>12. /\ \A i \in 1..g : /\ frames[i].control + 2 <= n /\ frames[i].control \in Nat
                          /\ cs[frames[i].control + 2] = Epilogue
       /\ \A j \in 1..r : /\ portals[j].base < n /\ portals[j].base \in Nat
                          /\ cs[portals[j].base + 1] = Halt /\ portals[j].catch_ptr <= g
  <2>1. \A i \in 1..g : /\ frames[i].control + 1 < n /\ frames[i].control \in Nat
                        /\ cs[frames[i].control + 2] = Epilogue
    BY <1>2, <1>5, Lengths DEF IInv, FramesSound, FrameAt
  <2>2. \A i \in 1..g : frames[i].control + 2 <= n
    BY <2>1, <1>3
  <2> QED BY <2>1, <2>2, <1>2, Lengths DEF IInv, PortalsSound, PortalAt
<1>13. CutMarks(n - 1, a)
  <2>1. CASE thread = "epilogue"
    <3>1. \A k \in 1..m : acts[k].mark \in 1..n /\ acts[k].mark # n
      BY <2>1, <1>1, <1>2 DEF IInv, MarksSound, Ended
    <3>2. \A k \in 1..m : k <= a /\ acts[k].mark <= n - 1
      BY <3>1, <2>1, <1>3, <1>9
    <3>3. thread' # "epilogue"
      BY <2>1, <1>4, <1>6, <1>8
    <3>4. n - 1 # n
      BY <1>3
    <3> QED BY <3>2, <3>3, <3>4, <1>2 DEF CutMarks
  <2>2. CASE thread # "epilogue"
    <3>1. /\ \A k \in 1..m : acts[k].mark \in 1..n
          /\ \A k \in 1..(m - 1) : acts[k].mark < acts[m].mark
          /\ acts[m].mark = (IF cs[n] = Epilogue THEN n - 1 ELSE n)
      BY <2>2, <1>1, <1>2, TopOfControl
    <3>2. ASSUME NEW k \in 1..m
          PROVE  k <= a <=> /\ acts[k].mark <= n - 1
                            /\ ~ (thread' = "epilogue" /\ acts[k].mark = n - 1)
      <4>0. a = m - 1
        BY <2>2, <1>9
      <4>1. CASE k \in 1..(m - 1)
        <5>1. acts[k].mark \in 1..n /\ acts[m].mark \in Nat /\ acts[k].mark < acts[m].mark
          BY <4>1, <3>1, <1>3
        <5>2. acts[k].mark <= n - 1 /\ (cs[n] = Epilogue => acts[k].mark # n - 1)
          BY <5>1, <3>1, <1>3
        <5>3. thread' = "epilogue" => cs[n] = Epilogue
          BY <1>4, <1>8
        <5>4. k <= a
          BY <4>0, <4>1
        <5> QED BY <5>2, <5>3, <5>4
      <4>2. CASE k = m
        BY <4>0, <4>2, <3>1, <2>2, <1>3, <1>7, <1>9
      <4> QED BY <4>1, <4>2, <1>3
    <3> QED BY <3>2, <2>2, <1>2 DEF CutMarks
  <2> QED BY <2>1, <2>2
<1>14. CutFrames(n - 1, g)
  <2>1. CASE cs[n] \in Place
    <3>1. \A i \in 1..g : frames[i].control + 2 # n
      BY <2>1, <1>12, Special
    <3>2. \A i \in 1..g : frames[i].control + 2 <= n - 1 /\ i <= g
      <4> TAKE i \in 1..g
      <4>1. /\ frames[i].control + 2 # n /\ frames[i].control + 2 <= n
            /\ frames[i].control \in Nat
        BY <3>1, <1>12
      <4> QED BY <4>1, <1>3
    <3> QED BY <3>2, <2>1, <1>2, <1>5, <1>8 DEF CutFrames
  <2>2. CASE cs[n] = Epilogue
    <3>1. /\ n > 1 /\ cs[n - 1] \in Place /\ g > 0 /\ frames[g].control + 2 = n
          /\ \A i \in 1..(g - 1) : frames[i].control + 3 < n
      BY <2>2, <1>1, <1>2, <1>6, TopOfControl
    <3>2. \A i \in 1..g : i = g \/ (i # g /\ i \in 1..(g - 1))
      BY <1>3
    <3>3. frames[g].control + 1 = n - 1 /\ n - 1 > 0
      BY <3>1, <1>3, <1>12
    <3>4. \A i \in 1..(g - 1) : frames[i].control + 2 <= n - 1
      <4> TAKE i \in 1..(g - 1)
      <4>1. frames[i].control \in Nat /\ frames[i].control + 3 < n
        BY <3>1, <1>3, <1>12
      <4> QED BY <4>1, <1>3
    <3>5. \A i \in 1..g : i <= g
      BY <1>3
    <3> QED BY <3>1, <3>2, <3>3, <3>4, <3>5, <2>2, <1>2, <1>5, <1>7 DEF CutFrames
  <2> QED BY <2>1, <2>2, <1>4
<1>15. CutPortals(n - 1, a, g, r)
  <2>1. \A j \in 1..r : portals[j].base + 1 # n
    BY <1>1, <1>4, <1>12
  <2>2. \A j \in 1..r : portals[j].base < n - 1
    <3> TAKE j \in 1..r
    <3>1. portals[j].base + 1 # n /\ portals[j].base < n /\ portals[j].base \in Nat
      BY <2>1, <1>12
    <3> QED BY <3>1, <1>3
  <2>3. \A q \in 1..(n - 1) : q \in 1..n
    BY <1>3
  <2>4. \A q \in 1..(n - 1) : cs[q] = Halt => \E j \in 1..r : portals[j].base + 1 = q
    BY <2>3, <1>1, <1>2 DEF IInv, PortalsSound, HaltAt
  <2>5. cs_base' = portals[r].base /\ cs_base' \in 0..StackSize
    BY <1>1, <1>2 DEF IInv, PortalsSound, Shape
  <2> QED BY <2>2, <2>4, <2>5, <1>3, <1>12 DEF CutPortals
<1>16. CutHandlers(a, g, r)
  <2>1. \A k \in 1..m : Len(acts[k].loops) <= lc_depth'
    BY <1>1, <1>2 DEF IInv, LoopsNest, Ended, loopVars
  <2>2. (\A i \in 1..g : i <= g) /\ (\A j \in 1..r : j <= r)
    BY <1>3
  <2> QED BY <2>1, <2>2, <1>2, <1>11 DEF CutHandlers
<1>17. LoopsTypedNext
  BY <1>1 DEF LoopsTypedNext, IInv, Shape, loopVars
<1> QED BY <1>10, <1>13, <1>14, <1>15, <1>16, <1>17, CutKeeps

\* The end of execute_word_now.
LEMMA ReturnFromPortalKeeps == ASSUME IInv, ReturnFromPortal PROVE IInv'
<1>1. /\ exc = None /\ portals # <<>> /\ Last(cs) = Halt /\ exc' = None
      /\ thread' = Last(portals).caller.thread /\ ip' = Last(portals).caller.ip
      /\ cs' = Front(cs) /\ acts' = (IF thread = "epilogue" THEN acts ELSE Front(acts))
      /\ cs_base' = Last(portals).saved_base /\ portals' = Front(portals)
      /\ UNCHANGED <<frames, loopVars, rs_ptr>>
  BY DEF ReturnFromPortal, AtReturn, Running, GoTo, ClosePortal
<1>2. PICK n, m, g, r : n = Len(cs) /\ m = Len(acts) /\ g = Len(frames) /\ r = Len(portals)
  OBVIOUS
<1>3. /\ n \in Nat \ {0} /\ m \in Nat \ {0} /\ r \in Nat \ {0} /\ g \in Nat
      /\ cs \in Seq(Entries) /\ acts \in Seq(ActType) /\ portals \in Seq(Portal)
  BY <1>1, <1>2, RunningHasActivation, Lengths DEF IInv, Shape
<1>4. Last(cs) = cs[n] /\ Last(portals) = portals[r] /\ cs[n] = Halt
  BY <1>1, <1>2 DEF Last
<1>5. thread # "epilogue" /\ acts' = Front(acts)
  BY <1>1, <1>2, <1>4, Special DEF IInv, FramesSound
<1>6. Here # Epilogue
  BY <1>5, ShapeParts DEF IInv
<1>7. /\ Here' \in Place /\ thread' # "epilogue" /\ Here' # Epilogue
      /\ cs_base' \in 0..StackSize
  <2>1. portals[r] \in Portal
    BY <1>2, <1>3, ElementOfSeq
  <2>2. portals[r].caller \in Place /\ portals[r].saved_base \in 0..StackSize
    BY <2>1 DEF Portal
  <2>3. thread' \in Word \cup {"now"} /\ ip' \in 0..CodeLen
    BY <2>2, <1>1, <1>4 DEF Place
  <2> QED BY <2>2, <2>3, <1>1, <1>4, HereNext
<1>8. Cut(n - 1, m - 1, g, r - 1)
  <2>1. Len(acts') = m - 1 /\ Len(portals') = r - 1
    <3>1. acts # <<>>
      BY <1>2, <1>3, EmptySeq
    <3> QED BY <3>1, <1>1, <1>2, <1>3, <1>5, FrontCuts DEF CutTo
  <2>2. acts' # acts /\ portals' # portals
    BY <2>1, <1>2, <1>3
  <2> QED BY <2>2, <1>1, <1>2, <1>5, <1>7, PopCut
<1>9. /\ portals[r].base + 1 = n
      /\ \A k \in 1..m : acts[k].mark \in 1..n
      /\ \A k \in 1..(m - 1) : acts[k].mark < acts[m].mark
      /\ acts[m].mark = n
  BY <1>1, <1>2, <1>4, <1>5, Special, TopOfControl, TopPortal
<1>10. \A i \in 1..g : frames[i].control + 2 <= n - 1 /\ i <= g
  <2>1. \A i \in 1..g : /\ frames[i].control + 2 <= n /\ frames[i].control \in Nat
                        /\ cs[frames[i].control + 2] = Epilogue
    BY <1>2, <1>5, FramesCalm, Lengths DEF IInv
  <2>2. \A i \in 1..g : frames[i].control + 2 # n
    BY <2>1, <1>4, Special
  <2> QED BY <2>1, <2>2, <1>3
<1>11. CutMarks(n - 1, m - 1)
  <2>1. ASSUME NEW k \in 1..m PROVE k <= m - 1 <=> acts[k].mark <= n - 1
    <3>1. CASE k \in 1..(m - 1)
      BY <3>1, <1>3, <1>9
    <3>2. CASE k = m
      BY <3>2, <1>3, <1>9
    <3> QED BY <3>1, <3>2, <1>3
  <2> QED BY <2>1, <1>2, <1>5, <1>7 DEF CutMarks
<1>12. CutFrames(n - 1, g)
  BY <1>2, <1>6, <1>7, <1>10 DEF CutFrames
<1>13. CutPortals(n - 1, m - 1, g, r - 1)
  <2>1. \A j \in 1..(r - 1) : j \in 1..r /\ j < r
    BY <1>3
  <2>2. r \in 1..r
    BY <1>3
  <2>3. ASSUME NEW j \in 1..(r - 1)
        PROVE  portals[j].base < n - 1 /\ portals[j].catch_ptr <= g
    <3>1. portals[j].base < portals[r].base /\ portals[j].catch_ptr <= g
      BY <2>1, <2>2, <1>2 DEF IInv, PortalsSound, PortalAt
    <3>2. portals[r].base = n - 1
      <4>1. portals[r].base \in Nat
        BY <2>2, <1>2, Lengths DEF IInv
      <4> QED BY <4>1, <1>3, <1>9
    <3> QED BY <3>1, <3>2
  <2>4. ASSUME NEW q \in 1..(n - 1), cs[q] = Halt
        PROVE  \E j \in 1..(r - 1) : portals[j].base + 1 = q
    <3>1. q \in 1..n /\ q # n
      BY <1>3
    <3>2. PICK j \in 1..r : portals[j].base + 1 = q
      BY <3>1, <2>4, <1>1, <1>2 DEF IInv, PortalsSound, HaltAt
    <3>3. j \in 1..(r - 1)
      BY <3>1, <3>2, <1>3, <1>9
    <3> QED BY <3>2, <3>3
  <2>5. r - 1 > 0 => cs_base' = portals[r - 1].base
    <3>1. r - 1 > 0 => r # 1
      BY <1>3
    <3> QED BY <3>1, <2>2, <1>1, <1>2, <1>4 DEF IInv, PortalsSound, PortalAt
  <2>6. ASSUME r - 1 = 0 PROVE n - 1 = 0 /\ g = 0 /\ m - 1 = 0
    <3>1. r = 1
      BY <2>6, <1>3
    <3>2. portals[1].base = 0
      BY <3>1, <2>2, <1>2 DEF IInv, PortalsSound, PortalAt
    <3>3. n = 1
      BY <3>1, <3>2, <1>9
    <3>4. g = 0
      <4>1. \A i \in 1..g : FALSE
        BY <3>3, <1>2, <1>10, Lengths DEF IInv
      <4>2. g # 0 => 1 \in 1..g
        BY <1>3
      <4> QED BY <4>1, <4>2
    <3>5. m - 1 = 0
      <4>1. \A k \in 1..(m - 1) : k \in 1..m /\ acts[k].mark \in 1..1 /\ acts[k].mark < 1
        BY <3>3, <1>3, <1>9
      <4>2. m - 1 # 0 => 1 \in 1..(m - 1)
        BY <1>3
      <4> QED BY <4>1, <4>2
    <3> QED BY <3>3, <3>4, <3>5
  <2> QED BY <2>3, <2>4, <2>5, <2>6, <1>7 DEF CutPortals
<1>14. CutHandlers(m - 1, g, r - 1)
  <2>1. \A k \in 1..(m - 1) : k \in 1..m
    BY <1>3
  <2>2. \A k \in 1..m : Len(acts[k].loops) <= lc_depth'
    BY <1>1, <1>2 DEF IInv, LoopsNest, Ended, loopVars
  <2>3. ASSUME NEW k \in 1..(m - 1), NEW j \in 1..r, acts[k].mark = portals[j].base + 1
        PROVE  j <= r - 1
    <3>1. j # r
      BY <2>1, <2>3, <1>3, <1>9
    <3> QED BY <3>1, <1>3
  <2> QED BY <2>1, <2>2, <2>3, <1>2, <1>10 DEF CutHandlers
<1>15. LoopsTypedNext
  BY <1>1 DEF LoopsTypedNext, IInv, Shape, loopVars
<1> QED BY <1>8, <1>11, <1>12, <1>13, <1>14, <1>15, CutKeeps

\* The protected word has returned: its frame goes.
LEMMA CatchEpilogueKeeps == ASSUME IInv, CatchEpilogue PROVE IInv'
<1>1. /\ exc = None /\ portals # <<>> /\ Here = Epilogue /\ frames # <<>>
      /\ frames' = Front(frames) /\ ip' = 1 /\ exc' = None
      /\ UNCHANGED <<thread, cs, cs_base, portals, loopVars, rs_ptr, acts>>
  BY DEF CatchEpilogue, Running
<1>2. PICK n, m, g, r : n = Len(cs) /\ m = Len(acts) /\ g = Len(frames) /\ r = Len(portals)
  OBVIOUS
<1>3. /\ n \in Nat \ {0} /\ m \in Nat \ {0} /\ r \in Nat \ {0} /\ g \in Nat \ {0}
      /\ cs \in Seq(Entries) /\ acts \in Seq(ActType) /\ portals \in Seq(Portal)
      /\ frames \in Seq(Frame)
  BY <1>1, <1>2, RunningHasActivation, Lengths, EmptySeq DEF IInv, Shape
<1>4. thread = "epilogue" /\ thread' = "epilogue" /\ Here' = Entry("epilogue", 1)
  BY <1>1, ShapeParts DEF IInv, Here
<1>5. g \in 1..g /\ \A i \in 1..(g - 1) : i \in 1..g /\ i # g /\ i <= g - 1
  BY <1>3
<1>6. /\ frames[g].control + 1 = n /\ frames[g].control \in Nat
      /\ \A i \in 1..(g - 1) : frames[i].control + 1 < n /\ frames[i].control \in Nat
  BY <1>1, <1>2, <1>5, Lengths DEF IInv, FramesSound, FrameAt
<1>7. Cut(n, m, g - 1, r)
  <2>1. frames' \in Seq(Frame) /\ CutTo(frames, frames', g - 1)
    BY <1>1, <1>2, <1>3, FrontCuts
  <2>2. n \in 0..n /\ m \in 0..m /\ r \in 0..r /\ g - 1 \in 0..g
    BY <1>3
  <2> QED BY <2>1, <2>2, <1>1, <1>2, <1>3, <1>4, WholeCuts, ParameterAssumption DEF Cut
<1>8. CutMarks(n, m)
  <2>1. \A k \in 1..m : acts[k].mark \in 1..n /\ acts[k].mark # n
    BY <1>1, <1>2, <1>4 DEF IInv, MarksSound, Ended
  <2>2. \A k \in 1..m : k <= m /\ acts[k].mark <= n /\ acts[k].mark # n
    BY <2>1, <1>3
  <2> QED BY <2>2, <1>2, <1>4 DEF CutMarks
<1>9. CutFrames(n, g - 1)
  <2>1. Here' # Epilogue
    BY <1>4, Special
  <2>2. \A i \in 1..(g - 1) : frames[i].control + 2 <= n
    <3> TAKE i \in 1..(g - 1)
    <3>1. frames[i].control + 1 < n /\ frames[i].control \in Nat
      BY <1>6
    <3> QED BY <3>1, <1>3
  <2>3. \A i \in 1..g : frames[i].control + 2 <= n => i <= g - 1
    <3> TAKE i \in 1..g
    <3>1. i # g => i <= g - 1
      BY <1>3
    <3>2. ~ (frames[g].control + 2 <= n)
      BY <1>3, <1>6
    <3> QED BY <3>1, <3>2
  <2>4. n > 0 /\ cs[n] \in Place
    BY <1>2, <1>3, <1>4 DEF IInv, FramesSound
  <2> QED BY <2>1, <2>2, <2>3, <2>4, <1>2, <1>5 DEF CutFrames
<1>10. CutPortals(n, m, g - 1, r)
  <2>1. ASSUME NEW j \in 1..r PROVE portals[j].base < n /\ portals[j].catch_ptr <= g - 1
    <3>1. /\ portals[j].base < n /\ portals[j].catch_ptr <= g
          /\ g <= portals[j].catch_ptr <=> frames[g].control < portals[j].base
          /\ portals[j].base \in Nat /\ portals[j].catch_ptr \in Nat
      BY <1>2, <1>5, Lengths DEF IInv, PortalsSound, PortalAt
    <3>2. ~ (frames[g].control < portals[j].base)
      BY <3>1, <1>3, <1>6
    <3> QED BY <3>1, <3>2, <1>3
  <2>2. \A q \in 1..n : cs[q] = Halt => \E j \in 1..r : portals[j].base + 1 = q
    BY <1>1, <1>2 DEF IInv, PortalsSound, HaltAt
  <2>3. cs_base' = portals[r].base /\ cs_base' \in 0..StackSize
    BY <1>1, <1>2 DEF IInv, PortalsSound, Shape
  <2> QED BY <2>1, <2>2, <2>3, <1>3 DEF CutPortals
<1>11. CutHandlers(m, g - 1, r)
  <2>1. \A k \in 1..m : Len(acts[k].loops) <= lc_depth' /\ acts[k].mark # n
    BY <1>1, <1>2, <1>4 DEF IInv, LoopsNest, MarksSound, Ended, loopVars
  <2>2. ASSUME NEW k \in 1..m, NEW i \in 1..g, acts[k].mark = frames[i].control + 1
        PROVE  i <= g - 1
    <3>1. i # g
      BY <2>1, <2>2, <1>6
    <3> QED BY <3>1, <1>3
  <2>3. \A j \in 1..r : j <= r
    BY <1>3
  <2> QED BY <2>1, <2>2, <2>3, <1>2 DEF CutHandlers
<1>12. LoopsTypedNext
  BY <1>1 DEF LoopsTypedNext, IInv, Shape, loopVars
<1> QED BY <1>7, <1>8, <1>9, <1>10, <1>11, <1>12, CutKeeps

\* The nearest CATCH among the activations.
LEMMA NearestCatch ==
  ASSUME IInv, NEW h \in 1..Len(acts), acts[h].kind = "catch",
         \A k \in 1..Len(acts) : h < k => acts[k].kind # "catch"
  PROVE  /\ h = Max(Protected) /\ Protected # {}
         /\ DropActivations => /\ acts' \in Seq(ActType) /\ CutTo(acts, acts', h - 1)
                               /\ h - 1 \in 0..Len(acts)
<1>1. acts \in Seq(ActType) /\ Len(acts) \in Nat
  BY Lengths DEF IInv, Shape
<1>2. DOMAIN acts = 1..Len(acts)
  BY <1>1, LenProperties
<1>3. Protected = {k \in 1..Len(acts) : acts[k].kind = "catch"}
  BY <1>2 DEF Protected
<1>4. h \in Protected /\ \A k \in Protected : k \in Nat /\ h >= k
  BY <1>1, <1>3
<1>5. \A x \in Protected : (\A k \in Protected : x >= k) => x = h
  BY <1>4
<1>6. h = Max(Protected)
  BY <1>4, <1>5 DEF Max
<1>7. Protected # {}
  BY <1>4
<1>8. h - 1 \in 0..Len(acts)
  BY <1>1
<1>9. DropActivations => acts' = SubSeq(acts, 1, h - 1)
  BY <1>6, <1>7 DEF DropActivations
<1> QED BY <1>1, <1>6, <1>7, <1>8, <1>9, SubSeqCuts

\* What an exception in flight finds.
LEMMA Unwinds ==
  ASSUME IInv, Unwinding,
         NEW n, n = Len(cs), NEW m, m = Len(acts), NEW g, g = Len(frames), NEW r, r = Len(portals)
  PROVE  /\ n \in Nat \ {0} /\ m \in Nat \ {0} /\ r \in Nat \ {0} /\ g \in Nat
         /\ exc # None /\ portals # <<>> /\ thread # "epilogue" /\ Here # Epilogue
         /\ Last(portals) = portals[r] /\ cs_base = portals[r].base
         /\ \A i \in 1..g : /\ frames[i].control \in Nat /\ frames[i].control + 2 <= n
                            /\ cs[frames[i].control + 1] \in Place
                            /\ cs[frames[i].control + 2] = Epilogue
                            /\ frames[i].control <= frames[g].control
         /\ \A j \in 1..r : /\ portals[j].base \in Nat /\ portals[j].base < n
                            /\ cs[portals[j].base + 1] = Halt
                            /\ portals[j].base <= cs_base
         /\ \A k \in 1..m : acts[k].mark \in 1..n /\ ActAt(k)
         /\ \A j, k \in 1..m : j < k => acts[j].mark < acts[k].mark
         /\ \A q \in 1..n : cs[q] = Epilogue \/ \E k \in 1..m : acts[k].mark = q
<1>1. exc # None /\ portals # <<>> /\ ~Ended
  BY DEF Unwinding, Ended
<1>2. thread # "epilogue" /\ Here # Epilogue
  BY <1>1, FramesCalm DEF IInv, Shape
<1>3. n \in Nat \ {0} /\ m \in Nat \ {0} /\ r \in Nat \ {0} /\ g \in Nat
  BY <1>1, RunningHasActivation, Lengths DEF IInv
<1>4. r \in 1..r /\ (g # 0 => g \in 1..g)
  BY <1>3
<1>5. Last(portals) = portals[r] /\ cs_base = portals[r].base
  BY <1>1 DEF Last, IInv, PortalsSound
<1>6. ASSUME NEW i \in 1..g
      PROVE  /\ frames[i].control \in Nat /\ frames[i].control + 2 <= n
             /\ cs[frames[i].control + 1] \in Place
             /\ cs[frames[i].control + 2] = Epilogue
             /\ frames[i].control <= frames[g].control
  <2>1. g \in 1..g /\ (i < g \/ i = g)
    BY <1>3
  <2>2. /\ frames[i].control \in Nat /\ frames[i].control + 2 <= n /\ frames[g].control \in Nat
        /\ cs[frames[i].control + 1] \in Place /\ cs[frames[i].control + 2] = Epilogue
    BY <2>1, <1>2, FramesCalm, Lengths DEF IInv
  <2>3. i < g => frames[i].control + 1 < frames[g].control
    BY <2>1 DEF IInv, FramesSound
  <2> QED BY <2>1, <2>2, <2>3
<1>7. ASSUME NEW j \in 1..r
      PROVE  /\ portals[j].base \in Nat /\ portals[j].base < n
             /\ cs[portals[j].base + 1] = Halt /\ portals[j].base <= cs_base
  <2>1. j < r \/ j = r
    BY <1>3
  <2>2. /\ portals[j].base \in Nat /\ portals[r].base \in Nat /\ portals[j].base < n
        /\ cs[portals[j].base + 1] = Halt
    BY <1>4, Lengths DEF IInv, PortalsSound, PortalAt
  <2>3. j < r => portals[j].base < portals[r].base
    BY <1>4 DEF IInv, PortalsSound
  <2> QED BY <2>1, <2>2, <2>3, <1>5
<1>8. \A k \in 1..m : acts[k].mark \in 1..n /\ ActAt(k)
  BY <1>1 DEF IInv, MarksSound, HandlersSound
<1>9. /\ \A j, k \in 1..m : j < k => acts[j].mark < acts[k].mark
      /\ \A q \in 1..n : cs[q] = Epilogue \/ \E k \in 1..m : acts[k].mark = q
  BY <1>1, <1>2 DEF IInv, MarksSound
<1> QED BY <1>1, <1>2, <1>3, <1>5, <1>6, <1>7, <1>8, <1>9

\* The activations below the nearest CATCH, whose entry is at c + 1.
LEMMA BelowHandler ==
  ASSUME IInv, Unwinding, thread' # "epilogue",
         NEW c \in Nat, NEW h \in 1..Len(acts), acts[h].mark = c + 1
  PROVE  /\ CutMarks(c, h - 1)
         /\ \A k \in 1..(h - 1) : /\ k \in 1..Len(acts) /\ acts[k].mark \in Nat
                                  /\ acts[k].mark <= c
                                  /\ Len(acts[k].loops) <= Len(acts[h].loops)
<1>1. PICK m : m = Len(acts)
  OBVIOUS
<1>2. /\ m \in Nat \ {0} /\ thread # "epilogue" /\ portals # <<>>
      /\ \A k \in 1..m : acts[k].mark \in Nat
      /\ \A j, k \in 1..m : j < k => acts[j].mark < acts[k].mark
  BY <1>1, Unwinds, Lengths DEF IInv
<1>3. \A k \in 1..m : k <= h - 1 <=> acts[k].mark <= c
  <2> TAKE k \in 1..m
  <2>1. CASE k < h
    BY <2>1, <1>1, <1>2
  <2>2. CASE k = h
    BY <2>2, <1>1, <1>2
  <2>3. CASE h < k
    BY <2>3, <1>1, <1>2
  <2> QED BY <2>1, <2>2, <2>3, <1>1, <1>2
<1>4. CutMarks(c, h - 1)
  BY <1>1, <1>2, <1>3 DEF CutMarks
<1>5. \A k \in 1..(h - 1) : k \in 1..m /\ k <= h - 1 /\ k < h
  BY <1>1, <1>2
<1>6. \A k \in 1..(h - 1) : Len(acts[k].loops) <= Len(acts[h].loops)
  BY <1>1, <1>2, <1>5 DEF IInv, LoopsNest, Ended
<1> QED BY <1>1, <1>2, <1>3, <1>4, <1>5, <1>6

\* throw_unwind lands: the nearest CATCH is the frame's.
LEMMA FrameIsNearest ==
  ASSUME IInv, Thrown, FrameHere, NEW g, g = Len(frames)
  PROVE  /\ g \in Nat \ {0} /\ Last(frames) = frames[g] /\ frames[g] \in Frame
         /\ \E h \in 1..Len(acts) :
              /\ acts[h].mark = frames[g].control + 1 /\ acts[h].kind = "catch"
              /\ Saved(frames[g], acts[h])
              /\ acts[h].ret = Entry(frames[g].thread, frames[g].ip)
              /\ \A k \in 1..Len(acts) : h < k => acts[k].kind # "catch"
<1>1. Unwinding /\ exc # Quit /\ frames # <<>> /\ Last(frames).control >= cs_base
  BY DEF Thrown, FrameHere
<1>2. PICK n, m, r : n = Len(cs) /\ m = Len(acts) /\ r = Len(portals)
  OBVIOUS
<1>3. g \in Nat \ {0} /\ Last(frames) = frames[g] /\ frames[g] \in Frame /\ g \in 1..g
  <2>1. frames \in Seq(Frame) /\ g \in Nat \ {0}
    BY <1>1, EmptySeq DEF IInv, Shape
  <2>2. g \in 1..g
    BY <2>1
  <2> QED BY <2>1, <2>2, ElementOfSeq DEF Last
<1>4. /\ n \in Nat
      /\ \A i \in 1..g : /\ frames[i].control \in Nat /\ frames[i].control + 2 <= n
                         /\ cs[frames[i].control + 1] \in Place
                         /\ frames[i].control <= frames[g].control
      /\ \A j \in 1..r : portals[j].base \in Nat /\ portals[j].base <= cs_base
      /\ \A k \in 1..m : acts[k].mark \in 1..n /\ ActAt(k)
      /\ \A j, k \in 1..m : j < k => acts[j].mark < acts[k].mark
      /\ \A q \in 1..n : cs[q] = Epilogue \/ \E k \in 1..m : acts[k].mark = q
  BY <1>1, <1>2, Unwinds, SMTT(30)
<1>5. frames[g].control + 1 \in 1..n /\ cs[frames[g].control + 1] # Epilogue
  BY <1>3, <1>4, Special
<1>6. PICK h \in 1..m : acts[h].mark = frames[g].control + 1
  BY <1>4, <1>5
<1>7. acts[h].kind = "catch" /\ Saved(frames[g], acts[h])
  BY <1>3, <1>4, <1>6 DEF ActAt
<1>8. acts[h].ret = Entry(frames[g].thread, frames[g].ip)
  <2>1. cs[frames[g].control + 1] = Entry(frames[g].thread, frames[g].ip)
    BY <1>3 DEF IInv, FramesSound, FrameAt
  <2>2. cs[acts[h].mark] # Halt
    BY <1>3, <1>4, <1>6, Special
  <2> QED BY <2>1, <2>2, <1>4, <1>6 DEF ActAt
<1>9. ASSUME NEW k \in 1..m, h < k, acts[k].kind = "catch" PROVE FALSE
  <2>1. acts[k].mark > frames[g].control + 1 /\ acts[k].mark \in Nat
    BY <1>3, <1>4, <1>6, <1>9
  <2>2. \A i \in 1..g : acts[k].mark # frames[i].control + 1
    <3> TAKE i \in 1..g
    <3>1. frames[i].control <= frames[g].control /\ frames[i].control \in Nat /\ frames[g].control \in Nat
      BY <1>3, <1>4
    <3> QED BY <3>1, <2>1
  <2>3. \A j \in 1..r : acts[k].mark # portals[j].base + 1
    <3> TAKE j \in 1..r
    <3>1. /\ portals[j].base \in Nat /\ portals[j].base <= cs_base /\ cs_base \in Nat
          /\ frames[g].control \in Nat /\ frames[g].control >= cs_base
      BY <1>1, <1>3, <1>4, ParameterAssumption, SMTT(30) DEF IInv, Shape
    <3> QED BY <3>1, <2>1, SMTT(30)
  <2> QED BY <2>2, <2>3, <1>1, <1>2, <1>4, <1>9 DEF ActAt
<1> QED BY <1>2, <1>3, <1>6, <1>7, <1>8, <1>9

\* A THROW that lands in a frame cuts all four structures at its mark.
LEMMA LandInFrameKeeps == ASSUME IInv, LandInFrame PROVE IInv'
<1>1. /\ Thrown /\ Unwinding /\ FrameHere /\ exc # Quit /\ exc' = None
      /\ thread' = Last(frames).thread /\ ip' = Last(frames).ip
      /\ rs_ptr' = Last(frames).rs_ptr /\ li' = Last(frames).li
      /\ lc_depth' = Last(frames).lc_depth
      /\ cs' = SubSeq(cs, 1, Last(frames).control)
      /\ frames' = Front(frames) /\ DropActivations
      /\ UNCHANGED <<cs_base, portals, ll, lc_is, lc_ls>>
  BY DEF LandInFrame, Thrown, GoTo
<1>2. PICK n, m, g, r : n = Len(cs) /\ m = Len(acts) /\ g = Len(frames) /\ r = Len(portals)
  OBVIOUS
<1>3. PICK c : c = Last(frames).control
  OBVIOUS
<1>4. /\ g \in Nat \ {0} /\ Last(frames) = frames[g] /\ frames[g] \in Frame
      /\ frames # <<>> /\ c >= cs_base
  BY <1>1, <1>2, <1>3, FrameIsNearest DEF FrameHere
<1>5. PICK h \in 1..m : /\ acts[h].mark = c + 1 /\ acts[h].kind = "catch"
                        /\ Saved(frames[g], acts[h])
                        /\ \A k \in 1..m : h < k => acts[k].kind # "catch"
  BY <1>1, <1>2, <1>3, <1>4, FrameIsNearest
<1>6. /\ n \in Nat \ {0} /\ m \in Nat \ {0} /\ r \in Nat \ {0}
      /\ portals # <<>> /\ thread # "epilogue" /\ Here # Epilogue
      /\ cs_base = portals[r].base
      /\ \A i \in 1..g : /\ frames[i].control \in Nat /\ frames[i].control + 2 <= n
                         /\ cs[frames[i].control + 1] \in Place
      /\ \A j \in 1..r : /\ portals[j].base \in Nat /\ portals[j].base <= cs_base
                         /\ cs[portals[j].base + 1] = Halt
  BY <1>1, <1>2, Unwinds
<1>7. g \in 1..g /\ r \in 1..r /\ h - 1 \in 0..m /\ \A i \in 1..(g - 1) : i \in 1..g /\ i < g /\ i <= g - 1
  BY <1>4, <1>6
<1>8. c \in Nat /\ c \in 0..n /\ cs[c + 1] \in Place /\ frames[g].control = c
  BY <1>3, <1>4, <1>6, <1>7
<1>9. Here' \in Place /\ thread' # "epilogue" /\ Here' # Epilogue
  <2>1. frames[g].thread \in Word \cup {"now"} /\ frames[g].ip \in 0..CodeLen
    BY <1>4 DEF Frame
  <2> QED BY <2>1, <1>1, <1>4, HereNext
<1>10. Cut(c, h - 1, g - 1, r)
  <2>1. /\ cs \in Seq(Entries) /\ frames \in Seq(Frame) /\ portals \in Seq(Portal)
    BY DEF IInv, Shape
  <2>2. cs' \in Seq(Entries) /\ CutTo(cs, cs', c)
    BY <2>1, <1>1, <1>2, <1>3, <1>8, SubSeqCuts
  <2>3. frames' \in Seq(Frame) /\ CutTo(frames, frames', g - 1)
    BY <2>1, <1>1, <1>2, <1>4, FrontCuts
  <2>4. acts' \in Seq(ActType) /\ CutTo(acts, acts', h - 1)
    BY <1>1, <1>2, <1>5, NearestCatch
  <2>5. portals' \in Seq(Portal) /\ CutTo(portals, portals', r) /\ r \in 0..r
    BY <2>1, <1>1, <1>2, WholeCuts
  <2>6. g - 1 \in 0..g
    BY <1>4
  <2> QED BY <2>2, <2>3, <2>4, <2>5, <2>6, <1>1, <1>2, <1>6, <1>7, <1>8, <1>9 DEF Cut
<1>11. /\ CutMarks(c, h - 1)
       /\ \A k \in 1..(h - 1) : /\ k \in 1..m /\ acts[k].mark \in Nat /\ acts[k].mark <= c
                                /\ Len(acts[k].loops) <= Len(acts[h].loops)
  BY <1>1, <1>2, <1>5, <1>8, <1>9, BelowHandler
<1>12. CutFrames(c, g - 1)
  <2>1. \A i \in 1..(g - 1) : frames[i].control + 2 <= c
    <3> TAKE i \in 1..(g - 1)
    <3>1. frames[i].control + 1 < frames[g].control /\ frames[i].control \in Nat
      BY <1>2, <1>6, <1>7 DEF IInv, FramesSound
    <3> QED BY <3>1, <1>8
  <2>2. \A i \in 1..g : frames[i].control + 2 <= c => i <= g - 1
    <3> TAKE i \in 1..g
    <3>1. i = g \/ i <= g - 1
      BY <1>4
    <3> QED BY <3>1, <1>8
  <2> QED BY <2>1, <2>2, <1>2, <1>6, <1>9 DEF CutFrames
<1>13. CutPortals(c, h - 1, g - 1, r)
  <2>1. ASSUME NEW j \in 1..r PROVE portals[j].base < c /\ portals[j].catch_ptr <= g - 1
    <3>1. /\ portals[j].base \in Nat /\ portals[j].base <= cs_base /\ cs_base \in Nat
          /\ cs[portals[j].base + 1] = Halt
          /\ portals[j].catch_ptr <= g /\ portals[j].catch_ptr \in Nat
          /\ g <= portals[j].catch_ptr <=> frames[g].control < portals[j].base
      BY <1>2, <1>6, <1>7, Lengths, ParameterAssumption DEF IInv, PortalsSound, PortalAt
    <3>2. portals[j].base # c
      BY <3>1, <1>8, Special
    <3>3. portals[j].base < c
      BY <3>1, <3>2, <1>4, <1>8
    <3>4. ~ (frames[g].control < portals[j].base)
      BY <3>1, <3>3, <1>8
    <3> QED BY <3>1, <3>3, <3>4, <1>4
  <2>2. ASSUME NEW q \in 1..c, cs[q] = Halt PROVE \E j \in 1..r : portals[j].base + 1 = q
    <3>1. q \in 1..n
      BY <1>6, <1>8
    <3>2. HaltAt(q)
      BY <3>1, <2>2, <1>2 DEF IInv, PortalsSound
    <3>3. ~ (frames[g].control + 1 < q)
      BY <1>8
    <3> QED BY <3>2, <3>3, <1>1, <1>2, <1>7 DEF HaltAt
  <2>3. cs_base' = portals[r].base /\ cs_base' \in 0..StackSize
    BY <1>1, <1>6 DEF IInv, Shape
  <2> QED BY <2>1, <2>2, <2>3, <1>6 DEF CutPortals
<1>14. CutHandlers(h - 1, g - 1, r)
  <2>1. Len(acts[h].loops) = lc_depth'
    BY <1>1, <1>4, <1>5 DEF Saved
  <2>2. ASSUME NEW k \in 1..(h - 1), NEW i \in 1..g, acts[k].mark = frames[i].control + 1
        PROVE  i <= g - 1
    <3>1. i # g
      BY <2>2, <1>8, <1>11
    <3> QED BY <3>1, <1>4
  <2>3. \A j \in 1..r : j <= r
    BY <1>6
  <2> QED BY <2>1, <2>2, <2>3, <1>2, <1>11 DEF CutHandlers
<1>15. LoopsTypedNext
  <2>1. Last(frames).rs_ptr \in 0..RSize /\ Last(frames).li \in Int
        /\ Last(frames).lc_depth \in 0..LoopSize
    BY <1>4 DEF Frame
  <2> QED BY <2>1, <1>1 DEF LoopsTypedNext, IInv, Shape
<1> QED BY <1>10, <1>11, <1>12, <1>13, <1>14, <1>15, CutKeeps

\* throw_unwind re-raises to CATCH of a primitive: the nearest CATCH is the
\* portal's, and the frames lie below it.
LEMMA PortalIsNearest ==
  ASSUME IInv, Thrown, ~FrameHere, NEW r, r = Len(portals), portals[r].kind = "catch"
  PROVE  /\ r \in Nat \ {0, 1} /\ Last(portals) = portals[r] /\ portals[r] \in Portal
         /\ cs_base = portals[r].base
         /\ \A i \in 1..Len(frames) : frames[i].control + 2 <= cs_base
         /\ \E h \in 1..Len(acts) :
              /\ acts[h].mark = cs_base + 1 /\ acts[h].kind = "catch"
              /\ Saved(portals[r], acts[h])
              /\ acts[h].ret = portals[r].caller
              /\ \A k \in 1..Len(acts) : h < k => acts[k].kind # "catch"
<1>1. Unwinding /\ exc # Quit
  BY DEF Thrown
<1>2. PICK n, m, g : n = Len(cs) /\ m = Len(acts) /\ g = Len(frames)
  OBVIOUS
<1>3. /\ n \in Nat \ {0} /\ m \in Nat \ {0} /\ r \in Nat \ {0} /\ g \in Nat
      /\ Last(portals) = portals[r] /\ cs_base = portals[r].base
      /\ \A i \in 1..g : /\ frames[i].control \in Nat /\ frames[i].control + 2 <= n
                         /\ cs[frames[i].control + 2] = Epilogue
                         /\ frames[i].control <= frames[g].control
      /\ \A j \in 1..r : /\ portals[j].base \in Nat /\ portals[j].base < n
                         /\ cs[portals[j].base + 1] = Halt
                         /\ portals[j].base <= cs_base
      /\ \A k \in 1..m : acts[k].mark \in 1..n /\ ActAt(k)
      /\ \A j, k \in 1..m : j < k => acts[j].mark < acts[k].mark
      /\ \A q \in 1..n : cs[q] = Epilogue \/ \E k \in 1..m : acts[k].mark = q
  BY <1>1, <1>2, Unwinds, SMTT(30)
<1>4. r \in 1..r /\ r # 1 /\ portals[r] \in Portal
  <2>1. r \in 1..r
    BY <1>3
  <2>2. r # 1
    BY <2>1 DEF IInv, PortalsSound, PortalAt
  <2> QED BY <2>1, <2>2, Lengths DEF IInv
<1>5. cs_base \in Nat /\ cs_base < n /\ cs[cs_base + 1] = Halt
  BY <1>3, <1>4
<1>6. \A i \in 1..g : frames[i].control + 2 <= cs_base
  <2> TAKE i \in 1..g
  <2>1. g \in 1..g
    BY <1>3
  <2>2. frames # <<>> /\ Last(frames) = frames[g]
    <3>1. frames # <<>>
      BY <2>1, <1>2, <1>3, EmptySeq
    <3> QED BY <3>1, <1>2 DEF Last
  <2>3. frames[g].control < cs_base
    <3>1. frames[g].control \in Nat
      BY <2>1, <1>3
    <3> QED BY <3>1, <2>2, <1>5 DEF FrameHere
  <2>4. frames[i].control \in Nat /\ frames[i].control < cs_base
    <3>1. frames[i].control \in Nat /\ frames[g].control \in Nat /\ frames[i].control <= frames[g].control
      BY <2>1, <1>3
    <3> QED BY <3>1, <2>3, <1>5
  <2>5. frames[i].control + 2 # cs_base + 1
    BY <1>3, <1>5, Special
  <2> QED BY <2>4, <2>5, <1>5
<1>7. PICK h \in 1..m : acts[h].mark = cs_base + 1
  <2>1. cs_base + 1 \in 1..n /\ cs[cs_base + 1] # Epilogue
    BY <1>5, <1>3, Special
  <2> QED BY <2>1, <1>3
<1>8. acts[h].kind = "catch" /\ acts[h].ret = portals[r].caller /\ Saved(portals[r], acts[h])
  BY <1>3, <1>4, <1>7 DEF ActAt
<1>9. ASSUME NEW k \in 1..m, h < k, acts[k].kind = "catch" PROVE FALSE
  <2>1. acts[k].mark > cs_base + 1 /\ acts[k].mark \in Nat
    BY <1>3, <1>5, <1>7, <1>9
  <2>2. \A i \in 1..g : acts[k].mark # frames[i].control + 1
    <3> TAKE i \in 1..g
    <3>1. frames[i].control + 2 <= cs_base /\ frames[i].control \in Nat
      BY <1>3, <1>6
    <3> QED BY <3>1, <2>1, <1>5
  <2>3. \A j \in 1..r : acts[k].mark # portals[j].base + 1
    <3> TAKE j \in 1..r
    <3>1. portals[j].base \in Nat /\ portals[j].base <= cs_base
      BY <1>3
    <3> QED BY <3>1, <2>1, <1>5
  <2> QED BY <2>2, <2>3, <1>1, <1>2, <1>3, <1>9 DEF ActAt
<1> QED BY <1>2, <1>3, <1>4, <1>6, <1>7, <1>8, <1>9

\* CATCH of a primitive lands what it catches.
LEMMA LandInPortalKeeps == ASSUME IInv, LandInPortal PROVE IInv'
<1>1. /\ Thrown /\ Unwinding /\ ~FrameHere /\ exc # Quit /\ exc' = None
      /\ Last(portals).kind = "catch"
      /\ thread' = Last(portals).caller.thread /\ ip' = Last(portals).caller.ip
      /\ rs_ptr' = Last(portals).rs_ptr /\ li' = Last(portals).li
      /\ lc_depth' = Last(portals).lc_depth
      /\ cs' = SubSeq(cs, 1, Last(portals).base)
      /\ frames' = SubSeq(frames, 1, Last(portals).catch_ptr)
      /\ cs_base' = Last(portals).saved_base /\ portals' = Front(portals)
      /\ DropActivations
      /\ UNCHANGED <<ll, lc_is, lc_ls>>
  BY DEF LandInPortal, Thrown, GoTo, ClosePortal
<1>2. PICK n, m, g, r : n = Len(cs) /\ m = Len(acts) /\ g = Len(frames) /\ r = Len(portals)
  OBVIOUS
<1>3. Last(portals) = portals[r]
  BY <1>2 DEF Last
<1>4. /\ r \in Nat \ {0, 1} /\ portals[r] \in Portal /\ cs_base = portals[r].base
      /\ \A i \in 1..g : frames[i].control + 2 <= cs_base
  BY <1>1, <1>2, <1>3, PortalIsNearest
<1>5. PICK h \in 1..m : /\ acts[h].mark = cs_base + 1 /\ acts[h].kind = "catch"
                        /\ Saved(portals[r], acts[h])
                        /\ \A k \in 1..m : h < k => acts[k].kind # "catch"
  BY <1>1, <1>2, <1>3, PortalIsNearest
<1>6. PICK c, p : c = cs_base /\ p = portals[r].catch_ptr
  OBVIOUS
<1>7. /\ n \in Nat \ {0} /\ m \in Nat \ {0} /\ g \in Nat
      /\ portals # <<>> /\ thread # "epilogue" /\ Here # Epilogue
      /\ \A i \in 1..g : frames[i].control \in Nat
      /\ \A j \in 1..r : /\ portals[j].base \in Nat /\ portals[j].base <= cs_base
                         /\ portals[j].base < n
  BY <1>1, <1>2, Unwinds
<1>8. /\ r \in 1..r /\ r - 1 \in 1..r /\ h - 1 \in 0..m
      /\ \A j \in 1..(r - 1) : j \in 1..r /\ j < r
  BY <1>4, <1>7
<1>9. c \in Nat /\ c \in 0..n /\ portals[r].base = c
  BY <1>4, <1>6, <1>7, <1>8
<1>10. /\ p \in Nat /\ p <= g
       /\ \A i \in 1..g : i <= p <=> frames[i].control < c
  BY <1>2, <1>4, <1>6, <1>8, Lengths DEF IInv, PortalsSound, PortalAt
<1>11. /\ Here' \in Place /\ thread' # "epilogue" /\ Here' # Epilogue
       /\ cs_base' \in 0..StackSize
  <2>1. portals[r].caller \in Place /\ portals[r].saved_base \in 0..StackSize
    BY <1>4 DEF Portal
  <2>2. thread' \in Word \cup {"now"} /\ ip' \in 0..CodeLen
    BY <2>1, <1>1, <1>3 DEF Place
  <2> QED BY <2>1, <2>2, <1>1, <1>3, HereNext
<1>12. Cut(c, h - 1, p, r - 1)
  <2>1. cs \in Seq(Entries) /\ frames \in Seq(Frame) /\ portals \in Seq(Portal)
    BY DEF IInv, Shape
  <2>2. cs' \in Seq(Entries) /\ CutTo(cs, cs', c)
    BY <2>1, <1>1, <1>2, <1>3, <1>9, SubSeqCuts
  <2>3. p \in 0..g
    BY <1>7, <1>10
  <2>4. frames' \in Seq(Frame) /\ CutTo(frames, frames', p)
    BY <2>1, <2>3, <1>1, <1>2, <1>3, <1>6, SubSeqCuts
  <2>5. acts' \in Seq(ActType) /\ CutTo(acts, acts', h - 1)
    BY <1>1, <1>2, <1>5, NearestCatch
  <2>6. portals' \in Seq(Portal) /\ CutTo(portals, portals', r - 1)
    BY <2>1, <1>1, <1>2, <1>7, FrontCuts
  <2>7. r - 1 \in 0..r
    BY <1>4
  <2> QED BY <2>2, <2>3, <2>4, <2>5, <2>6, <2>7, <1>1, <1>2, <1>7, <1>8, <1>9, <1>11 DEF Cut
<1>13. /\ CutMarks(c, h - 1)
       /\ \A k \in 1..(h - 1) : /\ k \in 1..m /\ acts[k].mark \in Nat /\ acts[k].mark <= c
                                /\ Len(acts[k].loops) <= Len(acts[h].loops)
  BY <1>1, <1>2, <1>5, <1>6, <1>9, <1>11, BelowHandler
<1>14. \A i \in 1..g : i <= p /\ frames[i].control + 2 <= c
  <2> TAKE i \in 1..g
  <2>1. frames[i].control \in Nat /\ frames[i].control + 2 <= c
    BY <1>4, <1>6, <1>7
  <2>2. frames[i].control < c
    BY <2>1, <1>9
  <2> QED BY <2>1, <2>2, <1>10
<1>15. CutFrames(c, p)
  <2>1. \A i \in 1..p : i \in 1..g
    BY <1>7, <1>10
  <2> QED BY <2>1, <1>2, <1>7, <1>11, <1>14 DEF CutFrames
<1>16. CutPortals(c, h - 1, p, r - 1)
  <2>1. ASSUME NEW j \in 1..(r - 1) PROVE portals[j].base < c /\ portals[j].catch_ptr <= p
    <3>1. portals[j].base < c
      BY <1>2, <1>8, <1>9 DEF IInv, PortalsSound
    <3>2. portals[j].catch_ptr <= g /\ portals[j].catch_ptr \in Nat
      BY <1>2, <1>8, Lengths DEF IInv, PortalsSound, PortalAt
    <3>3. p = g
      <4>1. g # 0 => g \in 1..g
        BY <1>7
      <4> QED BY <4>1, <1>7, <1>10, <1>14
    <3> QED BY <3>1, <3>2, <3>3
  <2>2. ASSUME NEW q \in 1..c, cs[q] = Halt PROVE \E j \in 1..(r - 1) : portals[j].base + 1 = q
    <3>1. q \in 1..n
      BY <1>7, <1>9
    <3>2. HaltAt(q)
      BY <3>1, <2>2, <1>2 DEF IInv, PortalsSound
    <3>3. ~ (cs_base + 1 < q)
      BY <1>6, <1>9
    <3>4. PICK j \in 1..r : portals[j].base + 1 = q
      BY <3>2, <3>3, <1>2, <1>7 DEF HaltAt
    <3>5. j # r
      BY <3>4, <1>9
    <3>6. j \in 1..(r - 1)
      BY <3>5, <1>4
    <3> QED BY <3>4, <3>6
  <2>3. cs_base' = portals[r - 1].base
    BY <1>1, <1>2, <1>3, <1>4, <1>8 DEF IInv, PortalsSound, PortalAt
  <2>4. r - 1 # 0
    BY <1>4
  <2> QED BY <2>1, <2>2, <2>3, <2>4, <1>11 DEF CutPortals
<1>17. CutHandlers(h - 1, p, r - 1)
  <2>1. Len(acts[h].loops) = lc_depth'
    BY <1>1, <1>3, <1>5 DEF Saved
  <2>2. ASSUME NEW k \in 1..(h - 1), NEW j \in 1..r, acts[k].mark = portals[j].base + 1
        PROVE  j <= r - 1
    <3>1. j # r
      BY <2>2, <1>9, <1>13
    <3> QED BY <3>1, <1>4
  <2> QED BY <2>1, <2>2, <1>2, <1>13, <1>14 DEF CutHandlers
<1>18. LoopsTypedNext
  <2>1. portals[r].rs_ptr \in 0..RSize /\ portals[r].li \in Int
        /\ portals[r].lc_depth \in 0..LoopSize
    BY <1>4 DEF Portal
  <2> QED BY <2>1, <1>1, <1>3 DEF LoopsTypedNext, IInv, Shape
<1> QED BY <1>12, <1>13, <1>15, <1>16, <1>17, <1>18, CutKeeps

-----------------------------------------------------------------------------
(* An exception leaves portals behind it.                                  *)

\* Leaving the innermost portal keeps the invariant: neither frame nor CATCH
\* of a primitive is lost with it that a THROW could have landed in.
LEMMA LeavePortalKeeps ==
  ASSUME IInv, Unwinding, ClosePortal, GoTo(Last(portals).caller),
         UNCHANGED <<exc, cs, frames, loopVars, rs_ptr>>,
         exc # Quit => ~FrameHere /\ Last(portals).kind # "catch",
         exc = Quit => Last(portals).kind # "line",
         acts' \in Seq(ActType), Len(portals) # 1 => acts' = acts
  PROVE  IInv'
<1>1. /\ cs_base' = Last(portals).saved_base /\ portals' = Front(portals)
      /\ thread' = Last(portals).caller.thread /\ ip' = Last(portals).caller.ip
      /\ exc' = exc /\ cs' = cs /\ frames' = frames
  BY DEF ClosePortal, GoTo
<1>2. PICK n, m, g, r : n = Len(cs) /\ m = Len(acts) /\ g = Len(frames) /\ r = Len(portals)
  OBVIOUS
<1>3. /\ r \in Nat \ {0} /\ m \in Nat /\ g \in Nat /\ n \in Nat
      /\ exc # None /\ portals # <<>> /\ thread # "epilogue" /\ Here # Epilogue
      /\ Last(portals) = portals[r] /\ cs_base = portals[r].base
      /\ \A i \in 1..g : frames[i].control \in Nat /\ frames[i].control <= frames[g].control
      /\ \A j \in 1..r : portals[j].base \in Nat
      /\ \A k \in 1..m : acts[k].mark \in 1..n /\ ActAt(k)
  BY <1>2, Unwinds
<1>4. /\ portals' \in Seq(Portal) /\ Len(portals') = r - 1
      /\ \A j \in 1..(r - 1) : portals'[j] = portals[j] /\ j \in 1..r /\ j < r
      /\ r \in 1..r /\ portals[r] \in Portal
  <2>1. portals \in Seq(Portal)
    BY DEF IInv, Shape
  <2>2. portals' \in Seq(Portal) /\ CutTo(portals, portals', r - 1)
    BY <2>1, <1>1, <1>2, <1>3, FrontCuts
  <2>3. \A j \in 1..(r - 1) : j \in 1..r /\ j < r
    BY <1>3
  <2>4. r \in 1..r
    BY <1>3
  <2> QED BY <2>1, <2>2, <2>3, <2>4, <1>2, ElementOfSeq DEF CutTo
<1>5. /\ Here' \in Place /\ thread' # "epilogue" /\ Here' # Epilogue
      /\ cs_base' \in 0..StackSize
  <2>1. portals[r].caller \in Place /\ portals[r].saved_base \in 0..StackSize
    BY <1>4 DEF Portal
  <2>2. thread' \in Word \cup {"now"} /\ ip' \in 0..CodeLen
    BY <2>1, <1>1, <1>3 DEF Place
  <2> QED BY <2>1, <2>2, <1>1, <1>3, HereNext
<1>6. Shape'
  BY <1>1, <1>3, <1>4, <1>5 DEF IInv, Shape, loopVars
<1>7. IdleEmpty'
  BY <1>1, <1>3 DEF IdleEmpty
<1>8. FramesSound'
  BY <1>1, <1>3, <1>5 DEF IInv, FramesSound, FrameAt
<1>9. ~Ended' => r # 1 /\ acts' = acts /\ r - 1 \in 1..(r - 1)
  <2>1. r = 1 => portals' = <<>>
    BY <1>4, EmptySeq
  <2>2. r # 1 => r - 1 \in 1..(r - 1)
    BY <1>3
  <2> QED BY <2>1, <2>2, <1>1, <1>2, <1>3 DEF Ended
<1>10. PortalsSound'
  <2>1. \A j \in 1..(r - 1) : PortalAt(j)'
    <3> TAKE j \in 1..(r - 1)
    <3>1. j \in 1..r /\ portals'[j] = portals[j]
      BY <1>4
    <3>2. PortalAt(j)
      BY <3>1, <1>2 DEF IInv, PortalsSound
    <3>3. j # 1 => j - 1 \in 1..(r - 1)
      BY <1>3
    <3>4. j # 1 => portals'[j - 1] = portals[j - 1]
      BY <3>3, <1>4
    <3> QED BY <3>1, <3>2, <3>4, <1>1 DEF PortalAt
  <2>2. \A i, j \in 1..(r - 1) : i < j => portals'[i].base < portals'[j].base
    BY <1>2, <1>4 DEF IInv, PortalsSound
  <2>3. r # 1 => /\ cs_base' = portals[r - 1].base /\ cs_base' < cs_base
                 /\ cs_base' = portals'[r - 1].base
    <3>1. r # 1 => r - 1 \in 1..(r - 1)
      BY <1>3
    <3>2. r # 1 => portals[r - 1].base < portals[r].base /\ portals[r].saved_base = portals[r - 1].base
      BY <3>1, <1>2, <1>4 DEF IInv, PortalsSound, PortalAt
    <3> QED BY <3>1, <3>2, <1>1, <1>3, <1>4
  <2>4. portals' # <<>> => r # 1
    BY <1>4, EmptySeq
  <2>5. portals' # <<>> => cs_base' < cs_base
    BY <2>3, <2>4
  <2>6. cs_base' \in Nat /\ cs_base \in Nat
    <3>1. cs_base \in 0..StackSize /\ cs_base' \in 0..StackSize
      BY <1>5 DEF IInv, Shape
    <3> QED BY <3>1, ParameterAssumption
  <2>7. ASSUME NEW q \in 1..n, cs[q] = Halt PROVE HaltAt(q)'
    <3>1. HaltAt(q)
      BY <2>7, <1>2 DEF IInv, PortalsSound
    <3>2. CASE \E j \in 1..(r - 1) : portals[j].base + 1 = q
      BY <3>2, <1>4 DEF HaltAt
    <3>3. CASE portals[r].base + 1 = q
      <4>1. exc # Quit => \A i \in 1..g : frames[i].control + 1 < q
        <5> SUFFICES ASSUME exc # Quit, NEW i \in 1..g PROVE frames[i].control + 1 < q
          OBVIOUS
        <5>1. g \in 1..g
          BY <1>3
        <5>2. frames # <<>> /\ Last(frames) = frames[g]
          <6>1. frames # <<>>
            BY <5>1, <1>2, <1>3, EmptySeq
          <6> QED BY <6>1, <1>2 DEF Last
        <5>3. /\ frames[g].control \in Nat /\ frames[i].control \in Nat
              /\ frames[i].control <= frames[g].control /\ cs_base \in Nat
          BY <5>1, <1>3, <1>4
        <5>4. ~ (frames[g].control >= cs_base)
          BY <5>2 DEF FrameHere
        <5>5. q = cs_base + 1
          BY <3>3, <1>3
        <5> QED BY <5>3, <5>4, <5>5
      <4>2. portals' # <<>> => cs_base' + 1 < q
        <5>1. q = cs_base + 1 /\ q \in Int
          BY <3>3, <1>3, <2>6
        <5>2. ASSUME portals' # <<>> PROVE cs_base' + 1 < q
          <6>1. cs_base' < cs_base
            BY <2>5, <5>2
          <6> QED BY <6>1, <5>1, <2>6, NextBelow
        <5> QED BY <5>2
      <4> QED BY <4>1, <4>2, <1>1, <1>2, <1>3 DEF HaltAt
    <3>4. CASE /\ portals # <<>> => cs_base + 1 < q
               /\ exc # Quit => \A i \in 1..Len(frames) : frames[i].control + 1 < q
      <4>1. portals' # <<>> => cs_base' + 1 < q
        <5>1. cs_base + 1 < q /\ q \in Int
          BY <3>4, <1>2, <1>3
        <5>2. ASSUME portals' # <<>> PROVE cs_base' + 1 < q
          <6>1. cs_base' < cs_base
            BY <2>5, <5>2
          <6> QED BY <6>1, <5>1, <2>6, NextBelow
        <5> QED BY <5>2
      <4> QED BY <4>1, <3>4, <1>1, <1>3 DEF HaltAt
    <3>5. \A j \in 1..r : j = r \/ j \in 1..(r - 1)
      BY <1>3
    <3> QED BY <3>1, <3>2, <3>3, <3>4, <3>5, <1>2 DEF HaltAt
  <2> QED BY <2>1, <2>2, <2>3, <2>4, <2>7, <1>1, <1>2, <1>4 DEF PortalsSound
<1>11. MarksSound'
  BY <1>1, <1>3, <1>5, <1>9 DEF IInv, MarksSound, Ended
<1>12. HandlersSound'
  <2> SUFFICES ASSUME ~Ended', NEW k \in 1..m PROVE ActAt(k)'
    BY <1>2, <1>9 DEF HandlersSound
  <2>1. acts' = acts /\ ActAt(k)
    BY <1>3, <1>9
  <2>2. \A i \in 1..g : acts[k].mark = frames[i].control + 1 =>
          acts[k].kind = "catch" /\ Saved(frames[i], acts[k])
    BY <2>1, <1>2 DEF ActAt
  <2>3. \A j \in 1..(r - 1) : acts[k].mark = portals'[j].base + 1 =>
          /\ acts[k].kind = (IF portals'[j].kind = "catch" THEN "catch" ELSE "run")
          /\ acts[k].ret = (IF j = 1 THEN Idle ELSE portals'[j].caller)
          /\ Saved(portals'[j], acts[k])
    BY <2>1, <1>2, <1>4 DEF ActAt
  <2>4. ASSUME exc # Quit, acts[k].kind = "catch"
        PROVE  \/ \E i \in 1..g : acts[k].mark = frames[i].control + 1
               \/ \E j \in 1..(r - 1) : acts[k].mark = portals'[j].base + 1
    <3>1. portals[r].kind # "catch"
      BY <2>4, <1>3
    <3>2. acts[k].mark # portals[r].base + 1
      BY <3>1, <2>1, <2>4, <1>2, <1>4 DEF ActAt
    <3>3. \A j \in 1..r : j = r \/ j \in 1..(r - 1)
      BY <1>3
    <3> QED BY <3>2, <3>3, <2>1, <2>4, <1>2, <1>4 DEF ActAt
  <2>5. cs[acts[k].mark] # Halt => acts[k].ret = cs[acts[k].mark]
    BY <2>1 DEF ActAt
  <2>6. Len(frames') = g /\ frames' = frames /\ exc' = exc /\ cs' = cs
    BY <1>1, <1>2
  <2>7. \A h : Saved(h, acts'[k]) <=> Saved(h, acts[k])
    BY <2>1
  <2> QED BY <2>1, <2>2, <2>3, <2>4, <2>5, <2>6, <1>4 DEF ActAt, Saved
<1>13. LoopsNest'
  BY <1>1, <1>3, <1>9 DEF IInv, LoopsNest, Ended
<1>14. AbortAtTop'
  BY <1>1, <1>2, <1>4 DEF IInv, AbortAtTop
<1> QED BY <1>6, <1>7, <1>8, <1>10, <1>11, <1>12, <1>13, <1>14 DEF IInv

\* A THROW out of a line's own portal is one no CATCH is active for.
LEMMA UncaughtIsUnprotected ==
  ASSUME IInv, Thrown, ~FrameHere, Len(portals) = 1
  PROVE  Protected = {}
<1>1. Unwinding /\ exc # Quit
  BY DEF Thrown
<1>2. PICK n, m, g : n = Len(cs) /\ m = Len(acts) /\ g = Len(frames)
  OBVIOUS
<1>3. /\ m \in Nat /\ g \in Nat
      /\ cs_base = portals[1].base
      /\ \A i \in 1..g : frames[i].control \in Nat
      /\ \A k \in 1..m : ActAt(k)
  BY <1>1, <1>2, Unwinds
<1>4. 1 \in 1..Len(portals)
  OBVIOUS
<1>5. portals[1].kind = "line" /\ cs_base = 0
  BY <1>3, <1>4 DEF IInv, PortalsSound, PortalAt
<1>6. ~ \E i \in 1..g : TRUE
  <2> SUFFICES ASSUME g \in 1..g PROVE FALSE
    BY <1>3
  <2>1. frames # <<>> /\ Last(frames) = frames[g]
    <3>1. frames # <<>>
      BY <1>2, <1>3, EmptySeq
    <3> QED BY <3>1, <1>2 DEF Last
  <2> QED BY <2>1, <1>3, <1>5 DEF FrameHere
<1>7. \A k \in 1..m : acts[k].kind # "catch"
  <2> SUFFICES ASSUME NEW k \in 1..m, acts[k].kind = "catch" PROVE FALSE
    OBVIOUS
  <2>1. acts[k].mark # portals[1].base + 1
    BY <1>2, <1>3, <1>4, <1>5 DEF ActAt
  <2>2. \A j \in 1..Len(portals) : j = 1
    OBVIOUS
  <2> QED BY <2>1, <2>2, <1>1, <1>2, <1>3, <1>6 DEF ActAt
<1>8. DOMAIN acts = 1..m
  BY <1>2, LenProperties DEF IInv, Shape
<1> QED BY <1>7, <1>8 DEF Protected

\* A THROW through a caller that catches nothing.
LEMMA ReraiseKeeps == ASSUME IInv, Reraise PROVE IInv'
<1>1. /\ Thrown /\ Unwinding /\ exc # Quit /\ ~FrameHere /\ Last(portals).kind # "catch"
      /\ ClosePortal /\ GoTo(Last(portals).caller)
      /\ UNCHANGED <<exc, cs, frames, loopVars, rs_ptr>>
      /\ IF Len(portals) = 1 THEN DropActivations ELSE UNCHANGED acts
  BY DEF Reraise, Thrown
<1>2. Len(portals) = 1 => acts' = <<>>
  BY <1>1, UncaughtIsUnprotected DEF DropActivations
<1>3. Len(portals) # 1 => acts' = acts
  BY <1>1
<1>4. acts' \in Seq(ActType)
  <2>1. <<>> \in Seq(ActType) /\ acts \in Seq(ActType)
    BY DEF IInv, Shape
  <2> QED BY <2>1, <1>2, <1>3
<1> QED BY <1>1, <1>3, <1>4, LeavePortalKeeps

\* Abort passes EXECUTE and CATCH; a line's own portal it never passes.
LEMMA PassAbortKeeps == ASSUME IInv, PassAbort PROVE IInv'
<1>1. /\ Unwinding /\ exc = Quit /\ Last(portals).kind # "line"
      /\ ClosePortal /\ GoTo(Last(portals).caller)
      /\ UNCHANGED <<exc, cs, frames, loopVars, rs_ptr, acts>>
  BY DEF PassAbort
<1>2. acts' \in Seq(ActType)
  BY <1>1 DEF IInv, Shape
<1> QED BY <1>1, <1>2, LeavePortalKeeps

\* Where text under EVALUATE raises no Abort, only the line itself catches one,
\* and with it the last portal goes.
LEMMA ResetAfterAbortKeeps == ASSUME IInv, ResetAfterAbort PROVE IInv'
<1>1. /\ Unwinding /\ exc = Quit /\ Last(portals).kind \in {"line", "evaluate"}
      /\ cs_base' = Last(portals).saved_base /\ portals' = Front(portals)
      /\ thread' = Last(portals).caller.thread /\ ip' = Last(portals).caller.ip
      /\ exc' = None /\ cs' = <<>> /\ frames' = <<>> /\ acts' = <<>>
      /\ lc_depth' = 0 /\ rs_ptr' = 0
      /\ UNCHANGED <<li, ll, lc_is, lc_ls, result>>
  BY DEF ResetAfterAbort, ClosePortal, GoTo
<1>2. PICK r : r = Len(portals)
  OBVIOUS
<1>3. r \in Nat \ {0} /\ Last(portals) = portals[r] /\ portals \in Seq(Portal) /\ portals # <<>>
  BY <1>1, <1>2, Unwinds DEF IInv, Shape
<1>4. r \in 1..r /\ portals[r] \in Portal
  BY <1>2, <1>3, ElementOfSeq
<1>5. r = 1
  BY <1>1, <1>2, <1>3, <1>4 DEF IInv, AbortAtTop, PortalsSound, PortalAt
<1>6. portals' = <<>>
  <2>1. portals' \in Seq(Portal) /\ CutTo(portals, portals', Len(portals) - 1)
    BY <1>1, <1>3, FrontCuts
  <2>2. Len(portals') = 0
    BY <2>1, <1>2, <1>5 DEF CutTo
  <2> QED BY <2>1, <2>2, EmptySeq
<1>7. /\ Here' \in Place /\ thread' # "epilogue" /\ Here' # Epilogue
      /\ cs_base' \in 0..StackSize
  <2>1. portals[r].caller \in Place /\ portals[r].saved_base \in 0..StackSize
    BY <1>4 DEF Portal
  <2>2. thread' \in Word \cup {"now"} /\ ip' \in 0..CodeLen
    BY <2>1, <1>1, <1>3 DEF Place
  <2> QED BY <2>1, <2>2, <1>1, <1>3, HereNext
<1>8. /\ Len(cs') = 0 /\ Len(frames') = 0 /\ Len(acts') = 0 /\ Len(portals') = 0
      /\ cs' \in Seq(Entries) /\ frames' \in Seq(Frame) /\ acts' \in Seq(ActType)
      /\ portals' \in Seq(Portal)
  BY <1>1, <1>6
<1>9. Shape'
  BY <1>1, <1>7, <1>8, ParameterAssumption DEF IInv, Shape
<1>10. IdleEmpty' /\ FramesSound'
  BY <1>1, <1>7, <1>8 DEF IdleEmpty, FramesSound
<1>11. PortalsSound'
  BY <1>6, <1>8 DEF PortalsSound
<1>12. MarksSound' /\ HandlersSound' /\ LoopsNest'
  BY <1>8 DEF MarksSound, HandlersSound, LoopsNest
<1>13. AbortAtTop'
  BY <1>8 DEF AbortAtTop
<1> QED BY <1>9, <1>10, <1>11, <1>12, <1>13 DEF IInv

\* The run begins idle.
LEMMA InitIInv == ASSUME Init PROVE IInv
<1>1. /\ cs = <<>> /\ frames = <<>> /\ acts = <<>> /\ portals = <<>> /\ exc = None
      /\ Len(cs) = 0 /\ Len(frames) = 0 /\ Len(acts) = 0 /\ Len(portals) = 0
      /\ thread = "now" /\ ip = 0
  BY DEF Init
<1>2. Here \in Place /\ Here # Epilogue
  BY <1>1, Special, ParameterAssumption DEF Here, Entry, Place
<1>3. Shape
  <2>1. /\ cs \in Seq(Entries) /\ frames \in Seq(Frame) /\ acts \in Seq(ActType)
        /\ portals \in Seq(Portal)
    BY <1>1
  <2>2. /\ li \in Int /\ ll \in Int /\ lc_depth \in 0..LoopSize /\ rs_ptr \in 0..RSize
        /\ cs_base \in 0..StackSize
        /\ lc_is \in [0..(LoopSize - 1) -> Int] /\ lc_ls \in [0..(LoopSize - 1) -> Int]
    BY ParameterAssumption DEF Init
  <2> QED BY <2>1, <2>2, <1>1, <1>2, ParameterAssumption DEF Shape
<1>4. IdleEmpty /\ FramesSound
  BY <1>1, <1>2 DEF IdleEmpty, FramesSound
<1>5. PortalsSound
  BY <1>1 DEF PortalsSound
<1>6. MarksSound /\ HandlersSound /\ LoopsNest
  BY <1>1 DEF MarksSound, HandlersSound, LoopsNest
<1>7. AbortAtTop
  BY <1>1 DEF AbortAtTop
<1> QED BY <1>3, <1>4, <1>5, <1>6, <1>7 DEF IInv

\* Nothing changes: the run has ended, or another part of the system moves.
LEMMA StutterKeeps == ASSUME IInv, UNCHANGED vars PROVE IInv'
<1>1. /\ thread' = thread /\ ip' = ip /\ exc' = exc /\ cs' = cs /\ cs_base' = cs_base
      /\ frames' = frames /\ portals' = portals /\ li' = li /\ ll' = ll
      /\ lc_depth' = lc_depth /\ lc_is' = lc_is /\ lc_ls' = lc_ls /\ rs_ptr' = rs_ptr
      /\ acts' = acts
  BY DEF vars
<1>2. Here' = Here /\ Ended' = Ended
  BY <1>1 DEF Here, Ended
<1>3. Shape' /\ IdleEmpty' /\ AbortAtTop' /\ LoopsNest'
  BY <1>1, <1>2 DEF IInv, Shape, IdleEmpty, AbortAtTop, LoopsNest
<1>4. PortalsSound'
  BY <1>1 DEF IInv, PortalsSound, PortalAt, HaltAt
<1>5. FramesSound'
  BY <1>1, <1>2 DEF IInv, FramesSound, FrameAt
<1>6. MarksSound'
  BY <1>1, <1>2 DEF IInv, MarksSound
<1>7. HandlersSound'
  BY <1>1, <1>2 DEF IInv, HandlersSound, ActAt, Saved
<1> QED BY <1>3, <1>4, <1>5, <1>6, <1>7 DEF IInv

\* Every action keeps the invariant.
LEMMA NextIInv == ASSUME ~NestedAborts, IInv, [Next]_vars PROVE IInv'
<1>1. CASE StartLine
  BY <1>1, StartLineKeeps
<1>2. CASE NextWord
  BY <1>2, NextWordIsQuiet, QuietKeeps
<1>3. CASE Step
  BY <1>3, StepIsQuiet, QuietKeeps
<1>4. ASSUME NEW w \in Word, Call(w) \/ TailCall(w) \/ Catch(w) PROVE IInv'
  BY <1>4, CallKeeps, TailCallIsQuiet, QuietKeeps, CatchKeeps
<1>5. ASSUME NEW kind \in {"execute", "evaluate", "catch"}, Nest(kind) PROVE IInv'
  BY <1>5, NestKeeps
<1>6. CASE CatchEpilogue
  BY <1>6, CatchEpilogueKeeps
<1>7. CASE Return
  BY <1>7, ReturnKeeps
<1>8. CASE ReturnFromPortal
  BY <1>8, ReturnFromPortalKeeps
<1>9. ASSUME NEW limit \in Limit, NEW counter \in Limit, Do(limit, counter) PROVE IInv'
  BY <1>9, DoIsQuiet, QuietKeeps
<1>10. ASSUME NEW k \in Increment, Again(k) PROVE IInv'
  BY <1>10, AgainIsQuiet, QuietKeeps
<1>11. CASE LeaveLoop
  BY <1>11, LeaveLoopIsQuiet, QuietKeeps
<1>12. CASE (\E code \in Code : Throw(code)) \/ Abort \/ QuitWord
  BY <1>12, RaiseIsQuiet, QuietKeeps
<1>13. CASE Unwind
  BY <1>13, LandInFrameKeeps, LandInPortalKeeps, ReraiseKeeps, PassAbortKeeps,
     ResetAfterAbortKeeps DEF Unwind
<1>14. CASE Done \/ UNCHANGED vars
  BY <1>14, StutterKeeps DEF Done
<1> QED BY <1>1, <1>2, <1>3, <1>4, <1>5, <1>6, <1>7, <1>8, <1>9, <1>10, <1>11, <1>12, <1>13,
           <1>14 DEF Next

\* What ties the three structures together holds of every state of a run.
LEMMA IInvInvariant == ASSUME ~NestedAborts PROVE Spec => []IInv
BY InitIInv, NextIInv, PTL DEF Spec

-----------------------------------------------------------------------------
(* What the runs check.                                                    *)

\* The indices stay inside their arrays.
LEMMA TypeOKFollows == ASSUME IInv PROVE TypeOK
<1>1. Shape
  BY DEF IInv
<1>2. /\ thread \in Word \cup {"now", "epilogue"} /\ ip \in 0..CodeLen
  BY <1>1, ShapeParts
<1>3. /\ Len(cs) \in Nat /\ Len(frames) \in Nat
      /\ DOMAIN cs = 1..Len(cs) /\ DOMAIN frames = 1..Len(frames)
      /\ \A i \in 1..Len(frames) : frames[i] \in Frame
      /\ \A q \in 1..Len(cs) : cs[q] \in Entries
  BY <1>1, Lengths, LenProperties DEF Shape
<1>4. Len(cs) \in 0..StackSize /\ Len(frames) \in 0..CatchDepth
  BY <1>1, <1>3, ParameterAssumption DEF Shape
<1> QED BY <1>1, <1>2, <1>3, <1>4 DEF Shape, TypeOK, Entries

\* A HALT for every portal, and no other while nothing is thrown.
LEMMA PortalsMatchFollows == ASSUME IInv PROVE PortalsMatchControl
<1>1. /\ DOMAIN cs = 1..Len(cs) /\ DOMAIN portals = 1..Len(portals)
      /\ Len(cs) \in Nat
      /\ \A j \in 1..Len(portals) : portals[j].base \in Nat
  BY Lengths, LenProperties DEF IInv, Shape
<1>2. \A j \in 1..Len(portals) :
        portals[j].base + 1 \in 1..Len(cs) /\ cs[portals[j].base + 1] = Halt
  BY <1>1 DEF IInv, PortalsSound, PortalAt
<1>3. exc = None =>
        \A q \in 1..Len(cs) : cs[q] = Halt => \E j \in 1..Len(portals) : portals[j].base + 1 = q
  BY DEF IInv, PortalsSound, HaltAt
<1>4. portals # <<>> => cs_base = Last(portals).base
  BY DEF IInv, PortalsSound, Last
<1>5. \A i, j \in 1..Len(portals) : i < j => portals[i].base < portals[j].base
  BY DEF IInv, PortalsSound
<1> QED BY <1>1, <1>2, <1>3, <1>4, <1>5 DEF PortalsMatchControl

\* A set that is counted off.
LEMMA CountedOff ==
  ASSUME NEW n \in Nat, NEW S, NEW f \in [1..n -> S],
         \A i, j \in 1..n : f[i] = f[j] => i = j,
         \A x \in S : \E i \in 1..n : f[i] = x
  PROVE  Cardinality(S) = n
<1>1. f \in Bijection(1..n, S)
  BY DEF Bijection, Injection, Surjection, IsInjective
<1>2. ExistsBijection(1..n, S)
  BY <1>1 DEF ExistsBijection
<1> QED BY <1>2, FS_CountingElements

\* One epilogue for every frame, but that the last one's may be running.
LEMMA EpiloguesCounted ==
  ASSUME IInv
  PROVE  Cardinality({q \in DOMAIN cs : cs[q] = Epilogue})
           + (IF Here = Epilogue THEN 1 ELSE 0) = Len(frames)
<1> DEFINE g == Len(frames)
           l == IF Here = Epilogue THEN g - 1 ELSE g
           S == {q \in DOMAIN cs : cs[q] = Epilogue}
           f == [i \in 1..l |-> frames[i].control + 2]
<1>1. /\ DOMAIN cs = 1..Len(cs) /\ Len(cs) \in Nat /\ g \in Nat
      /\ \A i \in 1..g : frames[i].control \in Nat
  BY Lengths, LenProperties DEF IInv, Shape
<1>2. Here = Epilogue => g > 0
  BY <1>1, EmptySeq DEF IInv, FramesSound, Shape
<1>3. l \in Nat /\ \A i \in 1..l : i \in 1..g /\ ~ (Here = Epilogue /\ i = g)
  BY <1>1, <1>2
<1>4. \A i \in 1..l : frames[i].control + 2 \in S
  <2> TAKE i \in 1..l
  <2>1. frames[i].control + 1 < Len(cs) /\ cs[frames[i].control + 2] = Epilogue
    BY <1>3 DEF IInv, FramesSound, FrameAt
  <2>2. frames[i].control \in Nat
    BY <1>1, <1>3
  <2> QED BY <2>1, <2>2, <1>1
<1>5. \A i, j \in 1..l : frames[i].control + 2 = frames[j].control + 2 => i = j
  <2> TAKE i, j \in 1..l
  <2>1. /\ frames[i].control \in Nat /\ frames[j].control \in Nat
        /\ i \in 1..g /\ j \in 1..g
    BY <1>1, <1>3
  <2>2. /\ i < j => frames[i].control + 1 < frames[j].control
        /\ j < i => frames[j].control + 1 < frames[i].control
    BY <2>1 DEF IInv, FramesSound
  <2> QED BY <2>1, <2>2, <1>1
<1>6. \A q \in S : \E i \in 1..l : frames[i].control + 2 = q
  <2> TAKE q \in S
  <2>1. q \in 1..Len(cs) /\ cs[q] = Epilogue
    BY <1>1
  <2>2. PICK i \in 1..g : frames[i].control + 2 = q
    BY <2>1 DEF IInv, FramesSound
  <2>3. ~ (Here = Epilogue /\ i = g)
    <3> SUFFICES ASSUME Here = Epilogue, i = g PROVE FALSE
      OBVIOUS
    <3>1. frames[i].control + 1 = Len(cs)
      BY DEF IInv, FramesSound, FrameAt
    <3> QED BY <3>1, <2>1, <2>2, <1>1
  <2>4. i \in 1..l
    BY <2>3, <1>1
  <2> QED BY <2>2, <2>4
<1>7. f \in [1..l -> S] /\ \A i \in 1..l : f[i] = frames[i].control + 2
  BY <1>4
<1> HIDE DEF f, S, l
<1>8. Cardinality(S) = l
  <2>1. \A i, j \in 1..l : f[i] = f[j] => i = j
    BY <1>5, <1>7
  <2>2. \A q \in S : \E i \in 1..l : f[i] = q
    BY <1>6, <1>7
  <2>3. l \in Nat /\ f \in [1..l -> S]
    BY <1>3, <1>7
  <2> QED BY ONLY <2>1, <2>2, <2>3, CountedOff
<1> USE DEF S, l
<1> QED BY <1>1, <1>8

\* Each frame is at its mark on cs, with one epilogue.
LEMMA FramesMatchFollows == ASSUME IInv PROVE FramesMatchControl
<1>1. /\ DOMAIN frames = 1..Len(frames) /\ Len(cs) \in Nat /\ Len(frames) \in Nat
      /\ \A i \in 1..Len(frames) : frames[i].control \in Nat
  BY Lengths, LenProperties DEF IInv, Shape
<1>2. ASSUME NEW i \in 1..Len(frames)
      PROVE  LET c == frames[i].control IN
               /\ Len(cs) > c
               /\ cs[c + 1] = Entry(frames[i].thread, frames[i].ip)
               /\ \/ Len(cs) > c + 1 /\ cs[c + 2] = Epilogue
                  \/ Len(cs) = c + 1 /\ Here = Epilogue /\ i = Len(frames)
               /\ i > 1 => frames[i - 1].control + 1 < c
  <2>1. FrameAt(i) /\ frames[i].control \in Nat
    BY <1>1 DEF IInv, FramesSound
  <2>2. i > 1 => i - 1 \in 1..Len(frames) /\ i - 1 < i
    BY <1>1
  <2>3. i > 1 => frames[i - 1].control + 1 < frames[i].control
    BY <2>2 DEF IInv, FramesSound
  <2> QED BY <2>1, <2>3, <1>1 DEF FrameAt
<1> QED BY <1>1, <1>2, EpiloguesCounted DEF FramesMatchControl

\* Whatever the program and however deep it goes, no index leaves its array.
THEOREM InterpreterTyped == ASSUME ~NestedAborts PROVE Spec => []TypeOK
BY IInvInvariant, TypeOKFollows, PTL

\* Whatever the program, the catch frames and the control stack describe the
\* same CATCHes: catch_drop_frame drops the frame whose epilogue it runs.
THEOREM FramesAgree == ASSUME ~NestedAborts PROVE Spec => []FramesMatchControl
BY IInvInvariant, FramesMatchFollows, PTL

\* Whatever the program, every execute_word_now has its HALT on the control
\* stack, and a return ends the innermost at its HALT and not before.
THEOREM PortalsAgree == ASSUME ~NestedAborts PROVE Spec => []PortalsMatchControl
BY IInvInvariant, PortalsMatchFollows, PTL

-----------------------------------------------------------------------------
(***************************************************************************)
(* The dispatch loop implements ProtectedCalls: whatever portals, frames   *)
(* and return addresses lie between, a return goes back to its caller and  *)
(* a THROW to the nearest CATCH, once.  The invariant above says where     *)
(* each activation's handler is; what is left to keep is the loops it      *)
(* began with.                                                             *)
(***************************************************************************)

\* Execution is at a word typed or evaluated, or returns to one.
InText ==
  thread = "now" \/ (thread = "epilogue" /\ cs[Len(cs)].thread = "now")

\* The loops around the innermost one of an activation are still in the arrays.
OuterLoops(k) ==
  \A i \in 1..(Len(acts[k].loops) - 1) :
    acts[k].loops[i] = [limit |-> lc_ls[i - 1], counter |-> lc_is[i - 1]]

\* No loop has begun since activation k did.
NoneBegun(k) ==
  LET n == Len(acts[k].loops) IN
    /\ exc = None => lc_depth = n
    /\ n > 0 => ll = acts[k].loops[n].limit
    /\ \A j \in 1..Len(acts) : k < j => ~acts[j].begun /\ Len(acts[j].loops) = n

\* The loops of an activation can still be restored, but for the innermost:
\* its counter the handler has, its limit only a loop begun since loses.  What
\* is typed or evaluated begins no loop of its own.
LoopsKept ==
  ~Ended =>
    /\ \A k \in 1..Len(acts) :
         /\ OuterLoops(k)
         /\ ~acts[k].begun => NoneBegun(k)
         /\ k > 1 /\ acts[k].ret.thread = "now" =>
              Len(acts[k].loops) = Len(acts[k - 1].loops)
    /\ exc = None /\ InText /\ acts # <<>> => lc_depth = Len(acts[Len(acts)].loops)

RInv == IInv /\ LoopsKept

-----------------------------------------------------------------------------
(* The loops, as the steps leave them.                                     *)

\* A step that keeps activations and loops, and does not begin on new text.
LEMMA SameLoopsKept ==
  ASSUME RInv, ~Ended, UNCHANGED <<acts, ll, lc_is, lc_ls>>,
         exc' = None => exc = None /\ lc_depth' = lc_depth /\ (InText' => InText)
  PROVE  LoopsKept'
<1>1. /\ acts' = acts /\ Len(acts') = Len(acts)
      /\ \A k \in 1..Len(acts) : acts'[k] = acts[k]
  OBVIOUS
<1>2. ASSUME NEW k \in 1..Len(acts)
      PROVE  /\ OuterLoops(k)'
             /\ ~acts[k].begun => NoneBegun(k)'
             /\ k > 1 /\ acts[k].ret.thread = "now" =>
                  Len(acts[k].loops) = Len(acts[k - 1].loops)
  <2>1. OuterLoops(k)'
    BY DEF RInv, LoopsKept, OuterLoops
  <2>2. ~acts[k].begun => NoneBegun(k)
    BY DEF RInv, LoopsKept
  <2>3. NoneBegun(k) => NoneBegun(k)'
    BY <1>1 DEF NoneBegun
  <2> QED BY <2>1, <2>2, <2>3 DEF RInv, LoopsKept
<1>3. exc' = None /\ InText' /\ acts' # <<>> => lc_depth' = Len(acts'[Len(acts')].loops)
  BY <1>1 DEF RInv, LoopsKept
<1> QED BY <1>1, <1>2, <1>3 DEF LoopsKept

\* An activation that ends leaves those below it their loops.
LEMMA CutKeepsLoops ==
  ASSUME RInv, ~Ended, UNCHANGED <<ll, lc_is, lc_ls>>, acts' \in Seq(ActType),
         NEW m \in 0..Len(acts), CutTo(acts, acts', m), exc' = None,
         \A k \in 1..m : ~acts[k].begun => lc_depth' = Len(acts[k].loops),
         InText' /\ m > 0 => lc_depth' = Len(acts[m].loops)
  PROVE  LoopsKept'
<1>1. /\ Len(acts) \in Nat /\ Len(acts') = m /\ m \in Nat
      /\ \A k \in 1..m : acts'[k] = acts[k] /\ k \in 1..Len(acts)
  BY Lengths DEF CutTo, RInv, IInv
<1>2. ASSUME NEW k \in 1..m
      PROVE  /\ OuterLoops(k)'
             /\ ~acts'[k].begun => NoneBegun(k)'
             /\ k > 1 /\ acts'[k].ret.thread = "now" =>
                  Len(acts'[k].loops) = Len(acts'[k - 1].loops)
  <2>1. k \in 1..Len(acts) /\ acts'[k] = acts[k]
    BY <1>1
  <2>2. OuterLoops(k)'
    BY <2>1 DEF RInv, LoopsKept, OuterLoops
  <2>3. ASSUME ~acts[k].begun PROVE NoneBegun(k)'
    <3>1. NoneBegun(k)
      BY <2>1, <2>3 DEF RInv, LoopsKept
    <3>2. lc_depth' = Len(acts[k].loops)
      BY <2>3
    <3> QED BY <3>1, <3>2, <2>1, <1>1 DEF NoneBegun
  <2>4. k > 1 => k - 1 \in 1..m /\ acts'[k - 1] = acts[k - 1]
    BY <1>1
  <2> QED BY <2>1, <2>2, <2>3, <2>4 DEF RInv, LoopsKept
<1>3. acts' # <<>> => m \in 1..m /\ m > 0 /\ acts'[m] = acts[m]
  <2>1. m = 0 => acts' = <<>>
    BY <1>1, EmptySeq
  <2>2. m # 0 => m \in 1..m /\ m > 0
    BY <1>1
  <2> QED BY <2>1, <2>2, <1>1
<1> QED BY <1>1, <1>2, <1>3 DEF LoopsKept

\* A new activation takes the loops that run.
LEMMA EnterKeepsLoops ==
  ASSUME RInv, ~Ended, exc = None, UNCHANGED <<loopVars, exc>>,
         NEW ret \in Place \cup {Idle}, NEW kind \in {"call", "run", "catch"},
         Enter(ret, kind),
         ret.thread = "now" /\ acts # <<>> => InText
  PROVE  LoopsKept'
<1>0. PICK m \in Nat : m = Len(acts)
  BY Lengths DEF RInv, IInv
<1> DEFINE a == Activation(ret, kind)
<1>1. /\ acts' \in Seq(ActType) /\ Grown(acts, acts', a) /\ Len(a.loops) = lc_depth
      /\ a.ret = ret /\ a.loops = Loops /\ a.begun = FALSE
  BY EnterActs, ActivationTyped DEF RInv, IInv
<1>2. /\ lc_depth \in Nat /\ acts \in Seq(ActType)
      /\ li' = li /\ ll' = ll /\ lc_depth' = lc_depth /\ lc_is' = lc_is /\ lc_ls' = lc_ls
      /\ exc' = None
  BY Lengths DEF RInv, IInv, Shape, loopVars
<1> HIDE DEF a
<1>3. /\ Len(acts') = m + 1 /\ acts'[m + 1] = a
      /\ \A k \in 1..m : acts'[k] = acts[k]
      /\ \A k \in 1..(m + 1) : k = m + 1 \/ k \in 1..m
  BY <1>0, <1>1, <1>2 DEF Grown
<1>4. acts # <<>> => m > 0 /\ m \in 1..m
  BY <1>0, <1>2, EmptySeq
<1>5. ASSUME NEW k \in 1..m, ~acts[k].begun
      PROVE  /\ lc_depth = Len(acts[k].loops)
             /\ Len(acts[k].loops) > 0 => ll = acts[k].loops[Len(acts[k].loops)].limit
             /\ \A j \in 1..m : k < j => ~acts[j].begun /\ Len(acts[j].loops) = Len(acts[k].loops)
  BY <1>0, <1>5 DEF RInv, LoopsKept, NoneBegun
<1>6. ASSUME NEW k \in 1..m
      PROVE  /\ OuterLoops(k)'
             /\ ~acts'[k].begun => NoneBegun(k)'
             /\ k > 1 /\ acts'[k].ret.thread = "now" =>
                  Len(acts'[k].loops) = Len(acts'[k - 1].loops)
  <2>1. acts'[k] = acts[k]
    BY <1>3
  <2>2. OuterLoops(k)
    BY <1>0 DEF RInv, LoopsKept
  <2>3. k > 1 => k - 1 \in 1..m /\ acts'[k - 1] = acts[k - 1]
    BY <1>0, <1>2, <1>3
  <2>4. k > 1 /\ acts[k].ret.thread = "now" => Len(acts[k].loops) = Len(acts[k - 1].loops)
    BY <1>0 DEF RInv, LoopsKept
  <2>5. ~acts'[k].begun => NoneBegun(k)'
    BY <2>1, <1>1, <1>0, <1>2, <1>3, <1>5 DEF NoneBegun
  <2> QED BY <2>1, <2>2, <2>3, <2>4, <2>5, <1>0, <1>2 DEF OuterLoops
<1>7. lc_depth > 0 => Loops[lc_depth] = [limit |-> ll, counter |-> li]
  BY <1>0, <1>2 DEF Loops
<1>8. OuterLoops(m + 1)'
  <2>1. ASSUME NEW i \in 1..(lc_depth - 1)
        PROVE  Loops[i] = [limit |-> lc_ls[i - 1], counter |-> lc_is[i - 1]]
    <3>1. i \in 1..lc_depth /\ i # lc_depth
      BY <1>0, <1>2
    <3> QED BY <3>1 DEF Loops
  <2> QED BY <2>1, <1>1, <1>0, <1>2, <1>3 DEF OuterLoops
<1>9. NoneBegun(m + 1)'
  <2>1. \A j \in 1..(m + 1) : ~ (m + 1 < j)
    BY <1>0, <1>2
  <2>2. lc_depth > 0 => ll = Loops[lc_depth].limit
    BY <1>7
  <2> QED BY <2>1, <2>2, <1>1, <1>0, <1>2, <1>3 DEF NoneBegun
<1>10. m + 1 > 1 /\ a.ret.thread = "now" => Len(a.loops) = Len(acts'[m].loops)
  <2>1. m + 1 > 1 => m \in 1..m /\ acts # <<>>
    BY <1>0, <1>2, EmptySeq
  <2>2. InText /\ acts # <<>> => lc_depth = Len(acts[m].loops)
    BY <1>0 DEF RInv, LoopsKept
  <2> QED BY <2>1, <2>2, <1>1, <1>3
<1>11. \A k \in 1..(m + 1) : /\ OuterLoops(k)'
                             /\ ~acts'[k].begun => NoneBegun(k)'
                             /\ k > 1 /\ acts'[k].ret.thread = "now" =>
                                  Len(acts'[k].loops) = Len(acts'[k - 1].loops)
  <2> TAKE k \in 1..(m + 1)
  <2>1. CASE k \in 1..m
    BY <2>1, <1>6
  <2>2. CASE k = m + 1
    <3>1. acts'[k] = a /\ k - 1 = m
      BY <2>2, <1>0, <1>2, <1>3
    <3> QED BY <3>1, <2>2, <1>8, <1>9, <1>10
  <2> QED BY <2>1, <2>2, <1>3
<1> QED BY <1>1, <1>0, <1>2, <1>3, <1>11 DEF LoopsKept

\* The place a return goes to is the one its activation was entered from, and
\* it was a CATCH just where the epilogue or the portal of one lies there.
LEMMA ReturnEnds ==
  ASSUME RInv, AtReturn, thread # "epilogue",
         NEW n, n = Len(cs), NEW m, m = Len(acts)
  PROVE  /\ n \in Nat \ {0} /\ m \in Nat \ {0} /\ Last(cs) = cs[n] /\ Last(acts) = acts[m]
         /\ lc_depth = Len(acts[m].loops)
         /\ cs[n] # Halt /\ cs[n] # Epilogue =>
              cs[n] \in Place /\ acts[m].ret = cs[n] /\ acts[m].kind # "catch"
         /\ cs[n] = Epilogue =>
              n > 1 /\ cs[n - 1] \in Place /\ acts[m].ret = cs[n - 1] /\ acts[m].kind = "catch"
         /\ cs[n] = Halt =>
              /\ acts[m].ret = (IF Len(portals) = 1 THEN Idle ELSE Last(portals).caller)
              /\ acts[m].kind = (IF Last(portals).kind = "catch" THEN "catch" ELSE "run")
<1>1. exc = None /\ portals # <<>> /\ IInv /\ LoopsKept /\ ~Ended
  BY DEF AtReturn, Running, RInv, Ended
<1>2. PICK g, r : g = Len(frames) /\ r = Len(portals)
  OBVIOUS
<1>3. /\ n \in Nat \ {0} /\ m \in Nat \ {0} /\ g \in Nat
      /\ \A k \in 1..m : acts[k].mark \in 1..n
      /\ cs[n] # Epilogue => acts[m].mark = n
      /\ cs[n] = Epilogue => /\ n > 1 /\ cs[n - 1] \in Place /\ acts[m].mark = n - 1
                             /\ g > 0 /\ frames[g].control + 2 = n
  BY <1>1, <1>2, TopOfControl
<1>4. n \in 1..n /\ m \in 1..m /\ Last(cs) = cs[n] /\ Last(acts) = acts[m] /\ acts # <<>>
  <2>1. acts \in Seq(ActType)
    BY <1>1 DEF IInv, Shape
  <2>2. acts # <<>>
    BY <2>1, <1>3, EmptySeq
  <2> QED BY <2>2, <1>3 DEF Last
<1>5. lc_depth = Len(acts[m].loops)
  <2>1. CASE thread = "now"
    BY <2>1, <1>1, <1>4 DEF LoopsKept, InText
  <2>2. CASE Own = 0
    <3>1. lc_depth \in Nat /\ Len(acts[m].loops) \in Nat
      BY <1>1, <1>4, Lengths DEF IInv
    <3> QED BY <3>1, <2>2, <1>4 DEF Own
  <2> QED BY <2>1, <2>2 DEF AtReturn
<1>6. ActAt(m) /\ cs[n] \in Entries
  BY <1>1, <1>4, Lengths DEF IInv, HandlersSound
<1>7. ASSUME cs[n] # Halt, cs[n] # Epilogue
      PROVE  cs[n] \in Place /\ acts[m].ret = cs[n] /\ acts[m].kind # "catch"
  <2>1. cs[n] \in Place
    BY <1>6, <1>7 DEF Entries
  <2>2. acts[m].mark = n /\ acts[m].ret = cs[n]
    BY <1>3, <1>6, <1>7 DEF ActAt
  <2>3. \A i \in 1..g : n # frames[i].control + 1
    <3> TAKE i \in 1..g
    <3>1. frames[i].control \in Nat /\ frames[i].control + 2 <= n
      BY <1>1, <1>2, FramesCalm, Lengths DEF IInv
    <3> QED BY <3>1, <1>3
  <2>4. \A j \in 1..r : n # portals[j].base + 1
    BY <1>1, <1>2, <1>7 DEF IInv, PortalsSound, PortalAt
  <2> QED BY <2>1, <2>2, <2>3, <2>4, <1>1, <1>2, <1>6, ParameterAssumption DEF ActAt
<1>8. ASSUME cs[n] = Epilogue
      PROVE  n > 1 /\ cs[n - 1] \in Place /\ acts[m].ret = cs[n - 1] /\ acts[m].kind = "catch"
  <2>1. g \in 1..g /\ frames[g].control \in Nat
    BY <1>1, <1>2, <1>3, <1>8, Lengths DEF IInv
  <2>2. acts[m].mark = frames[g].control + 1
    BY <2>1, <1>3, <1>8
  <2>3. cs[acts[m].mark] # Halt
    BY <1>3, <1>8, Special
  <2> QED BY <2>1, <2>2, <2>3, <1>2, <1>3, <1>6, <1>8 DEF ActAt
<1>9. ASSUME cs[n] = Halt
      PROVE  /\ acts[m].ret = (IF Len(portals) = 1 THEN Idle ELSE Last(portals).caller)
             /\ acts[m].kind = (IF Last(portals).kind = "catch" THEN "catch" ELSE "run")
  <2>1. portals[r].base + 1 = n /\ r \in Nat \ {0}
    BY <1>1, <1>2, <1>9, TopPortal, RunningHasActivation
  <2>2. r \in 1..r /\ Last(portals) = portals[r]
    BY <2>1, <1>1, <1>2 DEF Last
  <2>3. acts[m].mark = portals[r].base + 1
    BY <2>1, <1>3, <1>9, Special
  <2> QED BY <2>2, <2>3, <1>2, <1>6 DEF ActAt
<1> QED BY <1>3, <1>4, <1>5, <1>7, <1>8, <1>9

\* An activation that ends where it must leaves its caller its loops.
LEMMA EndKeepsLoops ==
  ASSUME RInv, exc = None, exc' = None, portals # <<>>, acts' = Front(acts), UNCHANGED loopVars,
         NEW m \in Nat \ {0}, m = Len(acts), lc_depth = Len(acts[m].loops),
         InText' /\ m - 1 > 0 => acts[m].ret.thread = "now"
  PROVE  LoopsKept'
<1>1. ~Ended /\ acts \in Seq(ActType) /\ acts # <<>>
      /\ UNCHANGED <<ll, lc_is, lc_ls>> /\ lc_depth' = lc_depth
  <2>1. acts \in Seq(ActType)
    BY DEF RInv, IInv, Shape
  <2> QED BY <2>1, EmptySeq DEF Ended, loopVars
<1>2. acts' \in Seq(ActType) /\ CutTo(acts, acts', m - 1) /\ m - 1 \in 0..Len(acts)
  BY <1>1, FrontCuts
<1>3. \A k \in 1..(m - 1) : ~acts[k].begun => lc_depth' = Len(acts[k].loops)
  <2> TAKE k \in 1..(m - 1)
  <2>1. k \in 1..m
    OBVIOUS
  <2> QED BY <2>1, <1>1 DEF RInv, LoopsKept, NoneBegun
<1>4. InText' /\ m - 1 > 0 => lc_depth' = Len(acts[m - 1].loops)
  <2>1. m - 1 > 0 => m \in 1..m /\ m > 1
    OBVIOUS
  <2> QED BY <2>1, <1>1 DEF RInv, LoopsKept
<1> QED BY <1>1, <1>2, <1>3, <1>4, CutKeepsLoops

\* EXIT and the end of a definition; the end of the epilogue.
LEMMA ReturnKeepsLoops == ASSUME RInv, Return PROVE LoopsKept'
<1>1. /\ exc = None /\ portals # <<>> /\ Last(cs) # Halt /\ exc' = None /\ AtReturn /\ IInv
      /\ thread' = Last(cs).thread /\ ip' = Last(cs).ip
      /\ cs' = Front(cs) /\ acts' = (IF thread = "epilogue" THEN acts ELSE Front(acts))
      /\ UNCHANGED <<portals, loopVars>> /\ ~Ended
  BY DEF Return, AtReturn, Running, GoTo, RInv, Ended
<1>2. PICK n, m : n = Len(cs) /\ m = Len(acts)
  OBVIOUS
<1>3. /\ cs # <<>> /\ cs \in Seq(Entries) /\ n \in Nat \ {0} /\ Last(cs) = cs[n]
      /\ CutTo(cs, cs', n - 1) /\ cs[n] \in Entries
  <2>1. cs # <<>> /\ cs \in Seq(Entries)
    BY <1>1 DEF AtReturn, IInv, Shape
  <2> QED BY <2>1, <1>1, <1>2, FrontCuts
<1>4. CASE thread = "epilogue"
  <2>1. cs[n] \in Place /\ acts' = acts
    BY <1>1, <1>2, <1>4 DEF IInv, FramesSound
  <2>2. thread' # "epilogue"
    BY <2>1, <1>1, <1>3, ParameterAssumption DEF Place
  <2>3. InText' => InText
    BY <2>2, <1>1, <1>2, <1>3, <1>4 DEF InText
  <2> QED BY <2>1, <2>3, <1>1, SameLoopsKept DEF loopVars
<1>5. CASE thread # "epilogue"
  <2>1. /\ m \in Nat \ {0} /\ lc_depth = Len(acts[m].loops) /\ acts' = Front(acts)
        /\ cs[n] # Epilogue => cs[n] \in Place /\ acts[m].ret = cs[n]
        /\ cs[n] = Epilogue => n > 1 /\ cs[n - 1] \in Place /\ acts[m].ret = cs[n - 1]
    BY <1>1, <1>2, <1>3, <1>5, ReturnEnds
  <2>2. ASSUME InText' PROVE acts[m].ret.thread = "now"
    <3>1. CASE cs[n] # Epilogue
      <4>1. thread' # "epilogue"
        BY <2>1, <3>1, <1>1, <1>3, ParameterAssumption DEF Place
      <4> QED BY <4>1, <3>1, <2>1, <2>2, <1>1, <1>3 DEF InText
    <3>2. CASE cs[n] = Epilogue
      <4>1. thread' = "epilogue"
        BY <3>2, <1>1, <1>3, Special DEF Epilogue
      <4>2. Len(cs') = n - 1 /\ cs'[n - 1] = cs[n - 1]
        BY <2>1, <3>2, <1>3 DEF CutTo
      <4> QED BY <4>1, <4>2, <3>2, <2>1, <2>2 DEF InText
    <3> QED BY <3>1, <3>2
  <2> QED BY <2>1, <2>2, <1>1, <1>2, EndKeepsLoops
<1> QED BY <1>4, <1>5

\* The end of execute_word_now.
LEMMA ReturnFromPortalKeepsLoops == ASSUME RInv, ReturnFromPortal PROVE LoopsKept'
<1>1. /\ exc = None /\ portals # <<>> /\ Last(cs) = Halt /\ exc' = None /\ AtReturn /\ IInv
      /\ thread' = Last(portals).caller.thread
      /\ cs' = Front(cs) /\ acts' = (IF thread = "epilogue" THEN acts ELSE Front(acts))
      /\ portals' = Front(portals) /\ UNCHANGED loopVars
  BY DEF ReturnFromPortal, AtReturn, Running, GoTo, ClosePortal, RInv
<1>2. PICK n, m : n = Len(cs) /\ m = Len(acts)
  OBVIOUS
<1>3. Last(cs) = cs[n] /\ cs[n] = Halt /\ thread # "epilogue"
  <2>1. Last(cs) = cs[n]
    BY <1>2 DEF Last
  <2> QED BY <2>1, <1>1, <1>2, Special DEF IInv, FramesSound
<1>4. /\ m \in Nat \ {0} /\ lc_depth = Len(acts[m].loops) /\ acts' = Front(acts)
      /\ acts[m].ret = (IF Len(portals) = 1 THEN Idle ELSE Last(portals).caller)
  BY <1>1, <1>2, <1>3, ReturnEnds
<1>5. Len(portals) = 1 => acts' = <<>>
  <2>1. portals' \in Seq(Portal) /\ CutTo(portals, portals', Len(portals) - 1)
    BY <1>1, FrontCuts DEF IInv, Shape
  <2>2. Len(portals) = 1 => portals' = <<>>
    BY <2>1, EmptySeq DEF CutTo
  <2> QED BY <2>2, <1>1, ReturnFromPortalKeeps DEF IInv, IdleEmpty
<1>6. acts' = <<>> => ~ (m - 1 > 0)
  <2>1. acts # <<>> /\ acts \in Seq(ActType)
    BY <1>1, <1>2, <1>4, EmptySeq DEF IInv, Shape
  <2>2. Len(acts') = m - 1
    BY <2>1, <1>2, <1>4, FrontCuts DEF CutTo
  <2> QED BY <2>2
<1>7. InText' => thread' = "now"
  <2>1. Last(portals) \in Portal
    BY <1>1, FrontCuts DEF IInv, Shape
  <2>2. thread' # "epilogue"
    BY <2>1, <1>1, ParameterAssumption DEF Portal, Place
  <2> QED BY <2>2 DEF InText
<1>8. InText' /\ m - 1 > 0 => acts[m].ret.thread = "now"
  BY <1>1, <1>4, <1>5, <1>6, <1>7
<1> QED BY <1>1, <1>2, <1>4, <1>8, EndKeepsLoops

\* A THROW that lands gives the handler back its loops.
LEMMA LandKeepsLoops ==
  ASSUME RInv, Unwinding, exc' = None, UNCHANGED <<ll, lc_is, lc_ls>>, DropActivations,
         NEW h \in 1..Len(acts), acts[h].kind = "catch",
         \A k \in 1..Len(acts) : h < k => acts[k].kind # "catch",
         lc_depth' = Len(acts[h].loops),
         thread' # "epilogue", thread' = acts[h].ret.thread
  PROVE  LoopsKept'
<1>1. ~Ended /\ IInv /\ Len(acts) \in Nat
  BY Lengths DEF Unwinding, Ended, RInv, IInv
<1>2. acts' \in Seq(ActType) /\ CutTo(acts, acts', h - 1) /\ h - 1 \in 0..Len(acts)
  BY <1>1, NearestCatch
<1>3. \A k \in 1..(h - 1) : ~acts[k].begun => lc_depth' = Len(acts[k].loops)
  <2> TAKE k \in 1..(h - 1)
  <2>1. k \in 1..Len(acts) /\ k < h
    BY <1>1
  <2> QED BY <2>1, <1>1 DEF RInv, LoopsKept, NoneBegun
<1>4. InText' /\ h - 1 > 0 => lc_depth' = Len(acts[h - 1].loops)
  <2>1. InText' => acts[h].ret.thread = "now"
    BY DEF InText
  <2>2. h - 1 > 0 => h > 1
    OBVIOUS
  <2> QED BY <2>1, <2>2, <1>1 DEF RInv, LoopsKept
<1> QED BY <1>1, <1>2, <1>3, <1>4, CutKeepsLoops

\* A landing in a frame, and one in the portal of CATCH.
LEMMA LandInFrameKeepsLoops == ASSUME RInv, LandInFrame PROVE LoopsKept'
<1>1. /\ Thrown /\ Unwinding /\ FrameHere /\ exc' = None /\ IInv
      /\ thread' = Last(frames).thread /\ lc_depth' = Last(frames).lc_depth
      /\ DropActivations /\ UNCHANGED <<ll, lc_is, lc_ls>>
  BY DEF LandInFrame, Thrown, GoTo, RInv
<1>2. PICK g : g = Len(frames)
  OBVIOUS
<1>3. Last(frames) = frames[g] /\ frames[g] \in Frame
  BY <1>1, <1>2, FrameIsNearest
<1>4. PICK h \in 1..Len(acts) :
        /\ acts[h].kind = "catch" /\ Saved(frames[g], acts[h])
        /\ acts[h].ret = Entry(frames[g].thread, frames[g].ip)
        /\ \A k \in 1..Len(acts) : h < k => acts[k].kind # "catch"
  BY <1>1, <1>2, FrameIsNearest
<1>5. thread' # "epilogue" /\ thread' = acts[h].ret.thread
  BY <1>1, <1>3, <1>4, ParameterAssumption DEF Frame, Entry
<1>6. lc_depth' = Len(acts[h].loops)
  BY <1>1, <1>3, <1>4 DEF Saved
<1> QED BY <1>1, <1>4, <1>5, <1>6, LandKeepsLoops

\* The portal of CATCH has saved what a frame would have.
LEMMA LandInPortalKeepsLoops == ASSUME RInv, LandInPortal PROVE LoopsKept'
<1>1. /\ Thrown /\ Unwinding /\ ~FrameHere /\ exc' = None /\ IInv
      /\ Last(portals).kind = "catch"
      /\ thread' = Last(portals).caller.thread /\ lc_depth' = Last(portals).lc_depth
      /\ DropActivations /\ UNCHANGED <<ll, lc_is, lc_ls>>
  BY DEF LandInPortal, Thrown, GoTo, RInv
<1>2. PICK r : r = Len(portals)
  OBVIOUS
<1>3. Last(portals) = portals[r]
  BY <1>2 DEF Last
<1>4. portals[r] \in Portal
  BY <1>1, <1>2, <1>3, PortalIsNearest
<1>5. PICK h \in 1..Len(acts) :
        /\ acts[h].kind = "catch" /\ Saved(portals[r], acts[h])
        /\ acts[h].ret = portals[r].caller
        /\ \A k \in 1..Len(acts) : h < k => acts[k].kind # "catch"
  BY <1>1, <1>2, <1>3, PortalIsNearest
<1>6. thread' # "epilogue" /\ thread' = acts[h].ret.thread
  BY <1>1, <1>3, <1>4, <1>5, ParameterAssumption DEF Portal, Place
<1>7. lc_depth' = Len(acts[h].loops)
  BY <1>1, <1>3, <1>5 DEF Saved
<1> QED BY <1>1, <1>5, <1>6, <1>7, LandKeepsLoops

\* push_loop moves the outer loops no activation has lost yet.
LEMMA DoKeepsLoops ==
  ASSUME RInv, NEW limit \in Limit, NEW counter \in Limit, Do(limit, counter)
  PROVE  LoopsKept'
<1>1. exc = None /\ portals # <<>> /\ thread \in Word /\ IInv /\ ~Ended
  BY FetchPlaces DEF Do, RInv, Ended
<1>2. /\ lc_is' = IF lc_depth > 0 THEN [lc_is EXCEPT ![lc_depth - 1] = li] ELSE lc_is
      /\ lc_ls' = IF lc_depth > 0 THEN [lc_ls EXCEPT ![lc_depth - 1] = ll] ELSE lc_ls
      /\ lc_depth < LoopSize /\ UNCHANGED <<thread, exc>>
      /\ acts' = [i \in DOMAIN acts |-> [acts[i] EXCEPT !.begun = TRUE]]
  BY DEF Do
<1>3. PICK m \in Nat : m = Len(acts)
  BY <1>1, Lengths DEF IInv
<1>4. /\ lc_depth \in Nat /\ LoopSize \in Nat
      /\ lc_is \in [0..(LoopSize - 1) -> Int] /\ lc_ls \in [0..(LoopSize - 1) -> Int]
      /\ DOMAIN acts = 1..m /\ \A k \in 1..m : acts[k] \in ActType /\ Len(acts[k].loops) \in Nat
  BY <1>1, <1>3, Lengths, LenProperties, ParameterAssumption DEF IInv, Shape
<1>5. Len(acts') = m
  BY <1>1, <1>3, DoIsQuiet DEF Quiet, SameActs
<1>6. \A k \in 1..m : /\ acts'[k].begun = TRUE /\ acts'[k].loops = acts[k].loops
                      /\ acts'[k].ret = acts[k].ret
  <2> TAKE k \in 1..m
  <2>1. acts'[k] = [acts[k] EXCEPT !.begun = TRUE]
    BY <1>2, <1>4
  <2> QED BY <2>1, <1>4 DEF ActType
<1>7. ASSUME NEW k \in 1..m, NEW i \in 1..(Len(acts[k].loops) - 1)
      PROVE  lc_is'[i - 1] = lc_is[i - 1] /\ lc_ls'[i - 1] = lc_ls[i - 1]
  <2>1. Len(acts[k].loops) <= lc_depth /\ Len(acts[k].loops) \in Nat
    BY <1>1, <1>3, <1>4 DEF IInv, LoopsNest
  <2>2. i - 1 \in 0..(LoopSize - 1) /\ i - 1 # lc_depth - 1
    BY <2>1, <1>2, <1>4
  <2> QED BY <2>2, <1>2, <1>4
<1>8. ASSUME NEW k \in 1..m
      PROVE  /\ OuterLoops(k)'
             /\ k > 1 /\ acts'[k].ret.thread = "now" =>
                  Len(acts'[k].loops) = Len(acts'[k - 1].loops)
  <2>1. OuterLoops(k)
    BY <1>1, <1>3 DEF RInv, LoopsKept
  <2>2. OuterLoops(k)'
    BY <2>1, <1>6, <1>7 DEF OuterLoops
  <2>3. k > 1 => k - 1 \in 1..m
    BY <1>3
  <2>4. k > 1 /\ acts[k].ret.thread = "now" => Len(acts[k].loops) = Len(acts[k - 1].loops)
    BY <1>1, <1>3 DEF RInv, LoopsKept
  <2> QED BY <2>2, <2>3, <2>4, <1>6
<1>9. ~InText'
  BY <1>1, <1>2, ParameterAssumption DEF InText
<1> QED BY <1>5, <1>6, <1>8, <1>9 DEF LoopsKept

\* pop_loop: a loop of the running definition, begun since it was entered.
LEMMA LeaveLoopKeepsLoops == ASSUME RInv, LeaveLoop PROVE LoopsKept'
<1>1. /\ exc = None /\ portals # <<>> /\ thread \in Word /\ Own \in Nat \ {0}
      /\ IInv /\ ~Ended
  BY FetchLoopPlaces DEF LeaveLoop, RInv, Ended
<1>2. UNCHANGED <<thread, acts, lc_is, lc_ls>>
  BY DEF LeaveLoop, PopLoop
<1>3. PICK m \in Nat : m = Len(acts)
  BY <1>1, Lengths DEF IInv
<1>4. m \in 1..m /\ lc_depth # Len(acts[m].loops)
  <2>1. m \in Nat \ {0} /\ Last(acts) = acts[m] /\ Len(acts[m].loops) \in Nat /\ lc_depth \in Nat
    BY <1>1, <1>3, RunningHasActivation, Lengths DEF IInv
  <2> QED BY <2>1, <1>1 DEF Own
<1>5. \A k \in 1..m : acts[k].begun
  <2> SUFFICES ASSUME NEW k \in 1..m, ~acts[k].begun PROVE FALSE
    OBVIOUS
  <2>1. NoneBegun(k)
    BY <1>1, <1>3 DEF RInv, LoopsKept
  <2>2. k = m \/ k < m
    BY <1>3
  <2> QED BY <2>1, <2>2, <1>1, <1>3, <1>4 DEF NoneBegun
<1>6. \A k \in 1..m : OuterLoops(k)'
  BY <1>1, <1>2, <1>3 DEF RInv, LoopsKept, OuterLoops
<1>7. ~InText'
  BY <1>1, <1>2, ParameterAssumption DEF InText
<1> QED BY <1>1, <1>2, <1>3, <1>5, <1>6, <1>7 DEF RInv, LoopsKept

\* What an activation began with can be given back in every state of a run.
LEMMA NextKeepsLoops == ASSUME ~NestedAborts, RInv, [Next]_vars PROVE LoopsKept'
<1>1. CASE StartLine
  <2>1. exc = None /\ portals = <<>> /\ Enter(Idle, "run") /\ UNCHANGED <<loopVars, exc>>
    BY <1>1 DEF StartLine, OpenPortal
  <2>2. ~Ended /\ acts = <<>>
    BY <2>1 DEF Ended, RInv, IInv, IdleEmpty
  <2> QED BY <2>1, <2>2, EnterKeepsLoops
<1>2. ASSUME Fetch, UNCHANGED <<loopVars, exc>>,
             NEW kind \in {"call", "run", "catch"}, Enter(After, kind)
      PROVE  LoopsKept'
  <2>1. exc = None /\ portals # <<>> /\ After \in Place
    BY <1>2, FetchPlaces DEF RInv
  <2>2. After.thread = thread
    BY Special DEF After
  <2>3. After.thread = "now" => InText
    BY <2>2 DEF InText
  <2> QED BY <2>1, <2>3, <1>2, EnterKeepsLoops DEF Ended
<1>3. ASSUME NEW w \in Word, Call(w) \/ Catch(w) PROVE LoopsKept'
  BY <1>2, <1>3 DEF Call, Catch
<1>4. ASSUME NEW kind \in {"execute", "evaluate", "catch"}, Nest(kind) PROVE LoopsKept'
  <2>1. /\ Fetch /\ UNCHANGED <<loopVars, exc>>
        /\ Enter(After, IF kind = "catch" THEN "catch" ELSE "run")
    BY <1>4 DEF Nest, OpenPortal
  <2> QED BY <2>1, <1>2
<1>5. ASSUME exc = None, portals # <<>>, UNCHANGED <<acts, ll, lc_is, lc_ls>>,
             exc' = None => lc_depth' = lc_depth /\ (InText' => InText)
      PROVE  LoopsKept'
  BY <1>5, SameLoopsKept DEF Ended
<1>6. CASE NextWord \/ Step
  BY <1>5, <1>6 DEF NextWord, Step, Fetch, Running, loopVars, InText, callVars
<1>7. ASSUME NEW w \in Word, TailCall(w) PROVE LoopsKept'
  <2>1. ~InText'
    BY <1>7, ParameterAssumption DEF TailCall, InText
  <2> QED BY <2>1, <1>5, <1>7 DEF TailCall, Fetch, Running, loopVars
<1>8. CASE CatchEpilogue
  BY <1>5, <1>8 DEF CatchEpilogue, Running, loopVars, InText
<1>9. CASE Return \/ ReturnFromPortal
  BY <1>9, ReturnKeepsLoops, ReturnFromPortalKeepsLoops
<1>10. ASSUME NEW limit \in Limit, NEW counter \in Limit, Do(limit, counter) PROVE LoopsKept'
  BY <1>10, DoKeepsLoops
<1>11. ASSUME NEW k \in Increment, Again(k) PROVE LoopsKept'
  BY <1>5, <1>11 DEF Again, FetchLoop, Running, InText, callVars
<1>12. CASE LeaveLoop
  BY <1>12, LeaveLoopKeepsLoops
<1>13. CASE (\E code \in Code : Throw(code)) \/ Abort \/ QuitWord
  <2>1. /\ exc = None /\ portals # <<>> /\ UNCHANGED <<acts, ll, lc_is, lc_ls>>
    BY <1>13 DEF Throw, Abort, QuitWord, Raise, Fetch, Running, loopVars
  <2>2. exc' # None
    BY <1>13, ParameterAssumption DEF Throw, Abort, QuitWord, Raise
  <2> QED BY <2>1, <2>2, <1>5
<1>14. CASE LandInFrame \/ LandInPortal
  BY <1>14, LandInFrameKeepsLoops, LandInPortalKeepsLoops
<1>15. CASE Reraise \/ PassAbort
  <2>1. /\ Unwinding /\ exc' = exc /\ exc # None /\ portals # <<>>
        /\ portals' = Front(portals) /\ UNCHANGED loopVars
        /\ Len(portals) # 1 => acts' = acts
        /\ exc = Quit => Last(portals).kind # "line" /\ acts' = acts
    BY <1>15 DEF Reraise, PassAbort, Thrown, Unwinding, ClosePortal
  <2>2. Len(portals) = 1 /\ exc # Quit => Ended'
    <3>1. portals' \in Seq(Portal) /\ CutTo(portals, portals', Len(portals) - 1)
      BY <2>1, FrontCuts DEF RInv, IInv, Shape
    <3> QED BY <3>1, <2>1, EmptySeq DEF CutTo, Ended
  <2>3. ~Ended' => acts' = acts
    BY <2>1, <2>2
  <2>4. CASE acts' = acts
    BY <2>1, <2>4, SameLoopsKept DEF Ended, loopVars
  <2>5. CASE Ended'
    BY <2>5 DEF LoopsKept
  <2> QED BY <2>3, <2>4, <2>5
<1>16. CASE ResetAfterAbort
  <2>1. acts' = <<>> /\ Len(acts') = 0
    BY <1>16 DEF ResetAfterAbort
  <2> QED BY <2>1 DEF LoopsKept
<1>17. CASE Done \/ UNCHANGED vars
  BY <1>17 DEF Done, vars, RInv, LoopsKept, OuterLoops, NoneBegun, Ended, InText
<1> QED BY <1>1, <1>3, <1>4, <1>6, <1>7, <1>8, <1>9, <1>10, <1>11, <1>12, <1>13, <1>14, <1>15,
           <1>16, <1>17 DEF Next, Unwind

\* The invariant of the refinement.
LEMMA RInvInvariant == ASSUME ~NestedAborts PROVE Spec => []RInv
<1>1. Init => RInv
  <2>1. Init => acts = <<>> /\ Len(acts) = 0
    BY DEF Init
  <2> QED BY <2>1, InitIInv DEF RInv, LoopsKept
<1>2. RInv /\ [Next]_vars => RInv'
  BY NextKeepsLoops, NextIInv DEF RInv
<1> QED BY <1>1, <1>2, PTL DEF Spec

-----------------------------------------------------------------------------
(* The refinement mapping, as the instance PC of InnerInterp gives it.     *)

At == IF portals = <<>> THEN (IF exc = None THEN Idle ELSE Entry("ended", 0))
      ELSE IF exc # None THEN Entry("unwinding", 0)
      ELSE IF thread = "epilogue" THEN Last(cs)
      ELSE Here
Shown == [k \in DOMAIN acts |-> Seen(acts[k])]
Res == IF exc = None /\ Here = Epilogue THEN 0 ELSE result

\* A step of a word that transfers nothing.
LEMMA IsStep ==
  ASSUME At \in Place, At' \in Place, rs_ptr' \in {rs_ptr - 1, rs_ptr, rs_ptr + 1},
         Res' = None, Shown' = Shown, Loops' = Loops, exc' = exc
  PROVE  PC!Next
BY DEF PC!Next, PC!Step, At, Shown, Res

\* A return to the caller of the innermost activation.
LEMMA IsReturn ==
  ASSUME At \in Place, Len(Loops) = Len(Last(Shown).loops), At' = Last(Shown).ret,
         Shown' = Front(Shown), Res' = IF Last(Shown).kind = "catch" THEN 0 ELSE None,
         Loops' = Loops, rs_ptr' = rs_ptr, exc' = exc
  PROVE  PC!Next
BY DEF PC!Next, PC!Return, PC!Balanced, PC!Last, PC!Front, Last, Front, At, Shown, Res

\* A call, a CATCH, a nested interpreter.
LEMMA IsEnter ==
  ASSUME At \in Place, At' \in Place, NEW kind \in {"call", "run", "catch"},
         Shown' = Append(Shown, [ret |-> [At EXCEPT !.ip = @ + 1], kind |-> kind,
                                 loops |-> Loops, rs |-> rs_ptr, begun |-> FALSE]),
         Res' = None, Loops' = Loops, rs_ptr' = rs_ptr, exc' = exc
  PROVE  PC!Next
BY DEF PC!Next, PC!Enter, PC!Activation, PC!After, At, Shown, Res

\* A line of input.
LEMMA IsStartLine ==
  ASSUME At = Idle, At' \in Place,
         Shown' = Append(Shown, [ret |-> Idle, kind |-> "run",
                                 loops |-> Loops, rs |-> rs_ptr, begun |-> FALSE]),
         Res' = None, Loops' = Loops, rs_ptr' = rs_ptr, exc' = exc
  PROVE  PC!Next
BY DEF PC!Next, PC!StartLine, PC!Activation, PC!Idle, PC!Nowhere, Idle, Entry, At, Shown, Res

\* A loop begins.
LEMMA IsDo ==
  ASSUME At \in Place, At' \in Place, NEW limit \in Limit, NEW counter \in Limit,
         Loops' = Append(Loops, [limit |-> limit, counter |-> counter]),
         Shown' = [i \in DOMAIN Shown |-> [Shown[i] EXCEPT !.begun = TRUE]],
         Res' = None, rs_ptr' = rs_ptr, exc' = exc
  PROVE  PC!Next
BY DEF PC!Next, PC!Do, At, Shown, Res

\* A loop goes round again.
LEMMA IsAgain ==
  ASSUME At \in Place, At' \in Place, Len(Loops) # Len(Last(Shown).loops),
         Len(Loops') = Len(Loops),
         Loops' = [Loops EXCEPT ![Len(Loops)].counter = Last(Loops').counter],
         Shown' = Shown, Res' = None, rs_ptr' = rs_ptr, exc' = exc
  PROVE  PC!Next
BY DEF PC!Next, PC!Again, PC!Balanced, PC!Last, Last, At, Shown, Res

\* A loop ends.
LEMMA IsUnloop ==
  ASSUME At \in Place, At' \in Place, Len(Loops) # Len(Last(Shown).loops),
         Loops' = Front(Loops), Shown' = Shown, Res' = None, rs_ptr' = rs_ptr, exc' = exc
  PROVE  PC!Next
BY DEF PC!Next, PC!Unloop, PC!Balanced, PC!Last, PC!Front, Last, Front, At, Shown, Res

\* A code, or QUIT, begins to unwind.
LEMMA IsThrow ==
  ASSUME At \in Place, At' = Entry("unwinding", 0), exc' \in Code \cup {Quit},
         Loops' = Loops, Shown' = Shown, Res' = Res, rs_ptr' = rs_ptr
  PROVE  PC!Next
BY DEF PC!Next, PC!Throw, PC!Unwinding, PC!Nowhere, Entry, At, Shown, Res

\* ABORT empties the stacks and begins to unwind.
LEMMA IsAbort ==
  ASSUME At \in Place, At' = Entry("unwinding", 0), exc' = AbortCode,
         Loops' = <<>>, Shown' = Shown, Res' = Res, rs_ptr' = 0
  PROVE  PC!Next
BY DEF PC!Next, PC!Abort, PC!Unwinding, PC!Nowhere, Entry, At, Shown, Res

\* A landing at the nearest CATCH, h.
LEMMA IsLand ==
  ASSUME At = Entry("unwinding", 0), exc # Quit,
         NEW h, h = Max({i \in DOMAIN Shown : Shown[i].kind = "catch"}),
         {i \in DOMAIN Shown : Shown[i].kind = "catch"} # {},
         At' = Shown[h].ret, Shown' = SubSeq(Shown, 1, h - 1),
         Len(Loops') = Len(Shown[h].loops),
         \A i \in DOMAIN Loops' :
           /\ Loops'[i].counter = Shown[h].loops[i].counter
           /\ (i < Len(Loops') \/ ~Shown[h].begun) => Loops'[i].limit = Shown[h].loops[i].limit,
         rs_ptr' = Shown[h].rs, Res' = exc, exc' = None
  PROVE  PC!Next
BY DEF PC!Next, PC!Land, PC!Handler, PC!Protected, PC!Restored, PC!Max, PC!Unwinding, PC!Nowhere,
       Max, Entry, At, Shown, Res

\* QUIT has reached the line it began in.
LEMMA IsGiveUp ==
  ASSUME At = Entry("unwinding", 0), exc = Quit, At' = Idle, exc' = None,
         Shown' = <<>>, Loops' = <<>>, rs_ptr' = 0, Res' = Res
  PROVE  PC!Next
BY DEF PC!Next, PC!GiveUp, PC!Unwinding, PC!Idle, PC!Nowhere, Idle, Entry, At, Shown, Res

\* A THROW without a CATCH ends the run.
LEMMA IsUncaught ==
  ASSUME At = Entry("unwinding", 0), exc # Quit,
         {i \in DOMAIN Shown : Shown[i].kind = "catch"} = {},
         At' = Entry("ended", 0), Shown' = <<>>,
         exc' = exc, Loops' = Loops, rs_ptr' = rs_ptr, Res' = Res
  PROVE  PC!Next
BY DEF PC!Next, PC!Uncaught, PC!Protected, PC!Unwinding, PC!Ended, PC!Nowhere, Entry,
       At, Shown, Res

\* A step the program does not see.
LEMMA IsStutter ==
  ASSUME At' = At, exc' = exc, Shown' = Shown, Loops' = Loops, rs_ptr' = rs_ptr, Res' = Res
  PROVE  UNCHANGED PC!vars
BY DEF PC!vars, At, Shown, Res

-----------------------------------------------------------------------------
(* The abstract activations and loops, as the steps change them.           *)

SeenType == [ret : Place \cup {Idle}, kind : {"call", "run", "catch"}, loops : Seq(Loop),
             rs : 0..RSize, begun : BOOLEAN]

\* All but the mark is seen.
LEMMA SeenParts ==
  \A a : /\ Seen(a).ret = a.ret /\ Seen(a).kind = a.kind /\ Seen(a).loops = a.loops
         /\ Seen(a).rs = a.rs /\ Seen(a).begun = a.begun
BY DEF Seen

\* What DO does to an activation.
LEMMA BegunSeen ==
  \A b \in SeenType : [b EXCEPT !.begun = TRUE] =
    [ret |-> b.ret, kind |-> b.kind, loops |-> b.loops, rs |-> b.rs, begun |-> TRUE]
<1> TAKE b \in SeenType
<1> DEFINE c == [b EXCEPT !.begun = TRUE]
<1>1. c \in SeenType
  BY DEF SeenType
<1>2. c.ret = b.ret /\ c.kind = b.kind /\ c.loops = b.loops /\ c.rs = b.rs /\ c.begun = TRUE
  BY DEF SeenType
<1> HIDE DEF c
<1>3. c = [ret |-> c.ret, kind |-> c.kind, loops |-> c.loops, rs |-> c.rs, begun |-> c.begun]
  BY <1>1 DEF SeenType
<1>4. c = [ret |-> b.ret, kind |-> b.kind, loops |-> b.loops, rs |-> b.rs, begun |-> TRUE]
  BY <1>2, <1>3
<1> QED BY <1>4 DEF c

\* An activation is shown at its place.
LEMMA ShownSeq ==
  ASSUME NEW s \in Seq(ActType), NEW t, t = [k \in DOMAIN s |-> Seen(s[k])]
  PROVE  /\ t \in Seq(SeenType) /\ Len(t) = Len(s) /\ Len(s) \in Nat
         /\ DOMAIN t = 1..Len(s) /\ DOMAIN s = 1..Len(s)
         /\ \A k \in 1..Len(s) : t[k] = Seen(s[k])
<1>1. DOMAIN s = 1..Len(s) /\ Len(s) \in Nat
  BY LenProperties
<1>2. \A k \in 1..Len(s) : Seen(s[k]) \in SeenType
  <2> TAKE k \in 1..Len(s)
  <2>1. s[k] \in ActType
    BY ElementOfSeq
  <2> QED BY <2>1 DEF Seen, ActType, SeenType
<1>3. t = [k \in 1..Len(s) |-> t[k]] /\ \A k \in 1..Len(s) : t[k] = Seen(s[k])
  BY <1>1
<1>4. t \in Seq(SeenType) /\ Len(t) = Len(s)
  <2>1. \A k \in 1..Len(s) : t[k] \in SeenType
    BY <1>2, <1>3
  <2> QED BY <2>1, <1>1, <1>3, MappedIsSeq
<1> QED BY <1>1, <1>3, <1>4

\* The activations as they are shown.
LEMMA ShownNow ==
  ASSUME Shape
  PROVE  /\ acts \in Seq(ActType)
         /\ Shown \in Seq(SeenType) /\ Len(Shown) = Len(acts) /\ Len(acts) \in Nat
         /\ DOMAIN Shown = 1..Len(acts) /\ DOMAIN acts = 1..Len(acts)
         /\ \A k \in 1..Len(acts) : Shown[k] = Seen(acts[k])
<1>1. acts \in Seq(ActType)
  BY DEF Shape
<1> QED BY <1>1, ShownSeq DEF Shown

\* The same of the next state.
LEMMA ShownNext ==
  ASSUME acts' \in Seq(ActType)
  PROVE  /\ Shown' \in Seq(SeenType) /\ Len(Shown') = Len(acts') /\ Len(acts') \in Nat
         /\ DOMAIN Shown' = 1..Len(acts')
         /\ \A k \in 1..Len(acts') : Shown'[k] = Seen(acts'[k])
BY ShownSeq DEF Shown

\* The innermost activation, shown.
LEMMA ShownLast ==
  ASSUME Shape, acts # <<>>
  PROVE  /\ Last(Shown) = Seen(acts[Len(acts)])
         /\ Len(acts) \in 1..Len(acts)
<1>1. Len(acts) \in 1..Len(acts)
  BY ShownNow, EmptySeq
<1> QED BY <1>1, ShownNow DEF Last

\* What has not changed is shown as before.
LEMMA ShownSame == ASSUME acts' = acts PROVE Shown' = Shown
BY DEF Shown

\* No activation is left.
LEMMA ShownEmpty == ASSUME acts' = <<>> PROVE Shown' = <<>>
<1>1. acts' \in Seq(ActType) /\ Len(acts') = 0
  OBVIOUS
<1> QED BY <1>1, ShownNext, EmptySeq

\* One activation is new.
LEMMA ShownGrown ==
  ASSUME Shape, acts' \in Seq(ActType), NEW a \in ActType, Grown(acts, acts', a)
  PROVE  Shown' = Append(Shown, Seen(a))
<1>1. Seen(a) \in SeenType
  BY DEF Seen, ActType, SeenType
<1>2. /\ Append(Shown, Seen(a)) \in Seq(SeenType)
      /\ Grown(Shown, Append(Shown, Seen(a)), Seen(a))
  BY <1>1, ShownNow, AppendGrows
<1>3. PICK m \in Nat : m = Len(acts)
  BY ShownNow
<1>4. /\ Len(acts') = m + 1 /\ acts'[m + 1] = a
      /\ \A k \in 1..m : acts'[k] = acts[k]
      /\ Shown' \in Seq(SeenType) /\ Len(Shown') = m + 1
      /\ \A k \in 1..(m + 1) : Shown'[k] = Seen(acts'[k])
      /\ Len(Shown) = m /\ \A k \in 1..m : Shown[k] = Seen(acts[k])
  BY <1>3, ShownNow, ShownNext DEF Grown
<1>5. \A k \in 1..(m + 1) : Shown'[k] = Append(Shown, Seen(a))[k]
  <2> TAKE k \in 1..(m + 1)
  <2>1. k \in 1..m \/ k = m + 1
    OBVIOUS
  <2> QED BY <2>1, <1>2, <1>4 DEF Grown
<1>6. Len(Append(Shown, Seen(a))) = m + 1
  BY <1>2, <1>4 DEF Grown
<1> QED BY <1>2, <1>4, <1>5, <1>6, SeqEqual

\* The activations above a mark have ended.
LEMMA ShownCut ==
  ASSUME Shape, acts' \in Seq(ActType), NEW m \in 0..Len(acts), CutTo(acts, acts', m)
  PROVE  Shown' = SubSeq(Shown, 1, m)
<1>1. SubSeq(Shown, 1, m) \in Seq(SeenType) /\ CutTo(Shown, SubSeq(Shown, 1, m), m)
  BY ShownNow, SubSeqCuts
<1>2. /\ Len(acts') = m /\ \A k \in 1..m : acts'[k] = acts[k] /\ k \in 1..Len(acts)
  BY ShownNow DEF CutTo
<1>3. Shown' \in Seq(SeenType) /\ Len(Shown') = m /\ \A k \in 1..m : Shown'[k] = Seen(acts'[k])
  BY <1>2, ShownNext
<1>4. \A k \in 1..m : Shown'[k] = SubSeq(Shown, 1, m)[k]
  BY <1>1, <1>2, <1>3, ShownNow DEF CutTo
<1> QED BY <1>1, <1>3, <1>4, SeqEqual DEF CutTo

\* The innermost activation ends.
LEMMA ShownFront ==
  ASSUME Shape, acts # <<>>, acts' = Front(acts) PROVE Shown' = Front(Shown)
<1>1. acts' \in Seq(ActType) /\ CutTo(acts, acts', Len(acts) - 1) /\ Len(acts) - 1 \in 0..Len(acts)
  <2>1. acts \in Seq(ActType) /\ Len(acts) \in Nat \ {0}
    BY ShownNow, EmptySeq
  <2> QED BY <2>1, FrontCuts
<1>2. Shown' = SubSeq(Shown, 1, Len(acts) - 1)
  BY <1>1, ShownCut
<1> QED BY <1>2, ShownNow DEF Front

\* The protected activations are the same ones.
LEMMA ShownProtected ==
  ASSUME Shape
  PROVE  {i \in DOMAIN Shown : Shown[i].kind = "catch"} = Protected
<1>1. \A i \in 1..Len(acts) : Shown[i].kind = acts[i].kind
  BY ShownNow, SeenParts
<1> QED BY <1>1, ShownNow DEF Protected

\* The arrays of the loops have not changed.
LEMMA LoopsSame == ASSUME UNCHANGED loopVars PROVE Loops' = Loops
BY DEF loopVars, Loops

\* The loops of the next state are a sequence, too.
LEMMA LoopsNext ==
  ASSUME Shape'
  PROVE  Loops' \in Seq(Loop) /\ Len(Loops') = lc_depth' /\ DOMAIN Loops' = 1..lc_depth'
<1>1. /\ lc_depth' \in Nat /\ lc_depth' <= LoopSize /\ LoopSize \in Nat
      /\ li' \in Int /\ ll' \in Int
      /\ lc_is' \in [0..(LoopSize - 1) -> Int] /\ lc_ls' \in [0..(LoopSize - 1) -> Int]
  BY ParameterAssumption, SMTT(30) DEF Shape
<1>2. ASSUME NEW k \in 1..lc_depth' PROVE Loops'[k] \in Loop
  <2>1. Loops'[k] = IF k = lc_depth' THEN [limit |-> ll', counter |-> li']
                    ELSE [limit |-> lc_ls'[k - 1], counter |-> lc_is'[k - 1]]
    BY DEF Loops
  <2>2. k - 1 \in 0..(LoopSize - 1)
    BY <1>1
  <2>3. lc_ls'[k - 1] \in Int /\ lc_is'[k - 1] \in Int
    BY <1>1, <2>2
  <2> QED BY <1>1, <2>1, <2>3 DEF Loop
<1>3. Loops' = [k \in 1..lc_depth' |-> Loops'[k]] /\ DOMAIN Loops' = 1..lc_depth'
  BY DEF Loops
<1> QED BY <1>1, <1>2, <1>3, MappedIsSeq

\* push_loop puts the loop on top of those that run.
LEMMA LoopsPushed ==
  ASSUME RInv, NEW limit \in Limit, NEW counter \in Limit, Do(limit, counter)
  PROVE  Loops' = Append(Loops, [limit |-> limit, counter |-> counter])
<1> DEFINE e == [limit |-> limit, counter |-> counter]
<1>1. PICK d \in Nat : d = lc_depth
  BY Lengths DEF RInv, IInv
<1>2. /\ d < LoopSize /\ LoopSize \in Nat
      /\ lc_is \in [0..(LoopSize - 1) -> Int] /\ lc_ls \in [0..(LoopSize - 1) -> Int]
      /\ lc_is' = IF d > 0 THEN [lc_is EXCEPT ![d - 1] = li] ELSE lc_is
      /\ lc_ls' = IF d > 0 THEN [lc_ls EXCEPT ![d - 1] = ll] ELSE lc_ls
      /\ li' = counter /\ ll' = limit /\ lc_depth' = d + 1
  BY <1>1, ParameterAssumption DEF Do, RInv, IInv, Shape
<1>3. e \in Loop
  BY ParameterAssumption DEF Loop
<1>4. Shape' /\ Loops' \in Seq(Loop) /\ Len(Loops') = d + 1
  <2>1. Shape'
    BY DoIsQuiet, QuietKeeps DEF RInv, IInv
  <2> QED BY <2>1, <1>2, LoopsNext
<1>5. Loops \in Seq(Loop) /\ Len(Loops) = d
  BY <1>1, LoopsTyped DEF RInv, IInv
<1> HIDE DEF e
<1>6. Append(Loops, e) \in Seq(Loop) /\ Grown(Loops, Append(Loops, e), e)
  BY <1>3, <1>5, AppendGrows
<1>7. Loops'[d + 1] = e
  <2>1. d + 1 \in 1..(d + 1)
    OBVIOUS
  <2> QED BY <2>1, <1>2 DEF Loops, e
<1>8. ASSUME NEW k \in 1..d PROVE Loops'[k] = Loops[k]
  <2>1. Loops'[k] = [limit |-> lc_ls'[k - 1], counter |-> lc_is'[k - 1]]
    <3>1. k \in 1..(d + 1) /\ k # d + 1
      OBVIOUS
    <3> QED BY <3>1, <1>2 DEF Loops
  <2>2. k - 1 \in 0..(LoopSize - 1) /\ d > 0 /\ d - 1 \in 0..(LoopSize - 1)
    BY <1>2
  <2>3. CASE k = d
    <3>1. Loops[k] = [limit |-> ll, counter |-> li]
      BY <2>3, <1>1 DEF Loops
    <3>2. lc_ls'[k - 1] = ll /\ lc_is'[k - 1] = li
      BY <2>2, <2>3, <1>2
    <3> QED BY <3>1, <3>2, <2>1
  <2>4. CASE k # d
    <3>1. Loops[k] = [limit |-> lc_ls[k - 1], counter |-> lc_is[k - 1]]
      BY <2>4, <1>1 DEF Loops
    <3>2. lc_ls'[k - 1] = lc_ls[k - 1] /\ lc_is'[k - 1] = lc_is[k - 1]
      <4>1. k - 1 # d - 1
        BY <2>4
      <4> QED BY <4>1, <2>2, <1>2
    <3> QED BY <3>1, <3>2, <2>1
  <2> QED BY <2>3, <2>4
<1>9. \A k \in 1..(d + 1) : Loops'[k] = Append(Loops, e)[k]
  <2> TAKE k \in 1..(d + 1)
  <2>1. k \in 1..d \/ k = d + 1
    OBVIOUS
  <2> QED BY <2>1, <1>5, <1>6, <1>7, <1>8 DEF Grown
<1>10. Loops' = Append(Loops, e)
  <2>1. Len(Append(Loops, e)) = d + 1
    BY <1>5, <1>6 DEF Grown
  <2> QED BY <2>1, <1>4, <1>6, <1>9, SeqEqual
<1> QED BY <1>10 DEF e

\* pop_loop uncovers the loop below.
LEMMA LoopsPopped == ASSUME RInv, LeaveLoop PROVE Loops' = Front(Loops)
<1>1. PICK d \in Nat : d = lc_depth
  BY Lengths DEF RInv, IInv
<1>2. /\ d > 0 /\ lc_depth' = d - 1 /\ d <= LoopSize /\ LoopSize \in Nat
      /\ li' = IF d > 1 THEN lc_is[d - 2] ELSE li
      /\ ll' = IF d > 1 THEN lc_ls[d - 2] ELSE ll
      /\ lc_is' = lc_is /\ lc_ls' = lc_ls
  <2>1. d > 0
    BY <1>1, FetchLoopPlaces DEF LeaveLoop, RInv
  <2>2. d <= LoopSize /\ LoopSize \in Nat
    BY <1>1, ParameterAssumption DEF RInv, IInv, Shape
  <2> QED BY <2>1, <2>2, <1>1 DEF LeaveLoop, PopLoop
<1>3. Loops' \in Seq(Loop) /\ Len(Loops') = d - 1
  <2>1. Shape'
    BY LeaveLoopIsQuiet, QuietKeeps DEF RInv, IInv
  <2> QED BY <2>1, <1>2, LoopsNext
<1>4. Loops \in Seq(Loop) /\ Len(Loops) = d /\ Loops # <<>>
  <2>1. Loops \in Seq(Loop) /\ Len(Loops) = d
    BY <1>1, LoopsTyped DEF RInv, IInv
  <2> QED BY <2>1, <1>2, EmptySeq
<1>5. Front(Loops) \in Seq(Loop) /\ CutTo(Loops, Front(Loops), d - 1)
  BY <1>4, FrontCuts
<1>6. ASSUME NEW k \in 1..(d - 1) PROVE Loops'[k] = Loops[k]
  <2>1. Loops[k] = [limit |-> lc_ls[k - 1], counter |-> lc_is[k - 1]]
    <3>1. k \in 1..d /\ k # d
      BY <1>2
    <3> QED BY <3>1, <1>1 DEF Loops
  <2>2. CASE k = d - 1
    <3>1. k - 1 = d - 2 /\ d > 1
      BY <2>2, <1>2
    <3>2. Loops'[k] = [limit |-> ll', counter |-> li']
      BY <2>2, <1>2 DEF Loops
    <3> QED BY <3>1, <3>2, <2>1, <1>2
  <2>3. CASE k # d - 1
    BY <2>3, <2>1, <1>2 DEF Loops
  <2> QED BY <2>2, <2>3
<1>7. Len(Front(Loops)) = d - 1 /\ \A k \in 1..(d - 1) : Loops'[k] = Front(Loops)[k]
  BY <1>5, <1>6 DEF CutTo
<1> QED BY <1>3, <1>5, <1>7, SeqEqual

\* Going round again changes the innermost counter.
LEMMA LoopsAgain ==
  ASSUME RInv, NEW n \in Increment, Again(n)
  PROVE  /\ Len(Loops') = Len(Loops)
         /\ Loops' = [Loops EXCEPT ![Len(Loops)].counter = Last(Loops').counter]
<1>1. PICK d \in Nat : d = lc_depth
  BY Lengths DEF RInv, IInv
<1>2. /\ d > 0 /\ lc_depth' = d /\ UNCHANGED <<ll, lc_is, lc_ls>>
  BY <1>1, FetchLoopPlaces DEF Again, RInv
<1>3. Loops' \in Seq(Loop) /\ Len(Loops') = d
  <2>1. Shape'
    BY AgainIsQuiet, QuietKeeps DEF RInv, IInv
  <2> QED BY <2>1, <1>2, LoopsNext
<1>4. Loops \in Seq(Loop) /\ Len(Loops) = d
  BY <1>1, LoopsTyped DEF RInv, IInv
<1>5. /\ Loops = [k \in 1..d |-> Loops[k]] /\ DOMAIN Loops = 1..d
      /\ Loops' = [k \in 1..d |-> Loops'[k]]
  BY <1>1, <1>2 DEF Loops
<1>6. d \in 1..d /\ Loops'[d] = [limit |-> ll, counter |-> li'] /\ Loops[d] = [limit |-> ll, counter |-> li]
  BY <1>1, <1>2 DEF Loops
<1>7. Last(Loops') = Loops'[d]
  <2>1. Len(Loops') = d
    BY <1>3
  <2> QED BY <2>1 DEF Last
<1>8. \A k \in 1..d : k # d => Loops'[k] = Loops[k]
  BY <1>1, <1>2 DEF Loops
<1>9. [Loops[d] EXCEPT !.counter = li'] = [limit |-> ll, counter |-> li']
  BY <1>6
<1> QED BY <1>3, <1>4, <1>5, <1>6, <1>7, <1>8, <1>9

-----------------------------------------------------------------------------
(* Each action is a step of ProtectedCalls, or none.                       *)

\* Where a running program is.
LEMMA AtHere ==
  ASSUME RInv, exc = None, portals # <<>>, thread # "epilogue"
  PROVE  At = Here /\ At \in Place /\ Here # Epilogue /\ [At EXCEPT !.ip = @ + 1] = After
<1>1. At = Here
  BY DEF At
<1>2. Here \in Place /\ Here # Epilogue
  BY ShapeParts DEF RInv, IInv
<1>3. [Here EXCEPT !.ip = @ + 1] = After
  BY DEF Here, After, Entry
<1> QED BY <1>1, <1>2, <1>3

\* Where a running program goes.
LEMMA AtNext ==
  ASSUME exc' = None, portals' # <<>>, thread' \in Word \cup {"now"}, ip' \in 0..CodeLen
  PROVE  At' = Here' /\ At' \in Place /\ Res' = result'
BY HereNext DEF At, Res

\* Words that transfer nothing, tail calls, the next word of a text.
LEMMA StepRefines ==
  ASSUME RInv, Step \/ NextWord \/ (\E w \in Word : TailCall(w))
  PROVE  PC!Next
<1>1. Quiet /\ result' = None /\ exc' = exc /\ UNCHANGED <<loopVars, acts>>
      /\ rs_ptr' \in {rs_ptr - 1, rs_ptr, rs_ptr + 1}
  BY StepIsQuiet, NextWordIsQuiet, TailCallIsQuiet DEF RInv, Step, NextWord, TailCall
<1>2. /\ exc = None /\ portals # <<>> /\ thread # "epilogue" /\ portals' # <<>>
      /\ thread' \in Word \cup {"now"} /\ ip' \in 0..CodeLen
  BY <1>1 DEF Quiet, callVars
<1> QED BY <1>1, <1>2, AtHere, AtNext, ShownSame, LoopsSame, IsStep

\* Calls, CATCH, and new interpreters.
LEMMA EnterRefines ==
  ASSUME RInv, Fetch, NEW kind \in {"call", "run", "catch"}, Enter(After, kind),
         exc' = exc, portals' # <<>>, thread' \in Word \cup {"now"}, ip' = 0,
         result' = None, UNCHANGED <<loopVars, rs_ptr>>
  PROVE  PC!Next
<1>1. exc = None /\ portals # <<>> /\ thread # "epilogue" /\ After \in Place
  BY FetchPlaces DEF RInv
<1>2. acts' \in Seq(ActType) /\ Grown(acts, acts', Activation(After, kind))
      /\ Activation(After, kind) \in ActType
  BY <1>1, EnterActs, ActivationTyped DEF RInv, IInv
<1>3. Shown' = Append(Shown, Seen(Activation(After, kind)))
  BY <1>2, ShownGrown DEF RInv, IInv
<1>4. Seen(Activation(After, kind)) =
        [ret |-> After, kind |-> kind, loops |-> Loops, rs |-> rs_ptr, begun |-> FALSE]
  BY DEF Seen, Activation
<1>5. At' \in Place /\ Res' = None
  BY <1>1, AtNext, ParameterAssumption
<1> QED BY <1>1, <1>3, <1>4, <1>5, AtHere, LoopsSame, IsEnter

\* A line of input, from the idle machine.
LEMMA StartLineRefines == ASSUME RInv, StartLine PROVE PC!Next
<1>1. /\ exc = None /\ portals = <<>> /\ exc' = None /\ thread' = "now" /\ ip' = 0
      /\ portals' # <<>> /\ result' = None /\ Enter(Idle, "run") /\ UNCHANGED <<loopVars, rs_ptr>>
  <2>1. portals' # <<>>
    BY StartLineKeeps, AppendGrows, EmptySeq DEF StartLine, OpenPortal, RInv, IInv, Shape
  <2> QED BY <2>1 DEF StartLine, OpenPortal
<1>2. acts' \in Seq(ActType) /\ Grown(acts, acts', Activation(Idle, "run"))
      /\ Activation(Idle, "run") \in ActType
  BY <1>1, EnterActs, ActivationTyped DEF RInv, IInv
<1>3. Shown' = Append(Shown, Seen(Activation(Idle, "run")))
  BY <1>2, ShownGrown DEF RInv, IInv
<1>4. Seen(Activation(Idle, "run")) =
        [ret |-> Idle, kind |-> "run", loops |-> Loops, rs |-> rs_ptr, begun |-> FALSE]
  BY DEF Seen, Activation
<1>5. At = Idle
  BY <1>1 DEF At
<1>6. At' \in Place /\ Res' = None
  BY <1>1, AtNext, ParameterAssumption
<1> QED BY <1>1, <1>3, <1>4, <1>5, <1>6, LoopsSame, IsStartLine

\* DO, LOOP and the words that leave a loop.
LEMMA DoRefines ==
  ASSUME RInv, NEW limit \in Limit, NEW counter \in Limit, Do(limit, counter)
  PROVE  PC!Next
<1>1. Quiet /\ result' = None /\ exc' = exc /\ rs_ptr' = rs_ptr
      /\ acts' = [i \in DOMAIN acts |-> [acts[i] EXCEPT !.begun = TRUE]]
  BY DoIsQuiet DEF RInv, Do
<1>2. /\ exc = None /\ portals # <<>> /\ thread # "epilogue" /\ portals' # <<>>
      /\ thread' \in Word \cup {"now"} /\ ip' \in 0..CodeLen
      /\ acts' \in Seq(ActType) /\ Len(acts') = Len(acts)
  BY <1>1 DEF Quiet, callVars, SameActs
<1>3. Shown' = [i \in DOMAIN Shown |-> [Shown[i] EXCEPT !.begun = TRUE]]
  <2>1. /\ Shape /\ DOMAIN Shown = 1..Len(acts) /\ DOMAIN acts = 1..Len(acts)
        /\ \A k \in 1..Len(acts) : Shown[k] = Seen(acts[k])
    BY ShownNow DEF RInv, IInv
  <2>2. \A k \in 1..Len(acts) : Shown'[k] = [Shown[k] EXCEPT !.begun = TRUE]
    <3> TAKE k \in 1..Len(acts)
    <3>1. acts[k] \in ActType
      BY <2>1, Lengths
    <3>2. acts'[k] = [acts[k] EXCEPT !.begun = TRUE]
      BY <1>1, <2>1
    <3>3. Shown'[k] = Seen(acts'[k]) /\ Shown[k] = Seen(acts[k])
      BY <1>2, <2>1, ShownNext
    <3>4. /\ acts'[k].ret = acts[k].ret /\ acts'[k].kind = acts[k].kind /\ acts'[k].begun = TRUE
          /\ acts'[k].loops = acts[k].loops /\ acts'[k].rs = acts[k].rs
      BY <3>1, <3>2 DEF ActType
    <3>5. Seen(acts'[k]) = [ret |-> acts[k].ret, kind |-> acts[k].kind,
                            loops |-> acts[k].loops, rs |-> acts[k].rs, begun |-> TRUE]
      BY <3>4 DEF Seen
    <3>6. [Seen(acts[k]) EXCEPT !.begun = TRUE] =
            [ret |-> acts[k].ret, kind |-> acts[k].kind,
             loops |-> acts[k].loops, rs |-> acts[k].rs, begun |-> TRUE]
      <4>1. Seen(acts[k]) \in SeenType
        BY <3>1 DEF Seen, ActType, SeenType
      <4> QED BY <4>1, SeenParts, BegunSeen
    <3> QED BY <3>3, <3>5, <3>6
  <2>3. Shown' = [k \in 1..Len(acts) |-> Shown'[k]]
    <3>1. DOMAIN acts' = 1..Len(acts)
      BY <1>2, LenProperties
    <3> QED BY <3>1 DEF Shown
  <2> QED BY <2>1, <2>2, <2>3
<1> QED BY <1>1, <1>2, <1>3, AtHere, AtNext, LoopsPushed, IsDo

\* A running definition with a loop of its own.
LEMMA NotBalanced ==
  ASSUME RInv, FetchLoop
  PROVE  Len(Loops) # Len(Last(Shown).loops)
<1>1. /\ portals # <<>> /\ Own \in Nat \ {0} /\ Len(Loops) = lc_depth /\ lc_depth \in Nat
  BY FetchLoopPlaces, LoopsTyped DEF RInv, IInv
<1>2. Last(acts) = acts[Len(acts)] /\ acts # <<>> /\ Len(Last(acts).loops) \in Nat
  BY <1>1, RunningHasActivation, EmptySeq DEF RInv
<1>3. Last(Shown).loops = Last(acts).loops
  BY <1>2, ShownLast, SeenParts DEF RInv, IInv
<1> QED BY <1>1, <1>2, <1>3 DEF Own

\* LOOP and +LOOP going round, which a definition does to its own loops only.
LEMMA AgainRefines == ASSUME RInv, NEW n \in Increment, Again(n) PROVE PC!Next
<1>1. Quiet /\ result' = None /\ exc' = exc /\ rs_ptr' = rs_ptr /\ acts' = acts /\ FetchLoop
  BY AgainIsQuiet DEF RInv, Again
<1>2. /\ exc = None /\ portals # <<>> /\ thread # "epilogue" /\ portals' # <<>>
      /\ thread' \in Word \cup {"now"} /\ ip' \in 0..CodeLen
  BY <1>1 DEF Quiet, callVars
<1> QED BY <1>1, <1>2, AtHere, AtNext, ShownSame, LoopsAgain, NotBalanced, IsAgain

\* Leaving a loop, which a definition does with its own loops only.
LEMMA LeaveLoopRefines == ASSUME RInv, LeaveLoop PROVE PC!Next
<1>1. Quiet /\ result' = None /\ exc' = exc /\ rs_ptr' = rs_ptr /\ acts' = acts /\ FetchLoop
  BY LeaveLoopIsQuiet DEF RInv, LeaveLoop
<1>2. /\ exc = None /\ portals # <<>> /\ thread # "epilogue" /\ portals' # <<>>
      /\ thread' \in Word \cup {"now"} /\ ip' \in 0..CodeLen
  BY <1>1 DEF Quiet, callVars
<1> QED BY <1>1, <1>2, AtHere, AtNext, ShownSame, LoopsPopped, NotBalanced, IsUnloop

\* The epilogue of a CATCH: its return is what the program sees of it.
LEMMA CatchEpilogueRefines == ASSUME RInv, CatchEpilogue PROVE UNCHANGED PC!vars
<1>1. /\ exc = None /\ portals # <<>> /\ Here = Epilogue /\ ip' = 1 /\ result' = 0
      /\ UNCHANGED <<thread, exc, cs, portals, loopVars, rs_ptr, acts>>
  BY DEF CatchEpilogue, Running
<1>2. thread = "epilogue"
  BY <1>1, ShapeParts DEF RInv, IInv
<1>3. At' = At
  BY <1>1, <1>2 DEF At
<1>4. Res' = Res
  BY <1>1 DEF Res
<1> QED BY <1>1, <1>3, <1>4, ShownSame, LoopsSame, IsStutter DEF loopVars

\* The balance of loops a return needs.
LEMMA EndIsBalanced ==
  ASSUME RInv, NEW m \in Nat \ {0}, m = Len(acts), lc_depth = Len(acts[m].loops)
  PROVE  /\ acts # <<>> /\ Len(Loops) = Len(Last(Shown).loops)
         /\ Last(Shown).ret = acts[m].ret /\ Last(Shown).kind = acts[m].kind
<1>1. acts # <<>> /\ Shape
  BY EmptySeq DEF RInv, IInv, Shape
<1>2. Last(Shown) = Seen(acts[m]) /\ Len(Loops) = lc_depth
  BY <1>1, ShownLast, LoopsTyped
<1> QED BY <1>1, <1>2, SeenParts

\* EXIT and the end of a definition; the end of the epilogue is none.
LEMMA ReturnRefines == ASSUME RInv, Return PROVE PC!Next \/ UNCHANGED PC!vars
<1>1. /\ exc = None /\ portals # <<>> /\ Last(cs) # Halt /\ exc' = None /\ AtReturn /\ IInv
      /\ thread' = Last(cs).thread /\ ip' = Last(cs).ip
      /\ cs' = Front(cs) /\ acts' = (IF thread = "epilogue" THEN acts ELSE Front(acts))
      /\ result' = (IF thread = "epilogue" THEN result ELSE None)
      /\ UNCHANGED <<portals, loopVars, rs_ptr>>
  BY DEF Return, AtReturn, Running, GoTo, RInv
<1>2. PICK n, m : n = Len(cs) /\ m = Len(acts)
  OBVIOUS
<1>3. /\ cs # <<>> /\ cs \in Seq(Entries) /\ n \in Nat \ {0} /\ Last(cs) = cs[n]
      /\ CutTo(cs, cs', n - 1) /\ cs' \in Seq(Entries) /\ cs[n] \in Entries
  <2>1. cs # <<>> /\ cs \in Seq(Entries)
    BY <1>1 DEF AtReturn, IInv, Shape
  <2> QED BY <2>1, <1>1, <1>2, FrontCuts
<1>4. ASSUME cs[n] \in Place
      PROVE  At' = cs[n] /\ At' \in Place /\ Res' = result'
  <2>1. thread' \in Word \cup {"now"} /\ ip' \in 0..CodeLen
        /\ cs[n] = Entry(cs[n].thread, cs[n].ip)
    BY <1>1, <1>3, <1>4 DEF Place, Entry
  <2>2. Here' = cs[n]
    BY <2>1, <1>1, <1>3 DEF Here
  <2> QED BY <2>1, <2>2, <1>1, <1>4, AtNext
<1>5. CASE thread = "epilogue"
  <2>1. cs[n] \in Place /\ acts' = acts /\ result' = result
    BY <1>1, <1>2, <1>5 DEF IInv, FramesSound
  <2>2. At = cs[n]
    BY <1>1, <1>3, <1>5 DEF At
  <2>3. Here # Epilogue
    <3>1. ip = 1
      BY <1>1, <1>5, ParameterAssumption DEF AtReturn
    <3> QED BY <3>1, <1>1, ShapeParts DEF IInv
  <2>4. Res' = Res
    BY <2>1, <2>3, <1>4 DEF Res
  <2> QED BY <2>1, <2>2, <2>4, <1>1, <1>4, ShownSame, LoopsSame, IsStutter DEF loopVars
<1>6. CASE thread # "epilogue"
  <2>1. /\ m \in Nat \ {0} /\ lc_depth = Len(acts[m].loops)
        /\ acts' = Front(acts) /\ result' = None
        /\ cs[n] # Epilogue =>
             cs[n] \in Place /\ acts[m].ret = cs[n] /\ acts[m].kind # "catch"
        /\ cs[n] = Epilogue =>
             n > 1 /\ cs[n - 1] \in Place /\ acts[m].ret = cs[n - 1] /\ acts[m].kind = "catch"
    BY <1>1, <1>2, <1>3, <1>6, ReturnEnds
  <2>2. /\ acts # <<>> /\ Len(Loops) = Len(Last(Shown).loops)
        /\ Last(Shown).ret = acts[m].ret /\ Last(Shown).kind = acts[m].kind
    BY <2>1, <1>2, EndIsBalanced
  <2>3. Shown' = Front(Shown) /\ Loops' = Loops /\ At \in Place
    BY <2>1, <2>2, <1>1, <1>6, ShownFront, LoopsSame, AtHere DEF RInv, IInv
  <2>4. At' = acts[m].ret /\ Res' = IF acts[m].kind = "catch" THEN 0 ELSE None
    <3>1. CASE cs[n] # Epilogue
      BY <3>1, <2>1, <1>4
    <3>2. CASE cs[n] = Epilogue
      <4>1. thread' = "epilogue" /\ Here' = Epilogue
        BY <3>2, <1>1, <1>3 DEF Here, Epilogue, Entry
      <4>2. Len(cs') = n - 1 /\ cs'[n - 1] = cs[n - 1]
        BY <2>1, <3>2, <1>3 DEF CutTo
      <4>3. Last(cs') = cs[n - 1]
        BY <4>2 DEF Last
      <4>4. At' = cs[n - 1] /\ Res' = 0
        BY <4>1, <4>3, <1>1 DEF At, Res
      <4> QED BY <4>4, <3>2, <2>1
    <3> QED BY <3>1, <3>2
  <2> QED BY <2>2, <2>3, <2>4, <1>1, IsReturn
<1> QED BY <1>5, <1>6

\* The end of execute_word_now.
LEMMA ReturnFromPortalRefines == ASSUME RInv, ReturnFromPortal PROVE PC!Next
<1>1. /\ exc = None /\ portals # <<>> /\ Last(cs) = Halt /\ exc' = None /\ AtReturn /\ IInv
      /\ thread' = Last(portals).caller.thread /\ ip' = Last(portals).caller.ip
      /\ cs' = Front(cs) /\ acts' = (IF thread = "epilogue" THEN acts ELSE Front(acts))
      /\ result' = (IF Last(portals).kind = "catch" THEN 0 ELSE None)
      /\ portals' = Front(portals) /\ UNCHANGED <<loopVars, rs_ptr>>
  BY DEF ReturnFromPortal, AtReturn, Running, GoTo, ClosePortal, RInv
<1>2. PICK n, m, r : n = Len(cs) /\ m = Len(acts) /\ r = Len(portals)
  OBVIOUS
<1>3. Last(cs) = cs[n] /\ cs[n] = Halt /\ thread # "epilogue"
  <2>1. Last(cs) = cs[n]
    BY <1>2 DEF Last
  <2> QED BY <2>1, <1>1, <1>2, Special DEF IInv, FramesSound
<1>4. /\ m \in Nat \ {0} /\ lc_depth = Len(acts[m].loops) /\ acts' = Front(acts)
      /\ acts[m].ret = (IF r = 1 THEN Idle ELSE Last(portals).caller)
      /\ acts[m].kind = (IF Last(portals).kind = "catch" THEN "catch" ELSE "run")
  BY <1>1, <1>2, <1>3, ReturnEnds
<1>5. /\ r \in Nat \ {0} /\ Last(portals) = portals[r] /\ portals[r] \in Portal
      /\ portals' \in Seq(Portal) /\ Len(portals') = r - 1
  <2>1. portals \in Seq(Portal)
    BY <1>1 DEF IInv, Shape
  <2> QED BY <2>1, <1>1, <1>2, FrontCuts DEF CutTo
<1>6. /\ thread' \in Word \cup {"now"} /\ ip' \in 0..CodeLen
      /\ Last(portals).caller = Entry(thread', ip')
  <2>1. Last(portals).caller \in Place
    BY <1>5 DEF Portal
  <2> QED BY <2>1, <1>1 DEF Place, Entry
<1>7. Here' = Last(portals).caller /\ Here' # Epilogue
  BY <1>6, HereNext DEF Here
<1>8. At' = acts[m].ret
  <2>1. CASE r = 1
    <3>1. portals' = <<>>
      BY <2>1, <1>5, EmptySeq
    <3> QED BY <3>1, <2>1, <1>1, <1>4 DEF At
  <2>2. CASE r # 1
    <3>1. portals' # <<>>
      BY <2>2, <1>5, EmptySeq
    <3> QED BY <3>1, <2>2, <1>1, <1>4, <1>6, <1>7, AtNext
  <2> QED BY <2>1, <2>2
<1>9. Res' = IF acts[m].kind = "catch" THEN 0 ELSE None
  BY <1>1, <1>4, <1>7 DEF Res
<1>10. /\ acts # <<>> /\ Len(Loops) = Len(Last(Shown).loops)
       /\ Last(Shown).ret = acts[m].ret /\ Last(Shown).kind = acts[m].kind
  BY <1>2, <1>4, EndIsBalanced
<1>11. Shown' = Front(Shown) /\ Loops' = Loops /\ At \in Place
  BY <1>1, <1>3, <1>4, <1>10, ShownFront, LoopsSame, AtHere DEF RInv, IInv
<1> QED BY <1>1, <1>8, <1>9, <1>10, <1>11, IsReturn

\* THROW, QUIT and ABORT.
LEMMA RaiseRefines ==
  ASSUME RInv, (\E code \in Code : Throw(code)) \/ Abort \/ QuitWord PROVE PC!Next
<1>1. /\ Fetch /\ UNCHANGED <<codeVars, callVars, result, acts>>
      /\ \/ exc' \in Code \cup {Quit} /\ UNCHANGED <<loopVars, rs_ptr>>
         \/ exc' = AbortCode /\ lc_depth' = 0 /\ rs_ptr' = 0
  BY DEF Throw, Abort, QuitWord, Raise
<1>2. exc = None /\ portals # <<>> /\ thread # "epilogue"
  BY <1>1, FetchPlaces DEF RInv
<1>3. At \in Place /\ Here # Epilogue
  BY <1>2, AtHere
<1>4. exc' # None
  BY <1>1, ParameterAssumption
<1>5. At' = Entry("unwinding", 0)
  BY <1>1, <1>2, <1>4 DEF At, callVars
<1>6. Res' = Res /\ Shown' = Shown
  BY <1>1, <1>2, <1>3, <1>4, ShownSame DEF Res
<1>7. CASE exc' \in Code \cup {Quit} /\ UNCHANGED <<loopVars, rs_ptr>>
  BY <1>7, <1>3, <1>5, <1>6, LoopsSame, IsThrow
<1>8. CASE exc' = AbortCode /\ lc_depth' = 0 /\ rs_ptr' = 0
  <2>1. Loops' = <<>>
    BY <1>8 DEF Loops
  <2> QED BY <2>1, <1>8, <1>3, <1>5, <1>6, IsAbort
<1> QED BY <1>1, <1>7, <1>8

\* The loops a THROW leaves are those of its handler: their counters, and their
\* limits but perhaps the innermost.
LEMMA LoopsRestored ==
  ASSUME RInv, Unwinding, Shape', UNCHANGED <<ll, lc_is, lc_ls>>,
         NEW h \in 1..Len(acts), lc_depth' = Len(acts[h].loops),
         lc_depth' > 0 => acts[h].loops[lc_depth'].counter = li'
  PROVE  /\ Len(Loops') = Len(acts[h].loops)
         /\ \A i \in DOMAIN Loops' :
              /\ Loops'[i].counter = acts[h].loops[i].counter
              /\ (i < Len(Loops') \/ ~acts[h].begun) =>
                   Loops'[i].limit = acts[h].loops[i].limit
<1>1. PICK d \in Nat : d = lc_depth'
  BY LoopsNext DEF Shape
<1>2. Len(Loops') = d /\ DOMAIN Loops' = 1..d /\ Len(acts[h].loops) = d
  BY <1>1, LoopsNext
<1>3. ~Ended
  BY DEF Unwinding, Ended
<1>4. OuterLoops(h) /\ (~acts[h].begun => NoneBegun(h))
  BY <1>3 DEF RInv, LoopsKept
<1>5. ASSUME NEW i \in 1..d
      PROVE  /\ Loops'[i].counter = acts[h].loops[i].counter
             /\ (i < d \/ ~acts[h].begun) => Loops'[i].limit = acts[h].loops[i].limit
  <2>1. CASE i = d
    <3>1. Loops'[i] = [limit |-> ll, counter |-> li']
      BY <2>1, <1>1 DEF Loops
    <3>2. d > 0
      BY <2>1
    <3>3. ~acts[h].begun => ll = acts[h].loops[d].limit
      BY <3>2, <1>2, <1>4 DEF NoneBegun
    <3> QED BY <3>1, <3>2, <3>3, <2>1, <1>1
  <2>2. CASE i # d
    <3>1. Loops'[i] = [limit |-> lc_ls[i - 1], counter |-> lc_is[i - 1]]
      BY <2>2, <1>1 DEF Loops
    <3>2. i \in 1..(d - 1)
      BY <2>2
    <3>3. acts[h].loops[i] = [limit |-> lc_ls[i - 1], counter |-> lc_is[i - 1]]
      BY <3>2, <1>2, <1>4 DEF OuterLoops
    <3> QED BY <3>1, <3>3
  <2> QED BY <2>1, <2>2
<1> QED BY <1>2, <1>5

\* A THROW lands at its nearest CATCH, however the handler was found.
LEMMA LandRefines ==
  ASSUME RInv, Thrown, exc' = None, Shape', UNCHANGED <<ll, lc_is, lc_ls>>, DropActivations,
         NEW h \in 1..Len(acts), acts[h].kind = "catch",
         \A k \in 1..Len(acts) : h < k => acts[k].kind # "catch",
         lc_depth' = Len(acts[h].loops),
         lc_depth' > 0 => acts[h].loops[lc_depth'].counter = li',
         rs_ptr' = acts[h].rs, result' = exc, portals' # <<>>,
         acts[h].ret \in Place, thread' = acts[h].ret.thread, ip' = acts[h].ret.ip
  PROVE  PC!Next
<1>1. Unwinding /\ exc # None /\ portals # <<>> /\ exc # Quit /\ Shape
  BY DEF Thrown, Unwinding, RInv, IInv
<1>2. At = Entry("unwinding", 0)
  BY <1>1 DEF At
<1>3. /\ h = Max(Protected) /\ Protected # {}
      /\ acts' \in Seq(ActType) /\ CutTo(acts, acts', h - 1) /\ h - 1 \in 0..Len(acts)
  BY NearestCatch DEF RInv
<1>4. Shown' = SubSeq(Shown, 1, h - 1)
  BY <1>1, <1>3, ShownCut
<1>5. {i \in DOMAIN Shown : Shown[i].kind = "catch"} = Protected
  BY <1>1, ShownProtected
<1>6. Shown[h] = Seen(acts[h])
  BY <1>1, ShownNow
<1>7. /\ Shown[h].ret = acts[h].ret /\ Shown[h].loops = acts[h].loops
      /\ Shown[h].rs = acts[h].rs /\ Shown[h].begun = acts[h].begun
  BY <1>6, SeenParts
<1>8. /\ thread' \in Word \cup {"now"} /\ ip' \in 0..CodeLen
      /\ acts[h].ret = Entry(thread', ip')
  BY DEF Place, Entry
<1>9. At' = acts[h].ret /\ Res' = exc
  BY <1>8, AtNext DEF Here
<1>10. /\ Len(Loops') = Len(acts[h].loops)
       /\ \A i \in DOMAIN Loops' :
            /\ Loops'[i].counter = acts[h].loops[i].counter
            /\ (i < Len(Loops') \/ ~acts[h].begun) =>
                 Loops'[i].limit = acts[h].loops[i].limit
  BY <1>1, LoopsRestored
<1> QED BY <1>1, <1>2, <1>3, <1>4, <1>5, <1>7, <1>9, <1>10, IsLand, SMTT(30)

\* throw_unwind finds a frame of its own portal.
LEMMA LandInFrameRefines == ASSUME RInv, LandInFrame PROVE PC!Next
<1>1. /\ Thrown /\ FrameHere /\ exc' = None /\ result' = exc /\ IInv
      /\ thread' = Last(frames).thread /\ ip' = Last(frames).ip
      /\ rs_ptr' = Last(frames).rs_ptr /\ li' = Last(frames).li
      /\ lc_depth' = Last(frames).lc_depth
      /\ DropActivations /\ UNCHANGED <<portals, ll, lc_is, lc_ls>>
  BY DEF LandInFrame, GoTo, RInv
<1>2. PICK g : g = Len(frames)
  OBVIOUS
<1>3. Last(frames) = frames[g] /\ frames[g] \in Frame
  BY <1>1, <1>2, FrameIsNearest
<1>4. PICK h \in 1..Len(acts) :
        /\ acts[h].kind = "catch" /\ Saved(frames[g], acts[h])
        /\ acts[h].ret = Entry(frames[g].thread, frames[g].ip)
        /\ \A k \in 1..Len(acts) : h < k => acts[k].kind # "catch"
  BY <1>1, <1>2, FrameIsNearest
<1>5. acts[h].ret \in Place /\ thread' = acts[h].ret.thread /\ ip' = acts[h].ret.ip
  BY <1>1, <1>3, <1>4 DEF Frame, Place, Entry
<1>6. /\ lc_depth' = Len(acts[h].loops) /\ rs_ptr' = acts[h].rs
      /\ lc_depth' > 0 => acts[h].loops[lc_depth'].counter = li'
  BY <1>1, <1>3, <1>4 DEF Saved
<1>7. portals' # <<>> /\ Shape'
  BY <1>1, LandInFrameKeeps DEF Thrown, Unwinding, IInv
<1> QED BY <1>1, <1>4, <1>5, <1>6, <1>7, LandRefines

\* It raises again, and CATCH of a primitive stops it.
LEMMA LandInPortalRefines == ASSUME RInv, LandInPortal PROVE PC!Next
<1>1. /\ Thrown /\ ~FrameHere /\ exc' = None /\ result' = exc /\ IInv
      /\ Last(portals).kind = "catch" /\ portals' = Front(portals)
      /\ thread' = Last(portals).caller.thread /\ ip' = Last(portals).caller.ip
      /\ rs_ptr' = Last(portals).rs_ptr /\ li' = Last(portals).li
      /\ lc_depth' = Last(portals).lc_depth
      /\ DropActivations /\ UNCHANGED <<ll, lc_is, lc_ls>>
  BY DEF LandInPortal, GoTo, ClosePortal, RInv
<1>2. PICK r : r = Len(portals)
  OBVIOUS
<1>3. Last(portals) = portals[r]
  BY <1>2 DEF Last
<1>4. portals[r] \in Portal /\ r \in Nat \ {0, 1}
  BY <1>1, <1>2, <1>3, PortalIsNearest
<1>5. PICK h \in 1..Len(acts) :
        /\ acts[h].kind = "catch" /\ Saved(portals[r], acts[h])
        /\ acts[h].ret = portals[r].caller
        /\ \A k \in 1..Len(acts) : h < k => acts[k].kind # "catch"
  BY <1>1, <1>2, <1>3, PortalIsNearest
<1>6. acts[h].ret \in Place /\ thread' = acts[h].ret.thread /\ ip' = acts[h].ret.ip
  BY <1>1, <1>3, <1>4, <1>5 DEF Portal
<1>7. /\ lc_depth' = Len(acts[h].loops) /\ rs_ptr' = acts[h].rs
      /\ lc_depth' > 0 => acts[h].loops[lc_depth'].counter = li'
  BY <1>1, <1>3, <1>5 DEF Saved
<1>8. portals' # <<>>
  <2>1. portals \in Seq(Portal) /\ portals # <<>>
    BY <1>1 DEF IInv, Shape, Thrown, Unwinding
  <2>2. Len(portals') = r - 1
    BY <2>1, <1>1, <1>2, FrontCuts DEF CutTo
  <2> QED BY <2>2, <1>4, EmptySeq
<1>9. Shape'
  BY <1>1, LandInPortalKeeps DEF IInv, RInv
<1> QED BY <1>1, <1>5, <1>6, <1>7, <1>8, <1>9, LandRefines

\* A THROW that goes on to the next portal is one the program does not see.
LEMMA ReraiseRefines == ASSUME RInv, Reraise PROVE PC!Next \/ UNCHANGED PC!vars
<1>1. /\ Thrown /\ ~FrameHere /\ exc # None /\ exc # Quit /\ exc' = exc /\ portals # <<>>
      /\ portals' = Front(portals) /\ UNCHANGED <<loopVars, rs_ptr, result>> /\ IInv
      /\ IF Len(portals) = 1 THEN DropActivations ELSE UNCHANGED acts
  BY DEF Reraise, Thrown, Unwinding, ClosePortal, RInv
<1>2. At = Entry("unwinding", 0) /\ Res' = Res /\ Loops' = Loops /\ rs_ptr' = rs_ptr
  BY <1>1, LoopsSame DEF At, Res
<1>3. Len(portals) \in Nat \ {0} /\ portals' \in Seq(Portal) /\ Len(portals') = Len(portals) - 1
  BY <1>1, FrontCuts DEF IInv, Shape, CutTo
<1>4. CASE Len(portals) = 1
  <2>1. portals' = <<>> /\ At' = Entry("ended", 0)
    BY <1>4, <1>1, <1>3, EmptySeq DEF At
  <2>2. Protected = {}
    BY <1>4, <1>1, UncaughtIsUnprotected
  <2>3. Shown' = <<>>
    BY <2>2, <1>4, <1>1, ShownEmpty DEF DropActivations
  <2> QED BY <2>1, <2>2, <2>3, <1>1, <1>2, ShownProtected, IsUncaught DEF IInv
<1>5. CASE Len(portals) # 1
  <2>1. portals' # <<>> /\ At' = At
    BY <1>5, <1>1, <1>2, <1>3, EmptySeq DEF At
  <2> QED BY <2>1, <1>5, <1>1, <1>2, ShownSame, IsStutter
<1> QED BY <1>4, <1>5

\* QUIT passes every portal but the line's, which gives everything up.
LEMMA AbortRefines ==
  ASSUME RInv, PassAbort \/ ResetAfterAbort PROVE PC!Next \/ UNCHANGED PC!vars
<1>1. /\ exc = Quit /\ exc # None /\ portals # <<>> /\ portals' = Front(portals) /\ IInv
  BY DEF PassAbort, ResetAfterAbort, Unwinding, ClosePortal, RInv
<1>2. PICK r : r = Len(portals)
  OBVIOUS
<1>3. /\ r \in Nat \ {0} /\ portals' \in Seq(Portal) /\ Len(portals') = r - 1
      /\ Last(portals) = portals[r]
  <2>1. portals \in Seq(Portal)
    BY <1>1 DEF IInv, Shape
  <2> QED BY <2>1, <1>1, <1>2, FrontCuts DEF CutTo
<1>4. 1 \in 1..r /\ r \in 1..r
  BY <1>3
<1>5. (portals[r].kind = "line" <=> r = 1) /\ portals[r].kind # "evaluate"
  BY <1>1, <1>2, <1>4 DEF IInv, PortalsSound, PortalAt, AbortAtTop
<1>6. At = Entry("unwinding", 0)
  BY <1>1 DEF At
<1>7. CASE PassAbort
  <2>1. /\ UNCHANGED <<exc, loopVars, rs_ptr, result, acts>>
        /\ Last(portals).kind \in {"execute", "catch"}
    BY <1>7 DEF PassAbort
  <2>2. portals' # <<>>
    BY <2>1, <1>3, <1>5, EmptySeq
  <2>3. At' = At /\ Res' = Res
    BY <2>1, <2>2, <1>1, <1>6 DEF At, Res
  <2> QED BY <2>1, <2>3, ShownSame, LoopsSame, IsStutter
<1>8. CASE ResetAfterAbort
  <2>1. /\ exc' = None /\ acts' = <<>> /\ lc_depth' = 0 /\ rs_ptr' = 0 /\ result' = result
        /\ Last(portals).kind \in {"line", "evaluate"}
        /\ thread' = Last(portals).caller.thread /\ ip' = Last(portals).caller.ip
    BY <1>8 DEF ResetAfterAbort, GoTo
  <2>2. portals' = <<>>
    BY <2>1, <1>3, <1>5, EmptySeq
  <2>3. thread' \in Word \cup {"now"} /\ ip' \in 0..CodeLen
    <3>1. portals[r] \in Portal
      BY <1>1, <1>2, <1>3, FrontCuts DEF IInv, Shape
    <3>2. Last(portals).caller \in Place
      BY <3>1, <1>3 DEF Portal
    <3> QED BY <3>2, <2>1 DEF Place
  <2>4. At' = Idle /\ Res' = Res
    BY <2>1, <2>2, <2>3, <1>1, HereNext DEF At, Res
  <2>5. Shown' = <<>> /\ Loops' = <<>>
    BY <2>1, ShownEmpty DEF Loops
  <2> QED BY <2>1, <2>4, <2>5, <1>1, <1>6, IsGiveUp
<1> QED BY <1>7, <1>8

\* Every step of the dispatch loop is one of ProtectedCalls, or none.
LEMMA NextRefines == ASSUME RInv, [Next]_vars PROVE [PC!Next]_PC!vars
<1>1. ASSUME NEW w \in Word, Call(w) PROVE PC!Next
  <2>1. /\ Fetch /\ Enter(After, "call") /\ exc' = exc /\ portals' = portals /\ thread' = w
        /\ ip' = 0 /\ result' = None /\ UNCHANGED <<loopVars, rs_ptr>>
    BY <1>1 DEF Call
  <2> QED BY <2>1, FetchPlaces, EnterRefines DEF RInv
<1>2. ASSUME NEW w \in Word, Catch(w) PROVE PC!Next
  <2>1. /\ Fetch /\ Enter(After, "catch") /\ exc' = exc /\ portals' = portals /\ thread' = w
        /\ ip' = 0 /\ result' = None /\ UNCHANGED <<loopVars, rs_ptr>>
    BY <1>2 DEF Catch
  <2> QED BY <2>1, FetchPlaces, EnterRefines DEF RInv
<1>3. ASSUME NEW kind \in {"execute", "evaluate", "catch"}, Nest(kind) PROVE PC!Next
  <2> DEFINE k == IF kind = "catch" THEN "catch" ELSE "run"
  <2>1. /\ Fetch /\ Enter(After, k) /\ exc' = exc /\ thread' = "now"
        /\ ip' = 0 /\ result' = None /\ UNCHANGED <<loopVars, rs_ptr>> /\ k \in {"call", "run", "catch"}
    BY <1>3 DEF Nest, OpenPortal
  <2>2. portals' # <<>>
    <3>1. cs' = Append(cs, Halt) /\ cs \in Seq(Entries) /\ exc' = None
      BY <1>3, FetchPlaces DEF Nest, OpenPortal, RInv, IInv, Shape
    <3>2. cs' # <<>>
      BY <3>1
    <3> QED BY <1>3, <3>1, <3>2, NestKeeps DEF RInv, IInv, IdleEmpty
  <2> HIDE DEF k
  <2> QED BY <2>1, <2>2, EnterRefines
<1>4. CASE UNCHANGED vars \/ Done
  <2>1. UNCHANGED vars
    BY <1>4 DEF Done
  <2>2. At' = At /\ Res' = Res
    BY <2>1 DEF vars, At, Res, Here
  <2> QED BY <2>1, <2>2, ShownSame, LoopsSame, IsStutter DEF vars, loopVars
<1> QED BY <1>1, <1>2, <1>3, <1>4, StepRefines, StartLineRefines, DoRefines, AgainRefines,
           LeaveLoopRefines, CatchEpilogueRefines, ReturnRefines, ReturnFromPortalRefines,
           RaiseRefines, LandInFrameRefines, LandInPortalRefines, ReraiseRefines, AbortRefines
           DEF Next, Unwind

\* It begins as ProtectedCalls does.
LEMMA InitRefines == ASSUME Init PROVE PC!Init
<1>1. acts = <<>> /\ portals = <<>> /\ exc = None /\ rs_ptr = 0 /\ result = None /\ lc_depth = 0
      /\ thread = "now"
  BY DEF Init
<1>2. Shown = <<>> /\ Loops = <<>>
  BY <1>1 DEF Shown, Loops
<1>3. Here # Epilogue
  BY <1>1, Special DEF Here, Epilogue
<1>4. At = PC!Idle /\ Res = None
  BY <1>1, <1>3 DEF At, Res, Idle, Entry, PC!Idle, PC!Nowhere
<1> QED BY <1>1, <1>2, <1>4 DEF PC!Init, At, Shown, Res

\* The dispatch loop, with its packed control stack, its flat catch frames and
\* its Python recursion, does what calls, CATCH and THROW mean: the refinement
\* the runs inner and inner_loops check, here for programs, stacks and loops of
\* any size.
THEOREM DispatchIsProtectedCalls == ASSUME ~NestedAborts PROVE Spec => IsProtectedCalls
<1>1. Init => PC!Init
  BY InitRefines
<1>2. RInv /\ [Next]_vars => [PC!Next]_PC!vars
  BY NextRefines
<1>3. Spec => []RInv
  BY RInvInvariant
<1> QED BY <1>1, <1>2, <1>3, PTL DEF Spec, IsProtectedCalls, PC!Spec
=============================================================================
