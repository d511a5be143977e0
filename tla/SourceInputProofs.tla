-------------------------- MODULE SourceInputProofs --------------------------
(***************************************************************************)
(* The cursor stays in its line and the position in its file, every        *)
(* INCLUDED reads the lines of its own file, and the program is read as    *)
(* InputSource says, if no CATCH stands around a text that throws.         *)
(***************************************************************************)
EXTENDS SourceInput, SequenceTheorems, WellFoundedInduction, NaturalsInduction, TLAPS

Known == File \cup {Main, NoFile}
Texts == {None} \cup String \cup {Line(f, k) : f \in Known, k \in Nat}

LineFrames == [kind : {"line"}, toks : Texts, i : 0..LineLen, busy : BOOLEAN]
SavedFrames == [kind : {"evaluate", "include"}, buf : Texts, cur : 0..LineLen,
                lines : Known, pos : Nat, n : Nat]
CatchFrames == [kind : {"catch"}]
MainFrames == [kind : {"main"}, pos : Nat]
PyFrames == LineFrames \cup SavedFrames \cup CatchFrames \cup MainFrames

\* What is saved of a position lies in its file.
InFile(f) == f.kind \in {"evaluate", "include"} => f.pos <= FileLen[f.lines]

\* The Python stack: the main file's loop and above it anything else, with room
\* for the line that the loop of an INCLUDED will begin.
Shape(v) ==
  /\ v \in Seq(PyFrames) /\ v # <<>>
  /\ Len(v) <= Depth
  /\ \A k \in 1..Len(v) : /\ v[k].kind = "main" <=> k = 1
                          /\ v[k].kind = "include" => k < Depth
                          /\ InFile(v[k])

\* No INCLUDED between k and m.
Between(v, k, m) == \A j \in DOMAIN v : k < j /\ j < m => v[j].kind # "include"

\* The loop of an INCLUDED counts the lines of the file that include_lines names
\* when it goes on: what the next INCLUDED above has saved, or what is there now.
Nested(v, lines) ==
  \A k \in DOMAIN v : v[k].kind = "include" =>
    /\ Between(v, k, Len(v) + 1) => v[k].n = FileLen[lines]
    /\ \A m \in DOMAIN v : m > k /\ v[m].kind = "include" /\ Between(v, k, m)
                             => v[k].n = FileLen[v[m].lines]

-----------------------------------------------------------------------------
LEMMA Sizes ==
  /\ LineLen \in Nat /\ Depth \in Nat /\ Depth >= 2
  /\ None \notin {"throw", "quit"}
  /\ \A f \in Known : FileLen[f] \in Nat
BY ParameterAssumption DEF Known

\* The kinds of frames.
LEMMA FrameIs ==
  ASSUME NEW f \in PyFrames
  PROVE  /\ f.kind \in {"line", "evaluate", "include", "catch", "main"}
         /\ f.kind = "line" => f \in LineFrames
         /\ f.kind \in {"evaluate", "include"} => f \in SavedFrames
         /\ f.kind = "main" => f \in MainFrames
BY DEF PyFrames, LineFrames, SavedFrames, CatchFrames, MainFrames

\* A stack and its topmost frame.
LEMMA Topmost ==
  ASSUME NEW S, NEW v \in Seq(S), v # <<>>
  PROVE  /\ Len(v) \in Nat /\ Len(v) > 0
         /\ Front(v) \in Seq(S) /\ Len(Front(v)) = Len(v) - 1
         /\ \A k \in 1..(Len(v) - 1) : Front(v)[k] = v[k]
         /\ Last(v) \in S /\ Last(v) = v[Len(v)]
<1>1. PICK m \in Nat : m = Len(v)
  BY LenProperties
<1>2. m > 0 /\ v[m] \in S
  BY <1>1, EmptySeq
<1>3. SubSeq(v, 1, m - 1) \in Seq(S) /\ Len(SubSeq(v, 1, m - 1)) = m - 1
      /\ \A k \in 1..(m - 1) : SubSeq(v, 1, m - 1)[k] = v[k]
  BY <1>1, <1>2
<1> QED BY <1>1, <1>2, <1>3 DEF Front, Last

\* A frame on top.
LEMMA OnTop ==
  ASSUME NEW S, NEW v \in Seq(S), NEW f \in S
  PROVE  /\ Append(v, f) \in Seq(S) /\ Append(v, f) # <<>>
         /\ Len(v) \in Nat /\ Len(Append(v, f)) = Len(v) + 1
         /\ Append(v, f)[Len(v) + 1] = f
         /\ \A k \in 1..Len(v) : Append(v, f)[k] = v[k]
BY AppendProperties, LenProperties

LEMMA ShapePush ==
  ASSUME NEW v, Shape(v), NEW f \in PyFrames, f.kind # "main", Len(v) < Depth,
         f.kind = "include" => Len(v) + 1 < Depth, InFile(f)
  PROVE  Shape(Append(v, f))
<1>1. v \in Seq(PyFrames)
  BY DEF Shape
<1>2. PICK w, c : w = Append(v, f) /\ c = Len(v) /\ c \in Nat
  BY <1>1, LenProperties
<1>3. /\ c \in Nat /\ w \in Seq(PyFrames) /\ w # <<>> /\ Len(w) = c + 1 /\ w[c + 1] = f
      /\ \A k \in 1..c : w[k] = v[k]
  BY <1>1, <1>2, OnTop
<1>4. c < Depth /\ Depth \in Nat /\ c > 0
  BY <1>1, <1>2, Sizes, EmptySeq DEF Shape
<1>5. ASSUME NEW k \in 1..(c + 1)
      PROVE  /\ w[k].kind = "main" <=> k = 1
             /\ w[k].kind = "include" => k < Depth
             /\ InFile(w[k])
  <2>1. CASE k \in 1..c
    BY <1>2, <1>3, <2>1 DEF Shape
  <2>2. CASE k = c + 1
    BY <1>2, <1>3, <1>4, <2>2
  <2> QED BY <1>3, <2>1, <2>2
<1>6. Shape(w)
  <2>1. Len(w) <= Depth
    BY <1>3, <1>4
  <2> QED BY <1>3, <1>5, <2>1 DEF Shape
<1> QED BY <1>2, <1>6

LEMMA ShapePop ==
  ASSUME NEW v, Shape(v), Last(v).kind # "main"
  PROVE  Shape(Front(v)) /\ Len(Front(v)) = Len(v) - 1 /\ Len(v) \in Nat /\ Len(v) > 1
<1>1. PICK w, c : w = Front(v) /\ c = Len(v) /\ c \in Nat
  BY LenProperties DEF Shape
<1>2. /\ c \in Nat /\ w \in Seq(PyFrames) /\ Len(w) = c - 1 /\ c > 0
      /\ \A k \in 1..(c - 1) : w[k] = v[k]
      /\ Last(v) = v[c]
  BY <1>1, Topmost DEF Shape
<1>3. c > 1
  BY <1>1, <1>2 DEF Shape
<1>4. w # <<>>
  BY <1>2, <1>3
<1>5. c <= Depth /\ Depth \in Nat
  BY <1>1, Sizes DEF Shape
<1>6. ASSUME NEW k \in 1..(c - 1)
      PROVE  /\ w[k].kind = "main" <=> k = 1
             /\ w[k].kind = "include" => k < Depth
             /\ InFile(w[k])
  BY <1>1, <1>2 DEF Shape
<1>7. Shape(w)
  <2>1. Len(w) <= Depth
    BY <1>2, <1>5
  <2> QED BY <1>2, <1>4, <1>6, <2>1 DEF Shape
<1> QED BY <1>1, <1>2, <1>3, <1>7

\* Another frame in the place of the topmost one.
LEMMA TopSet ==
  ASSUME NEW v, Shape(v), Last(v).kind # "main", NEW f \in PyFrames
  PROVE  [v EXCEPT ![Len(v)] = f] = Append(Front(v), f)
<1>1. PICK w, c : w = Front(v) /\ c = Len(v) /\ c \in Nat
  BY LenProperties DEF Shape
<1>2. /\ c \in Nat /\ w \in Seq(PyFrames) /\ Len(w) = c - 1 /\ c > 0 /\ v \in Seq(PyFrames)
      /\ \A k \in 1..(c - 1) : w[k] = v[k]
  BY <1>1, Topmost DEF Shape
<1>3. PICK u : u = Append(w, f)
  OBVIOUS
<1>4. /\ u \in Seq(PyFrames) /\ Len(u) = c /\ u[c] = f
      /\ \A k \in 1..(c - 1) : u[k] = v[k]
  <2>1. /\ u \in Seq(PyFrames) /\ Len(u) = Len(w) + 1 /\ u[Len(w) + 1] = f
        /\ \A k \in 1..Len(w) : u[k] = w[k]
    BY <1>2, <1>3, OnTop
  <2> QED BY <1>2, <2>1
<1>5. u = [k \in 1..c |-> IF k = c THEN f ELSE v[k]]
  <2>1. u = [k \in 1..c |-> u[k]]
    BY <1>4
  <2>2. \A k \in 1..c : u[k] = IF k = c THEN f ELSE v[k]
    BY <1>4
  <2> QED BY <2>1, <2>2
<1>6. [v EXCEPT ![c] = f] = [k \in 1..c |-> IF k = c THEN f ELSE v[k]]
  <2>1. v = [k \in 1..c |-> v[k]]
    BY <1>1, <1>2
  <2> QED BY <1>2, <2>1
<1> QED BY <1>1, <1>3, <1>5, <1>6

\* A frame that is no INCLUDED is nothing to those below it.
LEMMA NestedPush ==
  ASSUME NEW v, Shape(v), NEW f \in PyFrames, f.kind # "include", NEW lines,
         Nested(v, lines)
  PROVE  Nested(Append(v, f), lines)
<1>1. v \in Seq(PyFrames)
  BY DEF Shape
<1>2. PICK w, c : w = Append(v, f) /\ c = Len(v) /\ c \in Nat
  BY <1>1, LenProperties
<1>3. /\ c \in Nat /\ w \in Seq(PyFrames) /\ Len(w) = c + 1 /\ w[c + 1] = f
      /\ \A k \in 1..c : w[k] = v[k]
      /\ DOMAIN v = 1..c /\ DOMAIN w = 1..(c + 1)
  BY <1>1, <1>2, OnTop
<1>4. ASSUME NEW k \in DOMAIN w, w[k].kind = "include"
      PROVE  /\ Between(w, k, Len(w) + 1) => w[k].n = FileLen[lines]
             /\ \A m \in DOMAIN w : m > k /\ w[m].kind = "include" /\ Between(w, k, m)
                             => w[k].n = FileLen[w[m].lines]
  <2>1. k \in DOMAIN v /\ w[k] = v[k]
    BY <1>3, <1>4
  <2>2. Between(w, k, Len(w) + 1) => Between(v, k, Len(v) + 1)
    BY <1>2, <1>3 DEF Between
  <2>3. ASSUME NEW m \in DOMAIN w, m > k, w[m].kind = "include", Between(w, k, m)
        PROVE  w[k].n = FileLen[w[m].lines]
    <3>1. m \in DOMAIN v /\ w[m] = v[m]
      BY <1>3, <2>3
    <3>2. Between(v, k, m)
      BY <1>3, <2>3 DEF Between
    <3> QED BY <1>4, <2>1, <2>3, <3>1, <3>2 DEF Nested
  <2>4. v[k].kind = "include"
    BY <1>4, <2>1
  <2> QED BY <2>1, <2>2, <2>3, <2>4 DEF Nested
<1>5. Nested(w, lines)
  BY <1>4 DEF Nested
<1> QED BY <1>2, <1>5

LEMMA NestedPop ==
  ASSUME NEW v, Shape(v), Last(v).kind # "main", NEW lines, Nested(v, lines),
         NEW file, file = IF Last(v).kind = "include" THEN Last(v).lines ELSE lines
  PROVE  Nested(Front(v), file)
<1>1. PICK w, c : w = Front(v) /\ c = Len(v) /\ c \in Nat
  BY LenProperties DEF Shape
<1>2. /\ c \in Nat /\ w \in Seq(PyFrames) /\ Len(w) = c - 1 /\ c > 0 /\ v \in Seq(PyFrames)
      /\ \A k \in 1..(c - 1) : w[k] = v[k]
      /\ Last(v) = v[c] /\ DOMAIN v = 1..c /\ DOMAIN w = 1..(c - 1)
  BY <1>1, Topmost DEF Shape
<1>3. ASSUME NEW k \in DOMAIN w, w[k].kind = "include"
      PROVE  /\ Between(w, k, Len(w) + 1) => w[k].n = FileLen[file]
             /\ \A m \in DOMAIN w : m > k /\ w[m].kind = "include" /\ Between(w, k, m)
                             => w[k].n = FileLen[w[m].lines]
  <2>1. k \in DOMAIN v /\ w[k] = v[k] /\ v[k].kind = "include"
    BY <1>2, <1>3
  <2>2. ASSUME Between(w, k, Len(w) + 1) PROVE w[k].n = FileLen[file]
    <3>1. Between(v, k, c)
      BY <1>2, <2>2 DEF Between
    <3>2. CASE Last(v).kind = "include"
      <4>1. c \in DOMAIN v /\ c > k /\ v[c].kind = "include" /\ v[c].lines = file
        BY <1>2, <3>2
      <4> QED BY <2>1, <3>1, <4>1 DEF Nested
    <3>3. CASE Last(v).kind # "include"
      <4>1. Between(v, k, Len(v) + 1)
        BY <1>1, <1>2, <3>1, <3>3 DEF Between
      <4> QED BY <2>1, <3>3, <4>1 DEF Nested
    <3> QED BY <3>2, <3>3
  <2>3. ASSUME NEW m \in DOMAIN w, m > k, w[m].kind = "include", Between(w, k, m)
        PROVE  w[k].n = FileLen[w[m].lines]
    <3>1. m \in DOMAIN v /\ w[m] = v[m]
      BY <1>2, <2>3
    <3>2. Between(v, k, m)
      BY <1>2, <2>3 DEF Between
    <3> QED BY <2>1, <2>3, <3>1, <3>2 DEF Nested
  <2> QED BY <2>2, <2>3
<1>4. Nested(w, file)
  BY <1>3 DEF Nested
<1> QED BY <1>1, <1>4

\* An INCLUDED saves the file of the one below it and reads its own.
LEMMA NestedOpen ==
  ASSUME NEW v, Shape(v), NEW f \in PyFrames, f.kind = "include", NEW file,
         Nested(v, f.lines), f.n = FileLen[file]
  PROVE  Nested(Append(v, f), file)
<1>1. v \in Seq(PyFrames)
  BY DEF Shape
<1>2. PICK w, c : w = Append(v, f) /\ c = Len(v) /\ c \in Nat
  BY <1>1, LenProperties
<1>3. /\ c \in Nat /\ w \in Seq(PyFrames) /\ Len(w) = c + 1 /\ w[c + 1] = f
      /\ \A k \in 1..c : w[k] = v[k]
      /\ DOMAIN v = 1..c /\ DOMAIN w = 1..(c + 1)
  BY <1>1, <1>2, OnTop
<1>4. ASSUME NEW k \in DOMAIN w, w[k].kind = "include"
      PROVE  /\ Between(w, k, Len(w) + 1) => w[k].n = FileLen[file]
             /\ \A m \in DOMAIN w : m > k /\ w[m].kind = "include" /\ Between(w, k, m)
                             => w[k].n = FileLen[w[m].lines]
  <2>1. CASE k = c + 1
    BY <1>3, <2>1
  <2>2. CASE k \in 1..c
    <3>1. k \in DOMAIN v /\ w[k] = v[k] /\ v[k].kind = "include"
      BY <1>3, <1>4, <2>2
    <3>2. ~Between(w, k, Len(w) + 1)
      BY <1>3, <2>2 DEF Between
    <3>3. ASSUME NEW m \in DOMAIN w, m > k, w[m].kind = "include", Between(w, k, m)
          PROVE  w[k].n = FileLen[w[m].lines]
      <4>1. CASE m \in 1..c
        <5>1. m \in DOMAIN v /\ w[m] = v[m]
          BY <1>3, <4>1
        <5>2. Between(v, k, m)
          BY <1>3, <3>3, <4>1 DEF Between
        <5> QED BY <3>1, <3>3, <5>1, <5>2 DEF Nested
      <4>2. CASE m = c + 1
        <5>1. Between(v, k, Len(v) + 1)
          BY <1>2, <1>3, <3>3, <4>2 DEF Between
        <5>2. v[k].n = FileLen[f.lines]
          BY <3>1, <5>1 DEF Nested
        <5> QED BY <1>3, <3>1, <4>2, <5>2
      <4> QED BY <1>3, <4>1, <4>2
    <3> QED BY <3>2, <3>3
  <2> QED BY <1>3, <2>1, <2>2
<1>5. Nested(w, file)
  BY <1>4 DEF Nested
<1> QED BY <1>2, <1>5
-----------------------------------------------------------------------------
\* A line takes another cursor, or another text.
LEMMA LineSet ==
  ASSUME NEW v, Shape(v), Last(v).kind = "line", NEW f \in LineFrames,
         NEW lines, Nested(v, lines),
         NEW w, w = [v EXCEPT ![Len(v)] = f]
  PROVE  Shape(w) /\ Nested(w, lines) /\ Len(w) = Len(v)
<1>1. f \in PyFrames /\ f.kind = "line"
  BY DEF PyFrames, LineFrames
<1>2. PICK u : u = Front(v)
  OBVIOUS
<1>3. w = Append(u, f)
  BY <1>1, <1>2, TopSet
<1>4. Shape(u) /\ Len(u) = Len(v) - 1 /\ Len(v) \in Nat /\ Len(v) > 1
  BY <1>2, ShapePop
<1>5. PICK g : g = IF Last(v).kind = "include" THEN Last(v).lines ELSE lines
  OBVIOUS
<1>6. Nested(u, lines)
  BY <1>2, <1>5, NestedPop
<1>7. Len(u) < Depth /\ InFile(f) /\ f.kind # "include" /\ f.kind # "main"
  BY <1>1, <1>4, Sizes DEF Shape, InFile
<1>8. Shape(w)
  BY <1>1, <1>3, <1>4, <1>7, ShapePush
<1>9. Nested(w, lines)
  BY <1>1, <1>3, <1>4, <1>6, <1>7, NestedPush
<1>10. Len(w) = Len(v)
  BY <1>1, <1>3, <1>4, OnTop DEF Shape
<1> QED BY <1>8, <1>9, <1>10

-----------------------------------------------------------------------------
\* The invariant.  A THROW that passes a frame finds no CATCH further out; only
\* the stack it leaves behind is not Nested, and nothing reads from that again.
Fields ==
  /\ toks \in Texts /\ to_in \in 0..LineLen
  /\ include_lines \in Known
  /\ include_pos \in Nat /\ include_pos <= FileLen[include_lines]
  /\ exc \in {None, "throw", "quit"}

Uncaught == exc = "throw" => Catches = {} \/ Top.kind = "catch"
Left == exc = "throw" /\ Catches = {}

Kept ==
  /\ Fields
  /\ Shape(py)
  /\ Uncaught
  /\ Left \/ Nested(py, include_lines)

\* What the invariant says of the topmost frame.
LEMMA AtTop ==
  ASSUME Kept
  PROVE  /\ Len(py) \in 1..Depth /\ Len(py) \in Nat
         /\ py \in Seq(PyFrames) /\ py # <<>>
         /\ Top \in PyFrames /\ Top = py[Len(py)]
         /\ Top.kind = "line" => Top \in LineFrames
         /\ Top.kind \in {"evaluate", "include"} => Top \in SavedFrames
         /\ Top.kind = "main" => Top \in MainFrames /\ Len(py) = 1
         /\ Top.kind = "include" => Len(py) < Depth
         /\ InFile(Top)
<1>1. py \in Seq(PyFrames) /\ py # <<>> /\ Len(py) <= Depth
  BY DEF Kept, Shape
<1>2. PICK c : c = Len(py) /\ c \in Nat
  BY <1>1, LenProperties
<1>3. c > 0 /\ Top \in PyFrames /\ Top = py[c]
  BY <1>1, <1>2, Topmost DEF Top
<1>4. /\ py[c].kind = "main" <=> c = 1
      /\ py[c].kind = "include" => c < Depth
      /\ InFile(py[c])
  BY <1>2, <1>3 DEF Kept, Shape
<1>5. /\ Top.kind = "line" => Top \in LineFrames
      /\ Top.kind \in {"evaluate", "include"} => Top \in SavedFrames
      /\ Top.kind = "main" => Top \in MainFrames
  BY <1>3, FrameIs
<1>6. c \in 1..Depth
  BY <1>1, <1>2, <1>3, Sizes
<1> QED BY <1>1, <1>2, <1>3, <1>4, <1>5, <1>6

\* Frames of the steps.
LEMMA NewFrames ==
  ASSUME Fields, NEW text \in Texts
  PROVE  /\ Reading(text) \in LineFrames
         /\ SavedHere("evaluate") \in SavedFrames
         /\ SavedHere("include") \in SavedFrames
         /\ [kind |-> "catch"] \in CatchFrames
         /\ \A f \in Known, k \in Nat : Line(f, k) \in Texts
<1>1. Reading(text) \in LineFrames
  BY Sizes DEF Reading, LineFrames
<1>2. SavedHere("evaluate") \in SavedFrames /\ SavedHere("include") \in SavedFrames
  BY DEF Fields, SavedHere, SavedFrames
<1>3. [kind |-> "catch"] \in CatchFrames
  BY DEF CatchFrames
<1>4. \A f \in Known, k \in Nat : Line(f, k) \in Texts
  BY DEF Texts
<1> QED BY <1>1, <1>2, <1>3, <1>4

LEMMA Start == Init => Kept
<1> SUFFICES ASSUME Init PROVE Kept
  OBVIOUS
<1>1. Fields
  BY Sizes, ParameterAssumption DEF Init, Fields, Texts, Known
<1>2. PICK f : f = [kind |-> "main", pos |-> 0]
  OBVIOUS
<1>3. f \in PyFrames /\ f.kind = "main" /\ py = <<f>>
  BY <1>2 DEF Init, PyFrames, MainFrames
<1>4. py \in Seq(PyFrames) /\ Len(py) = 1 /\ py[1] = f /\ py # <<>> /\ DOMAIN py = 1..1
  BY <1>3
<1>5. Shape(py)
  BY <1>3, <1>4, Sizes DEF Shape, InFile
<1>6. Nested(py, include_lines)
  BY <1>3, <1>4 DEF Nested
<1>7. exc # "throw"
  BY Sizes DEF Init
<1> QED BY <1>1, <1>5, <1>6, <1>7 DEF Kept, Uncaught

\* The steps of a line leave the file and the exception alone.
LEMMA OnLine ==
  ASSUME Kept, Calm, Top.kind = "line", NEW f \in LineFrames, SetTop(f),
         toks' = toks, to_in' \in 0..LineLen,
         UNCHANGED <<include_lines, include_pos, exc>>
  PROVE  Kept'
<1>1. ~(exc = "throw") /\ ~(exc' = "throw")
  BY Sizes DEF Calm
<1>2. Nested(py, include_lines) /\ Shape(py)
  BY <1>1 DEF Kept, Left
<1>3. Shape(py') /\ Nested(py', include_lines)
  BY <1>2, LineSet DEF SetTop, Top
<1>4. Fields'
  BY DEF Kept, Fields
<1>5. Nested(py, include_lines)'
  BY <1>3
<1> QED BY <1>1, <1>3, <1>4, <1>5 DEF Kept, Uncaught

\* A frame that is no INCLUDED goes on top.
LEMMA OnPush ==
  ASSUME Kept, Calm, NEW f \in PyFrames, py' = Append(py, f),
         f.kind \notin {"main", "include"}, InFile(f), Len(py) < Depth,
         toks' \in Texts, to_in' \in 0..LineLen,
         include_pos' \in Nat, include_pos' <= FileLen[include_lines],
         UNCHANGED <<include_lines, exc>>
  PROVE  Kept'
<1>1. ~(exc = "throw") /\ ~(exc' = "throw")
  BY Sizes DEF Calm
<1>2. Nested(py, include_lines) /\ Shape(py)
  BY <1>1 DEF Kept, Left
<1>3. Shape(py') /\ Nested(py', include_lines)
  BY <1>2, ShapePush, NestedPush
<1>4. Fields'
  BY DEF Kept, Fields
<1>5. Nested(py, include_lines)'
  BY <1>3
<1> QED BY <1>1, <1>3, <1>4, <1>5 DEF Kept, Uncaught

\* The topmost frame goes, and with it what it has saved of the file.
LEMMA OnPop ==
  ASSUME Kept, Nested(py, include_lines), Top.kind # "main", py' = Front(py),
         toks' \in Texts, to_in' \in 0..LineLen,
         include_lines' = IF Top.kind = "include" THEN Top.lines ELSE include_lines,
         include_lines' \in Known,
         include_pos' \in Nat, include_pos' <= FileLen[include_lines'],
         exc' \in {None, "quit"}
  PROVE  Kept'
<1>1. ~(exc' = "throw")
  BY Sizes
<1>2. Shape(py)
  BY DEF Kept
<1>3. Shape(py') /\ Nested(py', include_lines')
  BY <1>2, ShapePop, NestedPop DEF Top
<1>4. Fields'
  BY DEF Kept, Fields
<1> QED BY <1>1, <1>3, <1>4 DEF Kept, Uncaught
-----------------------------------------------------------------------------
\* Where nothing is in flight the frames are Nested.
LEMMA InOrder ==
  ASSUME Kept
  PROVE  Calm => Nested(py, include_lines) /\ ~(exc = "throw")
BY Sizes DEF Kept, Left, Calm

\* A word runs on its line or under the CATCH it has begun.
LEMMA Running ==
  ASSUME Kept
  PROVE  InWord => Calm /\ Top.kind \in {"line", "catch"}
BY DEF InWord

LEMMA MainLineKept == Kept /\ MainLine => Kept'
<1> SUFFICES ASSUME Kept, MainLine PROVE Kept'
  OBVIOUS
<1>1. Calm /\ Top.kind = "main" /\ Top \in MainFrames
  BY AtTop DEF MainLine
<1>2. PICK f, k : f = [Top EXCEPT !.pos = @ + 1] /\ k = Top.pos + 1
  OBVIOUS
<1>3. f \in MainFrames /\ f.kind = "main" /\ k \in Nat
  BY <1>1, <1>2 DEF MainFrames
<1>4. PICK text : text = Line(Main, k)
  OBVIOUS
<1>5. Main \in Known
  BY DEF Known
<1>6. text \in Texts
  BY <1>3, <1>4, <1>5 DEF Texts
<1>7. PICK g : g = Reading(text)
  OBVIOUS
<1>8. g \in LineFrames /\ g.kind = "line"
  BY <1>6, <1>7, NewFrames DEF Kept, LineFrames
<1>9. toks' = text /\ py' = Append(<<f>>, g)
  BY <1>2, <1>4, <1>7 DEF MainLine, Begin
<1>10. f \in PyFrames /\ g \in PyFrames
  BY <1>3, <1>8 DEF PyFrames
<1>11. <<f>> \in Seq(PyFrames) /\ Len(<<f>>) = 1 /\ <<f>>[1] = f
  BY <1>10
<1>12. PICK w : w = py'
  OBVIOUS
<1>13. w \in Seq(PyFrames) /\ Len(w) = 2 /\ w[1] = f /\ w[2] = g /\ w # <<>>
       /\ DOMAIN w = 1..2
  BY <1>9, <1>10, <1>11, <1>12
<1>14. Shape(w)
  BY <1>3, <1>8, <1>13, Sizes DEF Shape, InFile
<1>15. Nested(w, include_lines)
  BY <1>3, <1>8, <1>13 DEF Nested
<1>16. UNCHANGED <<to_in, include_lines, include_pos, exc>>
  BY DEF MainLine
<1>17. Fields'
  BY <1>6, <1>9, <1>16 DEF Kept, Fields
<1>18. ~(exc' = "throw")
  BY <1>1, <1>16, InOrder
<1>19. Shape(py)' /\ Nested(py, include_lines)'
  BY <1>12, <1>14, <1>15, <1>16
<1> QED BY <1>17, <1>18, <1>19 DEF Kept, Uncaught

LEMMA RunWordKept == Kept /\ RunWord => Kept'
<1> SUFFICES ASSUME Kept, RunWord PROVE Kept'
  OBVIOUS
<1>1. Calm /\ Top.kind = "line" /\ Top \in LineFrames
  BY AtTop DEF RunWord, AtLine
<1>2. PICK f : f = [Top EXCEPT !.i = @ + 1, !.busy = TRUE]
  OBVIOUS
<1>3. Top.i \in Nat /\ Top.i < LineLen
  BY <1>1, Sizes DEF RunWord, LineFrames
<1>4. f \in LineFrames /\ Top.i + 1 \in 0..LineLen
  <2>1. Top.i + 1 \in 0..LineLen
    BY <1>3, Sizes
  <2>2. PICK g : g = [Top EXCEPT !.i = @ + 1]
    OBVIOUS
  <2>3. g \in LineFrames
    BY <1>1, <2>1, <2>2 DEF LineFrames
  <2>4. [g EXCEPT !.busy = TRUE] \in LineFrames
    BY <2>3 DEF LineFrames
  <2> QED BY <1>2, <2>1, <2>2, <2>4
<1>5. SetTop(f) /\ to_in' \in 0..LineLen
      /\ toks' = toks /\ UNCHANGED <<include_lines, include_pos, exc>>
  BY <1>2, <1>4 DEF RunWord
<1> QED BY <1>1, <1>4, <1>5, OnLine

LEMMA HandleKept == Kept /\ Handle => Kept'
<1> SUFFICES ASSUME Kept, Handle PROVE Kept'
  OBVIOUS
<1>1. Calm /\ Top.kind = "line" /\ Top \in LineFrames
  BY AtTop DEF Handle, AtLine
<1>2. PICK f : f = [Top EXCEPT !.i = @ + 1]
  OBVIOUS
<1>3. Top.i \in Nat /\ Top.i < LineLen
  BY <1>1, Sizes DEF Handle, LineFrames
<1>4. f \in LineFrames
  BY <1>1, <1>2, <1>3, Sizes DEF LineFrames
<1>5. SetTop(f) /\ to_in' \in 0..LineLen
      /\ toks' = toks /\ UNCHANGED <<include_lines, include_pos, exc>>
  BY <1>2 DEF Handle, fields, Kept, Fields
<1> QED BY <1>1, <1>4, <1>5, OnLine

LEMMA WordEndsKept == Kept /\ WordEnds => Kept'
<1> SUFFICES ASSUME Kept, WordEnds PROVE Kept'
  OBVIOUS
<1>1. PICK f : f = [kind |-> "line", toks |-> toks, i |-> to_in, busy |-> FALSE]
  OBVIOUS
<1>2. f \in LineFrames
  BY <1>1 DEF Kept, Fields, LineFrames
<1>3. Calm /\ Top.kind = "line" /\ SetTop(f) /\ to_in' \in 0..LineLen
      /\ toks' = toks /\ UNCHANGED <<include_lines, include_pos, exc>>
  BY <1>1 DEF WordEnds, fields, Kept, Fields
<1> QED BY <1>2, <1>3, OnLine

\* A line, or a CATCH whose word returns, leaves the fields as they are.
LEMMA ReturnKept ==
  ASSUME Kept, Calm, Top.kind \in {"line", "catch"}, py' = Front(py),
         UNCHANGED <<fields, exc>>
  PROVE  Kept'
<1>1. Nested(py, include_lines) /\ ~(exc = "throw")
  BY InOrder
<1>2. /\ toks' \in Texts /\ to_in' \in 0..LineLen
      /\ include_lines' = IF Top.kind = "include" THEN Top.lines ELSE include_lines
      /\ include_lines' \in Known
      /\ include_pos' \in Nat /\ include_pos' <= FileLen[include_lines']
      /\ exc' \in {None, "quit"}
  BY <1>1 DEF Kept, Fields, fields
<1> QED BY <1>1, <1>2, OnPop

LEMMA LineEndsKept == Kept /\ LineEnds => Kept'
BY ReturnKept DEF LineEnds, AtLine

LEMMA QuitLineKept == Kept /\ QuitLine => Kept'
BY ReturnKept DEF QuitLine, AtLine

LEMMA CatchEndsKept == Kept /\ CatchEnds => Kept'
BY ReturnKept DEF CatchEnds

\* A word that moves the cursor, or reads another line of the file.
LEMMA MoveKept ==
  ASSUME Kept, Calm, toks' \in Texts, to_in' \in 0..LineLen,
         include_pos' \in Nat, include_pos' <= FileLen[include_lines],
         UNCHANGED <<include_lines, py, exc>>
  PROVE  Kept'
<1>1. ~(exc = "throw") /\ Nested(py, include_lines)
  BY InOrder
<1>2. Fields'
  BY DEF Kept, Fields
<1>3. Shape(py)' /\ Nested(py, include_lines)'
  BY <1>1 DEF Kept
<1> QED BY <1>1, <1>2, <1>3 DEF Kept, Uncaught

LEMMA ParseNextTokenKept == Kept /\ ParseNextToken => Kept'
<1> SUFFICES ASSUME Kept, ParseNextToken PROVE Kept'
  OBVIOUS
<1>1. to_in' \in 0..LineLen
  BY Sizes DEF Kept, Fields, ParseNextToken
<1> QED BY <1>1, MoveKept DEF ParseNextToken, InWord, Kept, Fields

LEMMA SetToInKept == ASSUME NEW k \in 0..LineLen PROVE Kept /\ SetToIn(k) => Kept'
BY MoveKept DEF SetToIn, InWord, Kept, Fields

LEMMA RefillKept == Kept /\ Refill => Kept'
<1> SUFFICES ASSUME Kept, Refill PROVE Kept'
  OBVIOUS
<1>1. FileLen[include_lines] \in Nat /\ include_pos \in Nat /\ include_lines \in Known
  BY Sizes DEF Kept, Fields
<1>2. Line(include_lines, include_pos + 1) \in Texts
  BY <1>1 DEF Texts
<1>3. toks' \in Texts /\ to_in' \in 0..LineLen
      /\ include_pos' \in Nat /\ include_pos' <= FileLen[include_lines]
  <2>1. CASE include_pos < FileLen[include_lines]
    <3>1. toks' \in Texts /\ to_in' = 0 /\ include_pos' = include_pos + 1
      BY <1>2, <2>1 DEF Refill
    <3> QED BY <1>1, <2>1, <3>1, Sizes
  <2>2. CASE ~(include_pos < FileLen[include_lines])
    BY <2>2 DEF Kept, Fields, Refill
  <2> QED BY <2>1, <2>2
<1> QED BY <1>3, MoveKept DEF Refill, InWord

LEMMA EvaluateKept == ASSUME NEW text \in String PROVE Kept /\ Evaluate(text) => Kept'
<1> SUFFICES ASSUME Kept, Evaluate(text) PROVE Kept'
  OBVIOUS
<1>1. Calm /\ Nested(py, include_lines)
  BY InOrder DEF Evaluate, InWord
<1>2. Len(py) \in Nat /\ py \in Seq(PyFrames) /\ Len(py) + 2 <= Depth
  BY AtTop DEF Evaluate, Room
<1>3. text \in Texts
  BY DEF Texts
<1>4. PICK f, g, u : f = SavedHere("evaluate") /\ g = Reading(text) /\ u = Append(py, f)
  OBVIOUS
<1>5. f \in SavedFrames /\ g \in LineFrames
  BY <1>3, <1>4, NewFrames DEF Kept
<1>6. f \in PyFrames /\ g \in PyFrames /\ g.kind = "line"
  BY <1>5 DEF PyFrames, LineFrames
<1>7. f.kind = "evaluate" /\ f.pos = include_pos /\ f.lines = include_lines
  BY <1>4 DEF SavedHere
<1>8. InFile(f) /\ InFile(g)
  BY <1>6, <1>7 DEF InFile, Kept, Fields
<1>9. Shape(u) /\ Nested(u, include_lines)
  <2>1. Len(py) < Depth /\ Shape(py)
    BY <1>2, Sizes DEF Kept
  <2> QED BY <1>1, <1>4, <1>6, <1>7, <1>8, <2>1, ShapePush, NestedPush
<1>10. Len(u) = Len(py) + 1
  BY <1>2, <1>4, <1>6, OnTop
<1>11. Len(u) < Depth
  BY <1>2, <1>10, Sizes
<1>12. py' = Append(u, g) /\ toks' = text
  BY <1>4 DEF Evaluate, Begin
<1>13. Shape(py') /\ Nested(py', include_lines)
  BY <1>6, <1>8, <1>9, <1>11, <1>12, ShapePush, NestedPush
<1>14. UNCHANGED <<to_in, include_lines, include_pos, exc>>
  BY DEF Evaluate
<1>15. Fields'
  BY <1>3, <1>12, <1>14 DEF Kept, Fields
<1>16. ~(exc' = "throw")
  BY <1>1, <1>14, InOrder
<1>17. Nested(py, include_lines)'
  BY <1>13, <1>14
<1> QED BY <1>13, <1>15, <1>16, <1>17 DEF Kept, Uncaught

LEMMA EvaluateEndsKept == Kept /\ EvaluateEnds => Kept'
<1> SUFFICES ASSUME Kept, EvaluateEnds PROVE Kept'
  OBVIOUS
<1>1. Calm /\ Nested(py, include_lines) /\ Top.kind = "evaluate" /\ Top \in SavedFrames
  BY InOrder, AtTop DEF EvaluateEnds
<1>2. Top.buf \in Texts /\ Top.cur \in 0..LineLen
  BY <1>1 DEF SavedFrames
<1>3. /\ toks' \in Texts /\ to_in' \in 0..LineLen
      /\ include_lines' = IF Top.kind = "include" THEN Top.lines ELSE include_lines
      /\ include_lines' \in Known
      /\ include_pos' \in Nat /\ include_pos' <= FileLen[include_lines']
      /\ exc' \in {None, "quit"} /\ py' = Front(py)
  BY <1>1, <1>2 DEF EvaluateEnds, Kept, Fields, Calm
<1> QED BY <1>1, <1>3, OnPop

\* _include_file opens a file above the frames v.
LEMMA OpenKept ==
  ASSUME Kept, Calm, NEW file \in File, NEW v, Shape(v), Nested(v, include_lines),
         Len(v) + 2 <= Depth, Open(file, v)
  PROVE  Kept'
<1>1. PICK f : f = [SavedHere("include") EXCEPT !.n = FileLen[file]]
  OBVIOUS
<1>2. file \in Known /\ FileLen[file] \in Nat
  BY Sizes DEF Known
<1>3. f \in SavedFrames /\ f.kind = "include" /\ f.n = FileLen[file]
      /\ f.lines = include_lines /\ f.pos = include_pos
  BY <1>1, <1>2 DEF Kept, Fields, SavedHere, SavedFrames
<1>4. f \in PyFrames /\ InFile(f)
  BY <1>3 DEF PyFrames, InFile, Kept, Fields
<1>5. Len(v) \in Nat /\ Len(v) < Depth /\ Len(v) + 1 < Depth
  <2>1. Len(v) \in Nat
    BY LenProperties DEF Shape
  <2> QED BY <2>1, Sizes
<1>6. py' = Append(v, f) /\ include_lines' = file /\ include_pos' = 0
      /\ UNCHANGED <<toks, to_in, exc>>
  BY <1>1 DEF Open
<1>7. Shape(py')
  BY <1>3, <1>4, <1>5, <1>6, ShapePush
<1>8. Nested(py', file)
  BY <1>3, <1>4, <1>6, NestedOpen
<1>9. Fields'
  BY <1>2, <1>6 DEF Kept, Fields
<1>10. ~(exc' = "throw")
  BY <1>6, InOrder
<1>11. Nested(py, include_lines)'
  BY <1>6, <1>8
<1> QED BY <1>7, <1>9, <1>10, <1>11 DEF Kept, Uncaught

LEMMA IncludedKept == ASSUME NEW file \in File PROVE Kept /\ Included(file) => Kept'
<1> SUFFICES ASSUME Kept, Included(file) PROVE Kept'
  OBVIOUS
<1>1. Calm /\ Nested(py, include_lines) /\ Shape(py) /\ Len(py) + 2 <= Depth
  BY InOrder DEF Included, InWord, AtLine, Room, Kept
<1> QED BY <1>1, OpenKept DEF Included

LEMMA IncludeTokenKept ==
  ASSUME NEW file \in File PROVE Kept /\ IncludeToken(file) => Kept'
<1> SUFFICES ASSUME Kept, IncludeToken(file) PROVE Kept'
  OBVIOUS
<1>1. Calm /\ Nested(py, include_lines) /\ Shape(py) /\ Len(py) + 2 <= Depth
  BY InOrder DEF IncludeToken, AtLine, Room, Kept
<1>2. Top.kind = "line" /\ Top \in LineFrames /\ Top = py[Len(py)]
      /\ py \in Seq(PyFrames) /\ py # <<>>
  BY AtTop DEF IncludeToken, AtLine
<1>3. PICK f : f = [Top EXCEPT !.i = @ + 1]
  OBVIOUS
<1>4. Top.i \in Nat /\ Top.i < LineLen
  BY <1>2, Sizes DEF IncludeToken, LineFrames
<1>5. f \in LineFrames
  BY <1>2, <1>3, <1>4, Sizes DEF LineFrames
<1>6. PICK v : v = [py EXCEPT ![Len(py)] = f]
  OBVIOUS
<1>7. Shape(v) /\ Nested(v, include_lines) /\ Len(v) = Len(py)
  BY <1>1, <1>2, <1>5, <1>6, LineSet DEF Top
<1>8. v = [py EXCEPT ![Len(py)].i = @ + 1]
  BY <1>2, <1>3, <1>6
<1>9. Open(file, v)
  BY <1>8 DEF IncludeToken
<1>10. Len(v) + 2 <= Depth
  BY <1>1, <1>7
<1> QED BY <1>1, <1>7, <1>9, <1>10, OpenKept

\* The loop of an INCLUDED counts the lines of the file that is being read.
LEMMA OwnLines ==
  ASSUME Kept, Calm, Top.kind = "include"
  PROVE  Top.n = FileLen[include_lines]
<1>1. Nested(py, include_lines)
  BY InOrder
<1>2. PICK c : c = Len(py) /\ c \in Nat
  BY AtTop
<1>3. c \in DOMAIN py /\ py[c] = Top /\ DOMAIN py = 1..c
  BY <1>2, AtTop
<1>4. Between(py, c, Len(py) + 1)
  BY <1>2, <1>3 DEF Between
<1> QED BY <1>1, <1>3, <1>4 DEF Nested

LEMMA IncludeLineKept == Kept /\ IncludeLine => Kept'
<1> SUFFICES ASSUME Kept, IncludeLine PROVE Kept'
  OBVIOUS
<1>1. Calm /\ Top.kind = "include" /\ Len(py) < Depth
  BY AtTop DEF IncludeLine
<1>2. include_pos < FileLen[include_lines]
  BY <1>1, OwnLines DEF IncludeLine
<1>3. PICK k, text : k = include_pos + 1 /\ text = Line(include_lines, k)
  OBVIOUS
<1>4. k \in Nat /\ k <= FileLen[include_lines] /\ include_lines \in Known
  BY <1>2, <1>3, Sizes DEF Kept, Fields
<1>5. text \in Texts
  BY <1>3, <1>4 DEF Texts
<1>6. PICK f : f = Reading(text)
  OBVIOUS
<1>7. f \in LineFrames
  BY <1>5, <1>6, NewFrames DEF Kept
<1>8. f \in PyFrames /\ f.kind = "line"
  BY <1>7 DEF PyFrames, LineFrames
<1>9. f.kind \notin {"main", "include"} /\ InFile(f)
  BY <1>8 DEF InFile
<1>10. py' = Append(py, f) /\ toks' \in Texts /\ include_pos' = k
       /\ UNCHANGED <<to_in, include_lines, exc>>
  BY <1>3, <1>5, <1>6 DEF IncludeLine, Begin
<1>11. to_in' \in 0..LineLen /\ include_pos' \in Nat /\ include_pos' <= FileLen[include_lines]
  BY <1>4, <1>10 DEF Kept, Fields
<1> QED BY <1>1, <1>8, <1>9, <1>10, <1>11, OnPush

LEMMA IncludeEndsKept == Kept /\ IncludeEnds => Kept'
<1> SUFFICES ASSUME Kept, IncludeEnds PROVE Kept'
  OBVIOUS
<1>1. Calm /\ Nested(py, include_lines) /\ Top.kind = "include" /\ Top \in SavedFrames
      /\ InFile(Top)
  BY InOrder, AtTop DEF IncludeEnds
<1>2. Top.buf \in Texts /\ Top.cur \in 0..LineLen /\ Top.lines \in Known /\ Top.pos \in Nat
  BY <1>1 DEF SavedFrames
<1>3. /\ toks' \in Texts /\ to_in' \in 0..LineLen
      /\ include_lines' = IF Top.kind = "include" THEN Top.lines ELSE include_lines
      /\ include_lines' \in Known
      /\ include_pos' \in Nat /\ include_pos' <= FileLen[include_lines']
      /\ exc' \in {None, "quit"} /\ py' = Front(py)
  BY <1>1, <1>2 DEF IncludeEnds, Calm, InFile
<1> QED BY <1>1, <1>3, OnPop

-----------------------------------------------------------------------------
LEMMA CatchKept == Kept /\ Catch => Kept'
<1> SUFFICES ASSUME Kept, Catch PROVE Kept'
  OBVIOUS
<1>1. PICK f : f = [kind |-> "catch"]
  OBVIOUS
<1>2. f \in PyFrames /\ f.kind = "catch"
  BY <1>1 DEF PyFrames, CatchFrames
<1>3. f.kind \notin {"main", "include"} /\ InFile(f)
  BY <1>2 DEF InFile
<1>4. Calm /\ py' = Append(py, f) /\ Len(py) < Depth
  BY <1>1 DEF Catch, InWord
<1>5. toks' \in Texts /\ to_in' \in 0..LineLen
      /\ include_pos' \in Nat /\ include_pos' <= FileLen[include_lines]
      /\ UNCHANGED <<include_lines, exc>>
  BY DEF Catch, fields, Kept, Fields
<1> QED BY <1>2, <1>3, <1>4, <1>5, OnPush

\* No CATCH stands around a text that throws: the THROW is caught in its own
\* line, or nowhere.
LEMMA ThrowKept == CatchTexts = FALSE /\ Kept /\ Throw => Kept'
<1> SUFFICES ASSUME CatchTexts = FALSE, Kept, Throw PROVE Kept'
  OBVIOUS
<1>1. Calm /\ Nested(py, include_lines)
  BY InOrder DEF Throw, InWord, AtLine
<1>2. UNCHANGED <<fields, py>> /\ exc' = "throw"
  BY DEF Throw
<1>3. Fields'
  BY <1>2 DEF Kept, Fields, fields
<1>4. Uncaught'
  BY <1>2 DEF Throw, Uncaught, Catches, Top
<1>5. Shape(py)' /\ Nested(py, include_lines)'
  BY <1>1, <1>2 DEF Kept, fields
<1> QED BY <1>3, <1>4, <1>5 DEF Kept

LEMMA QuitWordKept == Kept /\ QuitWord => Kept'
<1> SUFFICES ASSUME Kept, QuitWord PROVE Kept'
  OBVIOUS
<1>1. Nested(py, include_lines)
  BY InOrder DEF QuitWord, InWord
<1>2. UNCHANGED <<fields, py>> /\ exc' = "quit"
  BY DEF QuitWord
<1>3. Fields' /\ Shape(py)' /\ Nested(py, include_lines)'
  BY <1>1, <1>2 DEF Kept, Fields, fields
<1> QED BY <1>2, <1>3 DEF Kept, Uncaught

LEMMA LandKept == Kept /\ Land => Kept'
<1> SUFFICES ASSUME Kept, Land PROVE Kept'
  OBVIOUS
<1>1. Nested(py, include_lines)
  <2>1. CASE exc = "throw"
    <3>1. Len(py) \in DOMAIN py /\ py[Len(py)].kind = "catch"
      BY <2>1, AtTop DEF Land
    <3>2. Catches # {}
      BY <3>1 DEF Catches
    <3> QED BY <3>2 DEF Kept, Left
  <2>2. CASE exc = "quit"
    BY <2>2 DEF Kept, Left
  <2> QED BY <2>1, <2>2 DEF Land
<1>2. /\ Top.kind \in {"catch", "line"} /\ py' = Front(py)
      /\ exc' = None /\ UNCHANGED fields
  BY DEF Land
<1>3. /\ toks' \in Texts /\ to_in' \in 0..LineLen
      /\ include_lines' = IF Top.kind = "include" THEN Top.lines ELSE include_lines
      /\ include_lines' \in Known
      /\ include_pos' \in Nat /\ include_pos' <= FileLen[include_lines']
  BY <1>2 DEF Kept, Fields, fields
<1> QED BY <1>1, <1>2, <1>3, OnPop

LEMMA PassOnKept == Kept /\ PassOn => Kept'
<1> SUFFICES ASSUME Kept, PassOn PROVE Kept'
  OBVIOUS
<1>1. UNCHANGED <<fields, exc>> /\ py' = Front(py) /\ Top.kind # "main"
  BY DEF PassOn
<1>2. CASE exc = "throw"
  <2>1. Catches = {}
    BY <1>2 DEF PassOn, Kept, Uncaught
  <2>2. PICK c : c = Len(py) /\ c \in Nat
    BY AtTop
  <2>3. PICK w : w = Front(py)
    OBVIOUS
  <2>4. py \in Seq(PyFrames) /\ py # <<>>
    BY AtTop
  <2>5. w \in Seq(PyFrames) /\ Len(w) = c - 1 /\ \A k \in 1..(c - 1) : w[k] = py[k]
    BY <2>2, <2>3, <2>4, Topmost
  <2>6. \A k \in DOMAIN w : w[k].kind # "catch"
    BY <2>1, <2>2, <2>4, <2>5 DEF Catches
  <2>7. Catches' = {}
    BY <1>1, <2>3, <2>6 DEF Catches
  <2>8. Shape(py')
    BY <1>1, ShapePop DEF Kept, Top
  <2>9. Fields'
    BY <1>1 DEF Kept, Fields, fields
  <2> QED BY <1>1, <1>2, <2>7, <2>8, <2>9 DEF Kept, Uncaught, Left
<1>3. CASE exc = "quit"
  <2>1. Nested(py, include_lines) /\ Top.kind = "catch"
    BY <1>3 DEF PassOn, Kept, Left
  <2>2. /\ toks' \in Texts /\ to_in' \in 0..LineLen
        /\ include_lines' = IF Top.kind = "include" THEN Top.lines ELSE include_lines
        /\ include_lines' \in Known
        /\ include_pos' \in Nat /\ include_pos' <= FileLen[include_lines']
        /\ exc' \in {None, "quit"}
    BY <1>1, <1>3, <2>1 DEF Kept, Fields, fields
  <2> QED BY <1>1, <2>1, <2>2, OnPop
<1> QED BY <1>2, <1>3 DEF PassOn

LEMMA StepKept == CatchTexts = FALSE => (Kept /\ [Next]_vars => Kept')
<1> SUFFICES ASSUME CatchTexts = FALSE, Kept, [Next]_vars PROVE Kept'
  OBVIOUS
<1>1. CASE UNCHANGED vars
  BY <1>1 DEF vars, Kept, Fields, Uncaught, Left, Catches, Top
<1>2. CASE Done
  BY <1>1, <1>2 DEF Done
<1>3. CASE \E k \in 0..LineLen : SetToIn(k)
  BY <1>3, SetToInKept
<1>4. CASE \E text \in String : Evaluate(text)
  BY <1>4, EvaluateKept
<1>5. CASE \E file \in File : Included(file) \/ IncludeToken(file)
  BY <1>5, IncludedKept, IncludeTokenKept
<1> QED
  BY <1>1, <1>2, <1>3, <1>4, <1>5, MainLineKept, RunWordKept, HandleKept, WordEndsKept,
     LineEndsKept, QuitLineKept, ParseNextTokenKept, RefillKept, EvaluateEndsKept,
     IncludeLineKept, IncludeEndsKept, CatchKept, CatchEndsKept, ThrowKept, QuitWordKept,
     LandKept, PassOnKept
  DEF Next

\* If no CATCH stands around EVALUATE or INCLUDED that throw, the cursor never
\* leaves its line and the position in the file never its file, however deep
\* the texts nest (_handle_evaluate, _include_file, REFILL, >IN), in programs
\* that do not put the cursor past the line themselves, as PARSE-NAME can.
THEOREM CursorInLine == CatchTexts = FALSE => (Spec => []TypeOK)
<1> SUFFICES ASSUME CatchTexts = FALSE PROVE Spec => []TypeOK
  OBVIOUS
<1>1. Kept => TypeOK
  <2> SUFFICES ASSUME Kept PROVE TypeOK
    OBVIOUS
  <2>1. to_in \in 0..LineLen /\ include_pos \in Nat /\ include_pos <= FileLen[include_lines]
        /\ FileLen[include_lines] \in Nat
    BY Sizes DEF Kept, Fields
  <2> QED BY <2>1, AtTop DEF TypeOK
<1>2. Kept /\ [Next]_vars => Kept'
  BY StepKept
<1> QED BY Start, <1>1, <1>2, PTL DEF Spec

\* And the loop of _include_file reads the lines of the file it was called
\* for, to the last: what it nests puts include_lines and include_pos back.
THEOREM FileReadAsCounted == CatchTexts = FALSE => (Spec => IncludesOwnLines)
<1> SUFFICES ASSUME CatchTexts = FALSE PROVE Spec => IncludesOwnLines
  OBVIOUS
<1>1. Kept /\ [Next]_vars => Kept'
  BY StepKept
<1>2. Kept /\ IncludeLine => FileLen[include_lines] = Top.n
                             /\ include_pos < FileLen[include_lines]
  BY OwnLines DEF IncludeLine
<1>3. Kept /\ [Next]_vars
      => [IncludeLine => /\ FileLen[include_lines] = Top.n
                         /\ include_pos < FileLen[include_lines]]_vars
  BY <1>2
<1> QED BY Start, <1>1, <1>3, PTL DEF Spec, IncludesOwnLines

-----------------------------------------------------------------------------
(* Lists picked out of a row: the elements a[k] for k in O, in order.      *)

Picked(n, O, a, g) ==
  g = [k \in 0..n |-> IF k = 0 THEN <<>>
                      ELSE IF k \in O THEN Append(g[k - 1], a[k]) ELSE g[k - 1]]
List(n, O, a) == CHOOSE g : Picked(n, O, a, g)

LEMMA LeastNatural ==
  ASSUME NEW S \in SUBSET Nat, S # {}
  PROVE  \E m \in S : \A k \in S : m <= k
<1>1. PICK m \in S : \A k \in S : ~ (<<k, m>> \in OpToRel(<, Nat))
  BY NatLessThanWellFounded, WFMin
<1>2. \A k \in S : ~ (k < m)
  BY <1>1 DEF OpToRel
<1> QED BY <1>2

LEMMA PickedExists ==
  ASSUME NEW n \in Nat, NEW O, NEW a
  PROVE  \E g : Picked(n, O, a, g)
<1> DEFINE bad == {m \in Nat : ~ \E g : Picked(m, O, a, g)}
<1> SUFFICES ASSUME bad # {} PROVE FALSE
  OBVIOUS
<1>1. PICK m \in bad : \A k \in bad : m <= k
  BY LeastNatural
<1>2. m # 0
  <2>1. Picked(0, O, a, [k \in 0..0 |-> <<>>])
    BY DEF Picked
  <2> QED BY <2>1
<1>3. PICK g : Picked(m - 1, O, a, g)
  <2>1. m - 1 \in Nat /\ m - 1 \notin bad
    BY <1>1, <1>2
  <2> QED BY <2>1
<1> DEFINE last == IF m \in O THEN Append(g[m - 1], a[m]) ELSE g[m - 1]
           h == [k \in 0..m |-> IF k = m THEN last ELSE g[k]]
<1>4. ASSUME NEW k \in 0..m
      PROVE  h[k] = IF k = 0 THEN <<>>
                    ELSE IF k \in O THEN Append(h[k - 1], a[k]) ELSE h[k - 1]
  <2>1. CASE k = m
    <3>1. h[k] = last /\ h[k - 1] = g[m - 1]
      BY <1>1, <1>2, <2>1
    <3> QED BY <1>2, <2>1, <3>1
  <2>2. CASE k # m
    <3>1. k \in 0..(m - 1) /\ h[k] = g[k]
      BY <1>1, <2>2
    <3>2. g[k] = IF k = 0 THEN <<>>
                 ELSE IF k \in O THEN Append(g[k - 1], a[k]) ELSE g[k - 1]
      BY <1>3, <3>1 DEF Picked
    <3>3. k # 0 => h[k - 1] = g[k - 1]
      BY <1>1, <3>1
    <3> QED BY <3>1, <3>2, <3>3
  <2> QED BY <2>1, <2>2
<1>5. Picked(m, O, a, h)
  BY <1>4 DEF Picked
<1> QED BY <1>5

LEMMA ListSteps ==
  ASSUME NEW n \in Nat, NEW O, NEW a, NEW g, Picked(n, O, a, g)
  PROVE  /\ g[0] = <<>>
         /\ \A k \in 1..n : g[k] = IF k \in O THEN Append(g[k - 1], a[k]) ELSE g[k - 1]
<1>1. 0 \in 0..n
  OBVIOUS
<1>2. g[0] = <<>>
  BY <1>1 DEF Picked
<1>3. ASSUME NEW k \in 1..n
      PROVE  g[k] = IF k \in O THEN Append(g[k - 1], a[k]) ELSE g[k - 1]
  <2>1. k \in 0..n /\ k # 0
    OBVIOUS
  <2> QED BY <2>1 DEF Picked
<1> QED BY <1>2, <1>3

\* What is picked up to k is given by the row up to k.
LEMMA PickedSame ==
  ASSUME NEW n \in Nat, NEW O, NEW a, NEW g, Picked(n, O, a, g),
         NEW m \in Nat, NEW P, NEW b, NEW h, Picked(m, P, b, h),
         NEW k \in Nat, k <= n, k <= m,
         \A j \in 1..k : j \in O <=> j \in P,
         \A j \in 1..k : j \in O => a[j] = b[j]
  PROVE  g[k] = h[k]
<1> DEFINE bad == {j \in Nat : j <= k /\ g[j] # h[j]}
<1> SUFFICES ASSUME bad # {} PROVE FALSE
  OBVIOUS
<1>1. PICK j \in bad : \A i \in bad : j <= i
  BY LeastNatural
<1>2. j # 0
  BY ListSteps
<1>3. j \in 1..k /\ j \in 1..n /\ j \in 1..m /\ j - 1 \in 0..k /\ j - 1 \notin bad
  BY <1>1, <1>2
<1>4. g[j - 1] = h[j - 1]
  BY <1>3
<1>5. /\ g[j] = IF j \in O THEN Append(g[j - 1], a[j]) ELSE g[j - 1]
      /\ h[j] = IF j \in P THEN Append(h[j - 1], b[j]) ELSE h[j - 1]
  BY <1>3, ListSteps
<1> QED BY <1>3, <1>4, <1>5

\* Where the elements stand in the list g[k].
Standing(O, T, a, g, k) ==
  /\ g[k] \in Seq(T) /\ Len(g[k]) \in Nat
  /\ \A j \in 1..k : j \in O =>
       /\ g[j] \in Seq(T) /\ Len(g[j]) \in 1..Len(g[k]) /\ g[k][Len(g[j])] = a[j]
  /\ \A i \in 1..Len(g[k]) : \E j \in 1..k : j \in O /\ Len(g[j]) = i
  /\ \A i, j \in 1..k : i \in O /\ j \in O /\ i < j => Len(g[i]) < Len(g[j])

LEMMA PickedPlaces ==
  ASSUME NEW n \in Nat, NEW O, NEW T, NEW a, NEW g, Picked(n, O, a, g),
         \A k \in 1..n : k \in O => a[k] \in T,
         NEW k \in 0..n
  PROVE  Standing(O, T, a, g, k)
<1> DEFINE Good(m) ==
      /\ g[m] \in Seq(T) /\ Len(g[m]) \in Nat
      /\ \A j \in 1..m : j \in O =>
              /\ g[j] \in Seq(T) /\ Len(g[j]) \in 1..Len(g[m]) /\ g[m][Len(g[j])] = a[j]
      /\ \A i \in 1..Len(g[m]) : \E j \in 1..m : j \in O /\ Len(g[j]) = i
      /\ \A i, j \in 1..m : i \in O /\ j \in O /\ i < j => Len(g[i]) < Len(g[j])
    bad == {m \in Nat : m <= n /\ ~Good(m)}
<1> SUFFICES ASSUME bad # {} PROVE FALSE
  <2>1. k \in Nat /\ k <= n
    OBVIOUS
  <2>2. Good(k)
    <3> HIDE DEF Good
    <3> QED BY <2>1
  <2> QED BY <2>2 DEF Good, Standing
<1> HIDE DEF Good
<1>1. PICK m \in bad : \A i \in bad : m <= i
  BY LeastNatural
<1>2. m # 0
  <2>1. Good(0)
    <3>1. g[0] = <<>>
      BY ListSteps
    <3> QED BY <3>1 DEF Good
  <2> QED BY <2>1
<1>3. m \in 1..n /\ m - 1 \in 0..n /\ m - 1 \notin bad
  BY <1>1, <1>2
<1>4. PICK p : p = m - 1 /\ p \in Nat
  BY <1>3
<1>5. Good(p)
  BY <1>3, <1>4
<1>a. /\ g[p] \in Seq(T) /\ Len(g[p]) \in Nat
      /\ \A j \in 1..p : j \in O =>
              /\ g[j] \in Seq(T) /\ Len(g[j]) \in 1..Len(g[p]) /\ g[p][Len(g[j])] = a[j]
      /\ \A i \in 1..Len(g[p]) : \E j \in 1..p : j \in O /\ Len(g[j]) = i
      /\ \A i, j \in 1..p : i \in O /\ j \in O /\ i < j => Len(g[i]) < Len(g[j])
  BY <1>5 DEF Good
<1>6. g[m] = IF m \in O THEN Append(g[p], a[m]) ELSE g[p]
  <2>1. \A i \in 1..n : g[i] = IF i \in O THEN Append(g[i - 1], a[i]) ELSE g[i - 1]
    BY ListSteps
  <2> QED BY <1>3, <1>4, <2>1
<1>7. \A j \in 1..m : j \in 1..p \/ j = m
  BY <1>3, <1>4
<1>8. CASE m \notin O
  <2>1. g[m] = g[p]
    BY <1>6, <1>8
  <2>2. \A j \in 1..m : j \in O => j \in 1..p
    BY <1>7, <1>8
  <2>3. \A j \in 1..p : j \in 1..m
    BY <1>3, <1>4
  <2>4. Good(m)
    BY <1>a, <2>1, <2>2, <2>3 DEF Good
  <2> QED BY <2>4
<1>9. CASE m \in O
  <2>1. PICK u, x, c : u = g[p] /\ x = a[m] /\ c = Len(g[p])
    OBVIOUS
  <2>2. g[m] = Append(u, x) /\ u \in Seq(T) /\ x \in T /\ c \in Nat /\ Len(u) = c
    BY <1>3, <1>a, <1>6, <1>9, <2>1
  <2>3. /\ g[m] \in Seq(T) /\ Len(g[m]) = c + 1 /\ g[m][c + 1] = x
        /\ \A i \in 1..c : g[m][i] = u[i]
    BY <2>2, OnTop
  <2>4. ASSUME NEW j \in 1..m, j \in O
        PROVE  /\ g[j] \in Seq(T) /\ Len(g[j]) \in 1..Len(g[m]) /\ g[m][Len(g[j])] = a[j]
    <3>1. CASE j = m
      <4>1. Len(g[m]) = c + 1 /\ c + 1 \in 1..(c + 1) /\ g[m][c + 1] = a[m]
        BY <2>1, <2>2, <2>3
      <4> QED BY <2>3, <3>1, <4>1
    <3>2. CASE j \in 1..p
      <4>1. g[j] \in Seq(T) /\ Len(g[j]) \in 1..c /\ u[Len(g[j])] = a[j]
        BY <1>a, <2>1, <2>4, <3>2
      <4> QED BY <2>2, <2>3, <4>1
    <3> QED BY <1>7, <3>1, <3>2
  <2>5. ASSUME NEW i \in 1..Len(g[m])
        PROVE  \E j \in 1..m : j \in O /\ Len(g[j]) = i
    <3>1. CASE i = c + 1
      BY <1>3, <1>9, <2>3, <3>1
    <3>2. CASE i \in 1..c
      BY <1>3, <1>4, <1>a, <2>1, <3>2
    <3> QED BY <2>2, <2>3, <3>1, <3>2
  <2>6. ASSUME NEW i \in 1..m, NEW j \in 1..m, i \in O, j \in O, i < j
        PROVE  Len(g[i]) < Len(g[j])
    <3>1. i \in 1..p
      BY <1>3, <1>4, <2>6
    <3>2. CASE j = m
      <4>1. Len(g[i]) \in 1..c
        BY <1>a, <2>1, <2>6, <3>1
      <4> QED BY <2>2, <2>3, <3>2, <4>1
    <3>3. CASE j \in 1..p
      BY <1>a, <2>6, <3>1, <3>3
    <3> QED BY <1>7, <3>2, <3>3
  <2>7. Good(m)
    <3>1. g[m] \in Seq(T) /\ Len(g[m]) \in Nat
      BY <2>2, <2>3
    <3> QED BY <2>4, <2>5, <2>6, <3>1, Zenon DEF Good
  <2> QED BY <2>7
<1> QED BY <1>8, <1>9

\* Nothing is picked after the last.
LEMMA PickedLast ==
  ASSUME NEW n \in Nat, NEW O, NEW a, NEW g, Picked(n, O, a, g),
         NEW k \in 0..n, \A j \in 1..n : k < j => j \notin O
  PROVE  g[n] = g[k]
<1> DEFINE bad == {j \in Nat : j <= n /\ k <= j /\ g[j] # g[k]}
<1> SUFFICES ASSUME bad # {} PROVE FALSE
  OBVIOUS
<1>1. PICK j \in bad : \A i \in bad : j <= i
  BY LeastNatural
<1>2. k < j
  BY <1>1
<1>3. j \in 1..n /\ j - 1 \in 0..n /\ k <= j - 1 /\ j - 1 \notin bad
  BY <1>1, <1>2
<1>4. g[j - 1] = g[k]
  BY <1>3
<1>5. g[j] = g[j - 1]
  BY <1>2, <1>3, ListSteps
<1> QED BY <1>4, <1>5
-----------------------------------------------------------------------------
(* The sources of any stack of frames, under any fields.                   *)

Openings == {"main", "evaluate", "include"}
Saving == {"evaluate", "include"}
Including == {"include"}
Openers(v) == {k \in 1..Len(v) : v[k].kind \in Openings}

\* Above, SourceAt and SourcesTo, of a stack v under the fields s.
Higher(v, k, kinds) == {j \in DOMAIN v : j > k /\ v[j].kind \in kinds}
Saved(v, s, k, kinds) ==
  IF Higher(v, k, kinds) = {} THEN s ELSE v[Min(Higher(v, k, kinds))]

IsRead(v, k) == k < Len(v) /\ v[k + 1].kind = "line"
FileAt(v, s, k) ==
  CASE v[k].kind = "main" -> Main
    [] v[k].kind = "evaluate" -> None
    [] v[k].kind = "include" -> Saved(v, s, k, Including).lines
NextAt(v, s, k) ==
  CASE v[k].kind = "main" -> v[k].pos + 1
    [] v[k].kind = "evaluate" -> 1
    [] v[k].kind = "include" -> Saved(v, s, k, Including).pos + 1
TextAt(v, s, k) ==
  IF ~IsRead(v, k) THEN None
  ELSE IF v[k + 1].busy THEN Saved(v, s, k, Saving).buf ELSE v[k + 1].toks
PosAt(v, s, k) ==
  IF ~IsRead(v, k) THEN 0
  ELSE IF v[k + 1].busy THEN Saved(v, s, k, Saving).cur ELSE v[k + 1].i
At(v, s, k) ==
  [file |-> FileAt(v, s, k), text |-> TextAt(v, s, k),
   pos |-> PosAt(v, s, k), next |-> NextAt(v, s, k)]
Row(v, s) == [k \in 1..Len(v) |-> At(v, s, k)]
To(v, s) == List(Len(v), Openers(v), Row(v, s))
Src(v, s) == To(v, s)[Len(v)]

LEMMA ToPicked ==
  ASSUME NEW v, Len(v) \in Nat, NEW s
  PROVE  Picked(Len(v), Openers(v), Row(v, s), To(v, s))
<1>1. \E g : Picked(Len(v), Openers(v), Row(v, s), g)
  BY PickedExists
<1> QED BY <1>1 DEF To, List

\* The least of a set of numbers.
LEMMA MinIs ==
  ASSUME NEW S \in SUBSET Nat, NEW m \in S, \A k \in S : m <= k
  PROVE  Min(S) = m
<1>1. Min(S) \in S /\ \A k \in S : Min(S) <= k
  BY DEF Min
<1>2. PICK x : x = Min(S)
  OBVIOUS
<1>3. x \in Nat /\ m \in Nat /\ x <= m /\ m <= x
  BY <1>1, <1>2
<1> QED BY <1>2, <1>3

LEMMA MinIn ==
  ASSUME NEW S \in SUBSET Nat, S # {}
  PROVE  Min(S) \in S /\ \A k \in S : Min(S) <= k
<1>1. PICK m \in S : \A k \in S : m <= k
  BY LeastNatural
<1> QED BY <1>1 DEF Min

\* The mapping of the model is Src of what is there.
LEMMA SourceAtIs ==
  ASSUME NEW k
  PROVE  SourceAt(k) = At(py, Here, k)
BY DEF SourceAt, At, FileAt, NextAt, TextAt, PosAt, IsRead, Above, Saved, Higher,
       Saving, Including

LEMMA SourcesToIs ==
  ASSUME Len(py) \in Nat
  PROVE  SourcesTo[Len(py)] = Src(py, Here)
<1>1. PICK n, O, a : n = Len(py) /\ O = Openers(py) /\ a = Row(py, Here)
  OBVIOUS
<1>2. PICK g : Picked(n, O, a, g)
  BY <1>1, PickedExists
<1>3. ASSUME NEW h
      PROVE  Picked(n, O, a, h)
             <=> h = [k \in 0..n |->
                        IF k = 0 THEN <<>>
                        ELSE IF py[k].kind \in {"main", "evaluate", "include"}
                             THEN Append(h[k - 1], SourceAt(k))
                             ELSE h[k - 1]]
  <2>1. ASSUME NEW k \in 0..n
        PROVE  (IF k = 0 THEN <<>>
                ELSE IF py[k].kind \in {"main", "evaluate", "include"}
                     THEN Append(h[k - 1], SourceAt(k))
                     ELSE h[k - 1])
               = (IF k = 0 THEN <<>>
                  ELSE IF k \in O THEN Append(h[k - 1], a[k]) ELSE h[k - 1])
    <3>1. CASE k = 0
      BY <3>1
    <3>2. CASE k # 0
      <4>1. k \in 1..n
        BY <1>1, <3>2
      <4>2. (k \in O <=> py[k].kind \in {"main", "evaluate", "include"})
            /\ a[k] = SourceAt(k)
        BY <1>1, <4>1, SourceAtIs DEF Openers, Openings, Row
      <4> QED BY <3>2, <4>2
    <3> QED BY <3>1, <3>2
  <2> QED BY <2>1, Zenon DEF Picked
<1>4. \E h : h = [k \in 0..n |->
                        IF k = 0 THEN <<>>
                        ELSE IF py[k].kind \in {"main", "evaluate", "include"}
                             THEN Append(h[k - 1], SourceAt(k))
                             ELSE h[k - 1]]
  BY <1>2, <1>3
<1>5. SourcesTo = [k \in 0..n |->
                        IF k = 0 THEN <<>>
                        ELSE IF py[k].kind \in {"main", "evaluate", "include"}
                             THEN Append(SourcesTo[k - 1], SourceAt(k))
                             ELSE SourcesTo[k - 1]]
  BY <1>1, <1>4, Zenon DEF SourcesTo
<1>6. PICK h : h = SourcesTo
  OBVIOUS
<1>7. Picked(n, O, a, h)
  BY <1>3, <1>5, <1>6
<1>8. PICK t : t = To(py, Here)
  OBVIOUS
<1>9. Picked(n, O, a, t)
  BY <1>1, <1>8, ToPicked
<1>10. n \in Nat
  BY <1>1
<1>11. h[n] = t[n]
  BY <1>7, <1>9, <1>10, PickedSame
<1> QED BY <1>1, <1>6, <1>8, <1>11 DEF Src
-----------------------------------------------------------------------------
(* The sources, as frames come and go.                                     *)

Pushed(w, v, f) == w = Append(v, f)

\* What is above frame k once f lies on top.
LEMMA SavedPush ==
  ASSUME NEW T, NEW v \in Seq(T), NEW f \in T, NEW s, NEW k \in 1..Len(v), NEW kinds,
         NEW w, Pushed(w, v, f)
  PROVE  Saved(w, s, k, kinds)
         = IF f.kind \in kinds THEN Saved(v, f, k, kinds) ELSE Saved(v, s, k, kinds)
<1>1. PICK n : n = Len(v) /\ n \in Nat
  BY LenProperties
<1>2. /\ w \in Seq(T) /\ Len(w) = n + 1 /\ w[n + 1] = f
      /\ \A j \in 1..n : w[j] = v[j]
      /\ DOMAIN v = 1..n /\ DOMAIN w = 1..(n + 1)
  BY <1>1, OnTop DEF Pushed
<1>3. PICK H, G : H = Higher(v, k, kinds) /\ G = Higher(w, k, kinds)
  OBVIOUS
<1>4. H \in SUBSET Nat /\ G \in SUBSET Nat /\ H \subseteq 1..n
  BY <1>1, <1>2, <1>3 DEF Higher
<1>5. G = IF f.kind \in kinds THEN H \cup {n + 1} ELSE H
  BY <1>1, <1>2, <1>3 DEF Higher
<1>6. H # {} => Min(H) \in H /\ \A j \in H : Min(H) <= j
  BY <1>4, MinIn
<1>7. CASE H = {} /\ f.kind \notin kinds
  BY <1>3, <1>5, <1>7 DEF Saved
<1>8. CASE H = {} /\ f.kind \in kinds
  <2>1. G = {n + 1}
    BY <1>5, <1>8
  <2>2. PICK m : m = n + 1 /\ m \in G /\ \A j \in G : m <= j
    BY <1>1, <2>1
  <2>3. Min(G) = m
    BY <1>4, <2>2, MinIs
  <2>4. Saved(w, s, k, kinds) = f
    BY <1>2, <1>3, <2>1, <2>2, <2>3 DEF Saved
  <2>5. Saved(v, f, k, kinds) = f
    BY <1>3, <1>8 DEF Saved
  <2> QED BY <1>8, <2>4, <2>5
<1>9. CASE H # {}
  <2>1. PICK m : m = Min(H)
    OBVIOUS
  <2>2. m \in H /\ m \in 1..n /\ \A j \in H : m <= j
    BY <1>4, <1>6, <1>9, <2>1
  <2>3. m \in G /\ \A j \in G : m <= j
    BY <1>1, <1>5, <2>2
  <2>4. Min(G) = m
    BY <1>4, <2>3, MinIs
  <2>5. Saved(w, s, k, kinds) = v[m]
    BY <1>2, <1>3, <2>2, <2>3, <2>4 DEF Saved
  <2>6. Saved(v, s, k, kinds) = v[m] /\ Saved(v, f, k, kinds) = v[m]
    BY <1>3, <1>9, <2>1 DEF Saved
  <2> QED BY <2>5, <2>6
<1> QED BY <1>7, <1>8, <1>9

\* Nothing is above the topmost frame.
LEMMA SavedTop ==
  ASSUME NEW T, NEW v \in Seq(T), NEW s, NEW kinds, NEW k, k = Len(v)
  PROVE  Saved(v, s, k, kinds) = s
<1>1. Higher(v, k, kinds) = {}
  BY LenProperties DEF Higher
<1> QED BY <1>1 DEF Saved

\* What is above frame k is a frame or the fields.
LEMMA SavedWhere ==
  ASSUME NEW T, NEW v \in Seq(T), NEW s, NEW k \in Nat, NEW kinds
  PROVE  \/ /\ \A j \in 1..Len(v) : j > k => v[j].kind \notin kinds
            /\ Saved(v, s, k, kinds) = s
         \/ \E m \in 1..Len(v) : m > k /\ v[m].kind \in kinds
                                 /\ \A r : Saved(v, r, k, kinds) = v[m]
<1>1. PICK H : H = Higher(v, k, kinds)
  OBVIOUS
<1>2. DOMAIN v = 1..Len(v) /\ Len(v) \in Nat
  BY LenProperties
<1>3. H \in SUBSET Nat /\ \A j \in H : j \in 1..Len(v) /\ j > k /\ v[j].kind \in kinds
  BY <1>1, <1>2 DEF Higher
<1>4. CASE H = {}
  BY <1>1, <1>2, <1>4 DEF Higher, Saved
<1>5. CASE H # {}
  <2>1. PICK m : m = Min(H)
    OBVIOUS
  <2>2. m \in H
    BY <1>3, <1>5, <2>1, MinIn
  <2>3. \A r : Saved(v, r, k, kinds) = v[m]
    BY <1>1, <1>5, <2>1 DEF Saved
  <2> QED BY <1>3, <2>2, <2>3
<1> QED BY <1>4, <1>5

\* The fields a frame sees that lies under f.
Under(f, s) ==
  [buf |-> f.buf, cur |-> f.cur,
   lines |-> IF f.kind = "include" THEN f.lines ELSE s.lines,
   pos |-> IF f.kind = "include" THEN f.pos ELSE s.pos]

\* Two fields that agree on what is read of them.
LEMMA AtSame ==
  ASSUME NEW T, NEW v \in Seq(T), NEW s, NEW r, NEW k \in Nat,
         s.buf = r.buf \/ ~IsRead(v, k), s.cur = r.cur \/ ~IsRead(v, k),
         s.lines = r.lines, s.pos = r.pos
  PROVE  At(v, s, k) = At(v, r, k)
<1>1. /\ Saved(v, s, k, Including).lines = Saved(v, r, k, Including).lines
      /\ Saved(v, s, k, Including).pos = Saved(v, r, k, Including).pos
  BY SavedWhere DEF Saved
<1>2. IsRead(v, k) => /\ Saved(v, s, k, Saving).buf = Saved(v, r, k, Saving).buf
                      /\ Saved(v, s, k, Saving).cur = Saved(v, r, k, Saving).cur
  BY DEF Saved
<1> QED BY <1>1, <1>2 DEF At, FileAt, NextAt, TextAt, PosAt

\* A CATCH changes no source.
LEMMA AtUnderCatch ==
  ASSUME NEW T, NEW v \in Seq(T), NEW f \in T, NEW s, NEW k \in 1..Len(v),
         NEW w, Pushed(w, v, f), f.kind = "catch"
  PROVE  At(w, s, k) = At(v, s, k)
<1>1. PICK n : n = Len(v) /\ n \in Nat
  BY LenProperties
<1>2. /\ Len(w) = n + 1 /\ w[n + 1] = f /\ \A j \in 1..n : w[j] = v[j]
  BY <1>1, OnTop DEF Pushed
<1>3. ASSUME NEW kinds, f.kind \notin kinds
      PROVE  Saved(w, s, k, kinds) = Saved(v, s, k, kinds)
  <2>1. Saved(w, s, k, kinds)
        = IF f.kind \in kinds THEN Saved(v, f, k, kinds) ELSE Saved(v, s, k, kinds)
    BY SavedPush
  <2> QED BY <1>3, <2>1
<1>4. Saved(w, s, k, Saving) = Saved(v, s, k, Saving)
      /\ Saved(w, s, k, Including) = Saved(v, s, k, Including)
  BY <1>3 DEF Saving, Including
<1>5. IsRead(w, k) <=> IsRead(v, k)
  BY <1>1, <1>2 DEF IsRead
<1>6. IsRead(v, k) => w[k + 1] = v[k + 1]
  BY <1>1, <1>2 DEF IsRead
<1>7. w[k] = v[k]
  BY <1>1, <1>2
<1> QED BY <1>4, <1>5, <1>6, <1>7 DEF At, FileAt, NextAt, TextAt, PosAt

\* A line is read from the frame below it and changes no other.
LEMMA AtUnderLine ==
  ASSUME NEW T, NEW v \in Seq(T), NEW f \in T, NEW s, NEW k \in 1..Len(v),
         NEW w, Pushed(w, v, f), f.kind = "line"
  PROVE  /\ k < Len(v) => At(w, s, k) = At(v, s, k)
         /\ k = Len(v) =>
              /\ At(w, s, k) = [file |-> FileAt(v, s, k),
                                text |-> IF f.busy THEN s.buf ELSE f.toks,
                                pos |-> IF f.busy THEN s.cur ELSE f.i,
                                next |-> NextAt(v, s, k)]
              /\ At(v, s, k) = [file |-> FileAt(v, s, k), text |-> None, pos |-> 0,
                                next |-> NextAt(v, s, k)]
<1>1. PICK n : n = Len(v) /\ n \in Nat
  BY LenProperties
<1>2. /\ Len(w) = n + 1 /\ w[n + 1] = f /\ \A j \in 1..n : w[j] = v[j]
  BY <1>1, OnTop DEF Pushed
<1>3. ASSUME NEW kinds, f.kind \notin kinds
      PROVE  Saved(w, s, k, kinds) = Saved(v, s, k, kinds)
  <2>1. Saved(w, s, k, kinds)
        = IF f.kind \in kinds THEN Saved(v, f, k, kinds) ELSE Saved(v, s, k, kinds)
    BY SavedPush
  <2> QED BY <1>3, <2>1
<1>4. Saved(w, s, k, Saving) = Saved(v, s, k, Saving)
      /\ Saved(w, s, k, Including) = Saved(v, s, k, Including)
  BY <1>3 DEF Saving, Including
<1>5. w[k] = v[k]
  BY <1>1, <1>2
<1>6. FileAt(w, s, k) = FileAt(v, s, k) /\ NextAt(w, s, k) = NextAt(v, s, k)
  BY <1>4, <1>5 DEF FileAt, NextAt
<1>7. ASSUME k < Len(v) PROVE At(w, s, k) = At(v, s, k)
  <2>1. (IsRead(w, k) <=> IsRead(v, k)) /\ w[k + 1] = v[k + 1]
    BY <1>1, <1>2, <1>7 DEF IsRead
  <2> QED BY <1>4, <1>6, <2>1 DEF At, TextAt, PosAt
<1>8. ASSUME k = Len(v)
      PROVE  /\ At(w, s, k) = [file |-> FileAt(v, s, k),
                                text |-> IF f.busy THEN s.buf ELSE f.toks,
                                pos |-> IF f.busy THEN s.cur ELSE f.i,
                                next |-> NextAt(v, s, k)]
              /\ At(v, s, k) = [file |-> FileAt(v, s, k), text |-> None, pos |-> 0,
                                next |-> NextAt(v, s, k)]
  <2>1. IsRead(w, k) /\ ~IsRead(v, k) /\ w[k + 1] = f
    BY <1>1, <1>2, <1>8 DEF IsRead
  <2>2. Saved(v, s, k, Saving) = s
    BY <1>8, SavedTop
  <2> QED BY <1>4, <1>6, <2>1, <2>2 DEF At, TextAt, PosAt
<1> QED BY <1>7, <1>8

\* The frames up to k open the same sources in w as in v.
Agree(w, s, v, r, k) == \A j \in 1..k : j \in Openers(v) => At(w, s, j) = At(v, r, j)

\* EVALUATE and INCLUDED: the sources below are as their frame has saved them.
LEMMA AtUnderSaving ==
  ASSUME NEW T, NEW v \in Seq(T), NEW f \in T, NEW s, NEW w, Pushed(w, v, f),
         f.kind \in Saving, NEW n, n = Len(v)
  PROVE  /\ Agree(w, s, v, Under(f, s), n)
         /\ At(w, s, n + 1) =
              [file |-> IF f.kind = "include" THEN s.lines ELSE None, text |-> None,
               pos |-> 0, next |-> IF f.kind = "include" THEN s.pos + 1 ELSE 1]
<1>1. n = Len(v) /\ n \in Nat
  BY LenProperties
<1>2. /\ w \in Seq(T) /\ Len(w) = n + 1 /\ w[n + 1] = f /\ \A j \in 1..n : w[j] = v[j]
  BY <1>1, OnTop DEF Pushed
<1>3. ASSUME NEW k \in 1..n
      PROVE  At(w, s, k) = At(v, Under(f, s), k)
  <2>1. PICK u : u = Under(f, s)
    OBVIOUS
  <2>2. u.buf = f.buf /\ u.cur = f.cur
        /\ u.lines = (IF f.kind = "include" THEN f.lines ELSE s.lines)
        /\ u.pos = (IF f.kind = "include" THEN f.pos ELSE s.pos)
    BY <2>1 DEF Under
  <2>3. ASSUME NEW kinds
        PROVE  Saved(w, s, k, kinds)
               = IF f.kind \in kinds THEN Saved(v, f, k, kinds) ELSE Saved(v, s, k, kinds)
    <3>1. k \in 1..Len(v)
      BY <1>1, <1>3
    <3> QED BY <3>1, SavedPush
  <2>4. Saved(w, s, k, Saving) = Saved(v, f, k, Saving)
    BY <2>3
  <2>5. /\ Saved(w, s, k, Saving).buf = Saved(v, u, k, Saving).buf
        /\ Saved(w, s, k, Saving).cur = Saved(v, u, k, Saving).cur
    BY <2>2, <2>4 DEF Saved
  <2>6. Saved(w, s, k, Including)
          = IF f.kind = "include" THEN Saved(v, f, k, Including) ELSE Saved(v, s, k, Including)
    BY <2>3 DEF Including
  <2>7. /\ Saved(w, s, k, Including).lines = Saved(v, u, k, Including).lines
        /\ Saved(w, s, k, Including).pos = Saved(v, u, k, Including).pos
    BY <2>2, <2>6 DEF Saved
  <2>8. IsRead(w, k) <=> IsRead(v, k)
    BY <1>1, <1>2 DEF IsRead, Saving
  <2>9. IsRead(v, k) => w[k + 1] = v[k + 1]
    BY <1>1, <1>2 DEF IsRead
  <2>10. w[k] = v[k]
    BY <1>2
  <2>11. At(w, s, k) = At(v, u, k)
    BY <2>5, <2>7, <2>8, <2>9, <2>10 DEF At, FileAt, NextAt, TextAt, PosAt
  <2> QED BY <2>1, <2>11
<1>4. PICK k : k = n + 1
  OBVIOUS
<1>5. k = Len(w) /\ w[k] = f /\ ~IsRead(w, k)
  BY <1>1, <1>2, <1>4 DEF IsRead
<1>6. Saved(w, s, k, Including) = s
  <2>1. PICK G : G = Including
    OBVIOUS
  <2>2. Saved(w, s, k, G) = s
    BY <1>2, <1>5, SavedTop
  <2> QED BY <2>1, <2>2
<1>7. At(w, s, k) = [file |-> IF f.kind = "include" THEN s.lines ELSE None, text |-> None,
                     pos |-> 0, next |-> IF f.kind = "include" THEN s.pos + 1 ELSE 1]
  BY <1>5, <1>6 DEF At, FileAt, NextAt, TextAt, PosAt, Saving
<1> QED BY <1>1, <1>3, <1>4, <1>7 DEF Agree
-----------------------------------------------------------------------------
(* What the sources are.                                                   *)

Places == [file : Known \cup {None}, text : Texts, pos : 0..LineLen, next : Nat]

\* Fields, or what is saved of them.
Sound(s) == s.buf \in Texts /\ s.cur \in 0..LineLen /\ s.lines \in Known /\ s.pos \in Nat

LEMMA SavedSound ==
  ASSUME NEW f \in PyFrames, f.kind \in Saving
  PROVE  Sound(f)
BY FrameIs DEF Saving, SavedFrames, Sound

LEMMA SavedIsSound ==
  ASSUME NEW v \in Seq(PyFrames), NEW s, Sound(s), NEW k \in Nat, NEW kinds,
         kinds \subseteq Saving
  PROVE  Sound(Saved(v, s, k, kinds))
<1>1. CASE Saved(v, s, k, kinds) = s
  BY <1>1
<1>2. CASE \E m \in 1..Len(v) : m > k /\ v[m].kind \in kinds
                               /\ \A r : Saved(v, r, k, kinds) = v[m]
  <2>1. PICK m \in 1..Len(v) : v[m].kind \in kinds /\ Saved(v, s, k, kinds) = v[m]
    BY <1>2
  <2>2. v[m] \in PyFrames /\ v[m].kind \in Saving
    BY <2>1
  <2> QED BY <2>1, <2>2, SavedSound
<1> QED BY <1>1, <1>2, SavedWhere

LEMMA AtTyped ==
  ASSUME NEW v \in Seq(PyFrames), NEW s, Sound(s), NEW k \in Openers(v)
  PROVE  At(v, s, k) \in Places
<1>1. k \in 1..Len(v) /\ k \in Nat /\ v[k].kind \in Openings /\ v[k] \in PyFrames
      /\ Len(v) \in Nat
  BY LenProperties DEF Openers
<1>2. \A kinds : kinds \subseteq Saving => Sound(Saved(v, s, k, kinds))
  BY <1>1, SavedIsSound
<1>3. Sound(Saved(v, s, k, Saving)) /\ Sound(Saved(v, s, k, Including))
  BY <1>2 DEF Saving, Including
<1>4. FileAt(v, s, k) \in Known \cup {None} /\ NextAt(v, s, k) \in Nat
  <2>1. CASE v[k].kind = "main"
    BY <1>1, <2>1, FrameIs DEF FileAt, NextAt, Known, MainFrames
  <2>2. CASE v[k].kind = "evaluate"
    BY <2>2 DEF FileAt, NextAt
  <2>3. CASE v[k].kind = "include"
    BY <1>3, <2>3 DEF FileAt, NextAt, Sound
  <2> QED BY <1>1, <2>1, <2>2, <2>3 DEF Openings
<1>5. TextAt(v, s, k) \in Texts /\ PosAt(v, s, k) \in 0..LineLen
  <2>1. CASE ~IsRead(v, k)
    BY <2>1, Sizes DEF TextAt, PosAt, Texts
  <2>2. CASE IsRead(v, k)
    <3>1. v[k + 1] \in PyFrames /\ v[k + 1].kind = "line"
      BY <1>1, <2>2 DEF IsRead
    <3>2. v[k + 1] \in LineFrames
      BY <3>1, FrameIs
    <3> QED BY <1>3, <2>2, <3>2 DEF TextAt, PosAt, Sound, LineFrames
  <2> QED BY <2>1, <2>2
<1> QED BY <1>4, <1>5 DEF At, Places

LEMMA SrcTyped ==
  ASSUME NEW v \in Seq(PyFrames), NEW s, Sound(s), NEW k \in 0..Len(v)
  PROVE  To(v, s)[k] \in Seq(Places)
<1>1. PICK n, O, a, g : n = Len(v) /\ O = Openers(v) /\ a = Row(v, s) /\ g = To(v, s)
  OBVIOUS
<1>2. n \in Nat /\ k \in 0..n /\ Picked(n, O, a, g)
  BY <1>1, LenProperties, ToPicked
<1>3. \A j \in 1..n : j \in O => a[j] \in Places
  BY <1>1, AtTyped DEF Row, Openers
<1>4. g[k] \in Seq(Places)
  BY <1>2, <1>3, PickedPlaces DEF Standing
<1> QED BY <1>1, <1>4

\* A frame more: the sources up to the one below it depend on what they were.
LEMMA ToPush ==
  ASSUME NEW v \in Seq(PyFrames), NEW f \in PyFrames, NEW s, NEW r,
         NEW k \in 0..Len(v), NEW w, Pushed(w, v, f), Agree(w, s, v, r, k)
  PROVE  To(w, s)[k] = To(v, r)[k]
<1>0. PICK n : n = Len(v) /\ n \in Nat
  BY LenProperties
<1>1. /\ Len(w) = n + 1 /\ w[n + 1] = f /\ \A j \in 1..n : w[j] = v[j]
      /\ n \in Nat /\ k \in 0..n /\ n = Len(v)
  BY <1>0, OnTop DEF Pushed
<1>2. PICK m, O, P, a, b, g, h :
        /\ m = n + 1 /\ O = Openers(v) /\ P = Openers(w)
        /\ a = Row(v, r) /\ b = Row(w, s) /\ g = To(v, r) /\ h = To(w, s)
  OBVIOUS
<1>3. Picked(n, O, a, g) /\ Picked(m, P, b, h) /\ m \in Nat
  BY <1>1, <1>2, ToPicked
<1>4. \A j \in 1..k : j \in O <=> j \in P
  BY <1>1, <1>2 DEF Openers
<1>5. \A j \in 1..k : j \in O => a[j] = b[j]
  BY <1>1, <1>2 DEF Row, Agree
<1>6. k \in Nat /\ k <= n /\ k <= m
  BY <1>1, <1>2
<1>7. g[k] = h[k]
  BY <1>1, <1>3, <1>4, <1>5, <1>6, PickedSame
<1> QED BY <1>2, <1>7

LEMMA ToStep ==
  ASSUME NEW v \in Seq(PyFrames), NEW s, NEW n \in 1..Len(v)
  PROVE  To(v, s)[n] = IF n \in Openers(v) THEN Append(To(v, s)[n - 1], At(v, s, n))
                       ELSE To(v, s)[n - 1]
<1>1. PICK m, O, a, g : m = Len(v) /\ O = Openers(v) /\ a = Row(v, s) /\ g = To(v, s)
  OBVIOUS
<1>2. m \in Nat /\ n \in 1..m /\ Picked(m, O, a, g)
  BY <1>1, LenProperties, ToPicked
<1>3. \A k \in 1..m : g[k] = IF k \in O THEN Append(g[k - 1], a[k]) ELSE g[k - 1]
  BY <1>2, ListSteps
<1>4. a[n] = At(v, s, n)
  BY <1>1, <1>2 DEF Row
<1>5. g[n] = IF n \in O THEN Append(g[n - 1], a[n]) ELSE g[n - 1]
  BY <1>2, <1>3
<1> QED BY <1>1, <1>4, <1>5

LEMMA SrcCatch ==
  ASSUME NEW v \in Seq(PyFrames), NEW f \in PyFrames, f.kind = "catch", NEW s,
         NEW w, Pushed(w, v, f)
  PROVE  Src(w, s) = Src(v, s)
<1>1. PICK n : n = Len(v) /\ n \in Nat
  BY LenProperties
<1>2. /\ w \in Seq(PyFrames) /\ Len(w) = n + 1 /\ w[n + 1] = f
      /\ \A j \in 1..n : w[j] = v[j]
  BY <1>1, OnTop DEF Pushed
<1>3. \A j \in 1..n : At(w, s, j) = At(v, s, j)
  BY <1>1, AtUnderCatch
<1>4. n \in 0..Len(v) /\ Agree(w, s, v, s, n)
  BY <1>1, <1>3 DEF Agree
<1>5. To(w, s)[n] = To(v, s)[n]
  BY <1>4, ToPush
<1>6. n + 1 \in 1..Len(w) /\ n + 1 \notin Openers(w)
  BY <1>1, <1>2 DEF Openers, Openings
<1>7. PICK m : m = n + 1
  OBVIOUS
<1>8. To(w, s)[m] = To(w, s)[m - 1]
  BY <1>2, <1>6, <1>7, ToStep
<1>9. m - 1 = n
  BY <1>1, <1>7
<1> QED BY <1>1, <1>2, <1>5, <1>7, <1>8, <1>9 DEF Src

LEMMA SrcSaving ==
  ASSUME NEW v \in Seq(PyFrames), NEW f \in PyFrames, f.kind \in Saving, NEW s,
         NEW w, Pushed(w, v, f)
  PROVE  Src(w, s) = Append(Src(v, Under(f, s)),
                            [file |-> IF f.kind = "include" THEN s.lines ELSE None,
                             text |-> None, pos |-> 0,
                             next |-> IF f.kind = "include" THEN s.pos + 1 ELSE 1])
<1>1. PICK n : n = Len(v) /\ n \in Nat
  BY LenProperties
<1>2. /\ w \in Seq(PyFrames) /\ Len(w) = n + 1 /\ w[n + 1] = f
      /\ \A j \in 1..n : w[j] = v[j]
  BY <1>1, OnTop DEF Pushed
<1>3. PICK u, m : u = Under(f, s) /\ m = n + 1
  OBVIOUS
<1>4. Agree(w, s, v, Under(f, s), n)
  BY <1>1, AtUnderSaving
<1>5. n \in 0..Len(v) /\ Agree(w, s, v, u, n)
  BY <1>1, <1>3, <1>4
<1>6. To(w, s)[n] = To(v, u)[n]
  BY <1>5, ToPush
<1>7. m \in 1..Len(w) /\ m \in Openers(w) /\ m - 1 = n
  BY <1>1, <1>2, <1>3 DEF Openers, Openings, Saving
<1>8. To(w, s)[m] = Append(To(w, s)[m - 1], At(w, s, m))
  BY <1>2, <1>7, ToStep
<1>9. At(w, s, m) = [file |-> IF f.kind = "include" THEN s.lines ELSE None, text |-> None,
                     pos |-> 0, next |-> IF f.kind = "include" THEN s.pos + 1 ELSE 1]
  BY <1>1, <1>3, AtUnderSaving
<1> QED BY <1>1, <1>2, <1>3, <1>6, <1>7, <1>8, <1>9 DEF Src
-----------------------------------------------------------------------------
(* The innermost source.                                                   *)

\* What frame k sees of s is what it sees of r.
Fixed(v, k, s, r) ==
  \/ s.lines = r.lines /\ s.pos = r.pos
  \/ Higher(v, k, Including) # {}
  \/ v[k].kind # "include"

\* A source below another does not see where the innermost one is read.
LEMMA AtBelow ==
  ASSUME NEW v, Shape(v), NEW s, NEW r, NEW n \in Openers(v), NEW k \in Openers(v), k < n,
         Fixed(v, k, s, r)
  PROVE  At(v, s, k) = At(v, r, k)
<1>1. v \in Seq(PyFrames) /\ Len(v) \in Nat /\ k \in 1..Len(v) /\ n \in 1..Len(v)
      /\ k \in Nat /\ n \in Nat /\ DOMAIN v = 1..Len(v)
  BY LenProperties DEF Shape, Openers
<1>2. v[n].kind \in Saving
  <2>1. n # 1
    BY <1>1
  <2>2. v[n].kind # "main" /\ v[n].kind \in Openings
    BY <1>1, <2>1 DEF Shape, Openers
  <2> QED BY <2>2 DEF Openings, Saving
<1>3. Saved(v, s, k, Saving) = Saved(v, r, k, Saving)
  <2>1. n \in Higher(v, k, Saving)
    BY <1>1, <1>2 DEF Higher
  <2> QED BY <2>1 DEF Saved
<1>4. v[k].kind = "include" =>
        /\ Saved(v, s, k, Including).lines = Saved(v, r, k, Including).lines
        /\ Saved(v, s, k, Including).pos = Saved(v, r, k, Including).pos
  BY DEF Fixed, Saved
<1>5. FileAt(v, s, k) = FileAt(v, r, k) /\ NextAt(v, s, k) = NextAt(v, r, k)
  BY <1>4 DEF FileAt, NextAt
<1>6. TextAt(v, s, k) = TextAt(v, r, k) /\ PosAt(v, s, k) = PosAt(v, r, k)
  BY <1>3 DEF TextAt, PosAt
<1> QED BY <1>5, <1>6 DEF At

LEMMA ToSame ==
  ASSUME NEW v, Shape(v), NEW s, NEW r, NEW n \in Openers(v),
         (s.lines = r.lines /\ s.pos = r.pos) \/ v[n].kind = "include"
  PROVE  To(v, s)[n - 1] = To(v, r)[n - 1]
<1>1. v \in Seq(PyFrames) /\ Len(v) \in Nat /\ n \in 1..Len(v) /\ DOMAIN v = 1..Len(v)
  BY LenProperties DEF Shape, Openers
<1>2. ASSUME NEW k \in 1..(n - 1), k \in Openers(v)
      PROVE  At(v, s, k) = At(v, r, k)
  <2>1. k < n
    BY <1>1
  <2>2. v[n].kind = "include" => n \in Higher(v, k, Including)
    BY <1>1, <2>1 DEF Higher, Including
  <2>3. Fixed(v, k, s, r)
    BY <2>2 DEF Fixed
  <2> QED BY <1>2, <2>1, <2>3, AtBelow
<1>3. PICK c, O, a, b, g, h : /\ c = Len(v) /\ O = Openers(v)
                              /\ a = Row(v, s) /\ b = Row(v, r)
                              /\ g = To(v, s) /\ h = To(v, r)
  OBVIOUS
<1>4. Picked(c, O, a, g) /\ Picked(c, O, b, h) /\ c \in Nat
  BY <1>1, <1>3, ToPicked
<1>5. PICK k : k = n - 1 /\ k \in Nat /\ k <= c
  BY <1>1, <1>3
<1>6. \A j \in 1..k : j \in O => a[j] = b[j]
  BY <1>1, <1>2, <1>3, <1>5 DEF Row
<1>7. g[k] = h[k]
  BY <1>4, <1>5, <1>6, PickedSame
<1> QED BY <1>3, <1>5, <1>7

FileOf(g, s) ==
  IF g.kind = "main" THEN Main ELSE IF g.kind = "evaluate" THEN None ELSE s.lines
NextOf(g, s) ==
  IF g.kind = "main" THEN g.pos + 1 ELSE IF g.kind = "evaluate" THEN 1 ELSE s.pos + 1

\* A source between two lines, and one that is read by the line f.
Unread(file, next) == [file |-> file, text |-> None, pos |-> 0, next |-> next]
Current(file, next, f, s) ==
  [file |-> file, text |-> IF f.busy THEN s.buf ELSE f.toks,
   pos |-> IF f.busy THEN s.cur ELSE f.i, next |-> next]
Inner(v, n, s) ==
  IF IsRead(v, n) THEN Current(FileOf(v[n], s), NextOf(v[n], s), v[n + 1], s)
  ELSE Unread(FileOf(v[n], s), NextOf(v[n], s))

\* The innermost source is opened by the last frame that opens one.
LEMMA SrcInner ==
  ASSUME NEW v, Shape(v), NEW n \in Openers(v), \A j \in Openers(v) : j <= n, NEW s
  PROVE  Src(v, s) = Append(To(v, s)[n - 1], Inner(v, n, s))
<1>1. v \in Seq(PyFrames) /\ Len(v) \in Nat /\ n \in 1..Len(v) /\ DOMAIN v = 1..Len(v)
      /\ v[n].kind \in Openings
  BY LenProperties DEF Shape, Openers
<1>2. Higher(v, n, Saving) = {} /\ Higher(v, n, Including) = {}
  BY <1>1 DEF Higher, Saving, Including, Openers, Openings
<1>3. Saved(v, s, n, Saving) = s /\ Saved(v, s, n, Including) = s
  BY <1>2 DEF Saved
<1>4. FileAt(v, s, n) = FileOf(v[n], s) /\ NextAt(v, s, n) = NextOf(v[n], s)
  BY <1>1, <1>3 DEF FileAt, NextAt, FileOf, NextOf, Openings
<1>5. At(v, s, n) = Inner(v, n, s)
  BY <1>3, <1>4 DEF At, TextAt, PosAt, Inner, Current, Unread
<1>6. To(v, s)[n] = Append(To(v, s)[n - 1], At(v, s, n))
  BY <1>1, ToStep
<1>7. PICK c, O, a, g : c = Len(v) /\ O = Openers(v) /\ a = Row(v, s) /\ g = To(v, s)
  OBVIOUS
<1>8. Picked(c, O, a, g) /\ c \in Nat /\ n \in 0..c
  BY <1>1, <1>7, ToPicked
<1>9. \A j \in 1..c : n < j => j \notin O
  BY <1>1, <1>7
<1>10. g[c] = g[n]
  BY <1>8, <1>9, PickedLast
<1> QED BY <1>5, <1>6, <1>7, <1>10 DEF Src

\* B are the sources below the one that g opens, the topmost frame of u.
Sees(g, s, r) == g.kind = "include" \/ (s.lines = r.lines /\ s.pos = r.pos)
On(B, u, g, s) ==
  /\ g.kind = "main" => B = <<>>
  /\ \A r : Sees(g, s, r) =>
       /\ Sound(r) => B \in Seq(Places)
       /\ Src(u, r) = Append(B, Unread(FileOf(g, r), NextOf(g, r)))
       /\ \A f \in LineFrames : \A w : Shape(w) /\ Pushed(w, u, f) =>
            Src(w, r) = Append(B, Current(FileOf(g, r), NextOf(g, r), f, r))

\* A frame that opens a source, and a line above it.
LEMMA SrcLine ==
  ASSUME NEW u, Shape(u), NEW g, g = Last(u), g.kind \in Openings, NEW s
  PROVE  \E B : On(B, u, g, s)
<1>1. PICK n : n = Len(u) /\ n \in Nat
  BY LenProperties DEF Shape
<1>2. u \in Seq(PyFrames) /\ n > 0 /\ u[n] = g /\ n \in Openers(u) /\ n \in 1..Len(u)
  <2>1. u \in Seq(PyFrames) /\ u # <<>>
    BY DEF Shape
  <2>2. n > 0 /\ u[n] = g
    BY <1>1, <2>1, Topmost
  <2> QED BY <1>1, <2>1, <2>2 DEF Openers
<1>3. PICK B, c : B = To(u, s)[c] /\ c = n - 1 /\ c \in 0..Len(u)
  BY <1>1, <1>2
<1>4. g.kind = "main" => B = <<>>
  <2>1. g.kind = "main" => c = 0
    BY <1>1, <1>2, <1>3 DEF Shape
  <2>2. To(u, s)[0] = <<>>
    BY <1>1, ToPicked, ListSteps
  <2> QED BY <1>3, <2>1, <2>2
<1>5. ASSUME NEW r, Sees(g, s, r)
      PROVE  /\ Sound(r) => B \in Seq(Places)
             /\ Src(u, r) = Append(B, Unread(FileOf(g, r), NextOf(g, r)))
             /\ \A f \in LineFrames : \A w : Shape(w) /\ Pushed(w, u, f) =>
                  Src(w, r) = Append(B, Current(FileOf(g, r), NextOf(g, r), f, r))
  <2>1. B = To(u, r)[c]
    BY <1>2, <1>3, <1>5, ToSame DEF Sees
  <2>2. Sound(r) => B \in Seq(Places)
    BY <1>2, <1>3, <2>1, SrcTyped
  <2>3. ~IsRead(u, n)
    BY <1>1 DEF IsRead
  <2>4. \A j \in Openers(u) : j <= n
    BY <1>1 DEF Openers
  <2>5. Src(u, r) = Append(B, Unread(FileOf(g, r), NextOf(g, r)))
    BY <1>2, <1>3, <2>1, <2>3, <2>4, SrcInner DEF Inner
  <2>6. ASSUME NEW f \in LineFrames, NEW w, Shape(w), Pushed(w, u, f)
        PROVE  Src(w, r) = Append(B, Current(FileOf(g, r), NextOf(g, r), f, r))
    <3>1. f \in PyFrames /\ f.kind = "line"
      BY DEF PyFrames, LineFrames
    <3>2. /\ w \in Seq(PyFrames) /\ Len(w) = n + 1 /\ w[n + 1] = f
          /\ \A j \in 1..n : w[j] = u[j]
      BY <1>1, <1>2, <2>6, <3>1, OnTop DEF Pushed
    <3>3. \A j \in 1..c : At(w, r, j) = At(u, r, j)
      <4>1. \A j \in 1..c : j \in 1..Len(u) /\ j < Len(u)
        BY <1>1, <1>3
      <4>2. \A j \in 1..Len(u) : j < Len(u) => At(w, r, j) = At(u, r, j)
        BY <1>2, <2>6, <3>1, AtUnderLine
      <4> QED BY <4>1, <4>2
    <3>4. Agree(w, r, u, r, c)
      BY <3>3 DEF Agree
    <3>5. To(w, r)[c] = B
      BY <1>2, <1>3, <2>1, <2>6, <3>1, <3>4, ToPush
    <3>6. n \in Openers(w) /\ \A j \in Openers(w) : j <= n
      BY <1>1, <1>2, <3>1, <3>2 DEF Openers, Openings
    <3>7. Src(w, r) = Append(To(w, r)[n - 1], Inner(w, n, r))
      BY <2>6, <3>6, SrcInner
    <3>8. IsRead(w, n) /\ w[n] = g /\ w[n + 1] = f
      BY <1>1, <1>2, <3>1, <3>2 DEF IsRead
    <3> QED BY <1>3, <3>5, <3>7, <3>8 DEF Inner
  <2> QED BY <2>2, <2>5, <2>6
<1> QED BY <1>4, <1>5 DEF On
-----------------------------------------------------------------------------
(* How frames lie on one another.                                          *)

\* A line lies on the frame whose text it is read from; EVALUATE and CATCH are
\* begun in a word, INCLUDED in a word or on the line itself.
Fits(f, g) ==
  /\ f.kind = "line" => g.kind \in Openings
  /\ f.kind \in {"catch", "evaluate"} => g.kind = "catch" \/ (g.kind = "line" /\ g.busy)
  /\ f.kind = "include" =>
       \/ g.kind = "catch"
       \/ g.kind = "line" /\ (g.busy \/ f.buf = g.toks)

\* A line has a text, and EVALUATE and INCLUDED are called on one.
HasText(f) ==
  /\ f.kind = "line" => f.toks # None
  /\ f.kind \in Saving => f.buf # None

\* No file is open below the outermost INCLUDED.
Outermost(v, k, lines) ==
  (\A j \in 1..(k - 1) : v[j].kind # "include") => lines = NoFile

Orderly(v) ==
  \A k \in 1..Len(v) :
    /\ HasText(v[k])
    /\ k > 1 => Fits(v[k], v[k - 1])
    /\ v[k].kind = "include" => Outermost(v, k, v[k].lines)

\* The line that goes on is the one that is being read.
Reads(f, text) ==
  /\ f.kind # "main" => text # None
  /\ f.kind = "line" /\ ~f.busy => f.toks = text

Ordered(v, text, lines) ==
  Orderly(v) /\ Reads(Last(v), text) /\ Outermost(v, Len(v) + 1, lines)

LEMMA OrderlyPush ==
  ASSUME NEW v, Shape(v), Orderly(v), NEW f \in PyFrames, HasText(f), Fits(f, Last(v)),
         f.kind = "include" => Outermost(v, Len(v) + 1, f.lines),
         NEW w, Pushed(w, v, f)
  PROVE  Orderly(w) /\ Last(w) = f
<1>1. PICK n : n = Len(v) /\ n \in Nat
  BY LenProperties DEF Shape
<1>2. v \in Seq(PyFrames) /\ v # <<>>
  BY DEF Shape
<1>3. n > 0 /\ Last(v) = v[n]
  BY <1>1, <1>2, Topmost
<1>4. /\ w \in Seq(PyFrames) /\ w # <<>> /\ Len(w) = n + 1 /\ w[n + 1] = f
      /\ \A k \in 1..n : w[k] = v[k]
  BY <1>1, <1>2, OnTop DEF Pushed
<1>5. Last(w) = f
  BY <1>1, <1>4, Topmost
<1>6. ASSUME NEW k \in 1..(n + 1)
      PROVE  /\ HasText(w[k])
             /\ k > 1 => Fits(w[k], w[k - 1])
             /\ w[k].kind = "include" => Outermost(w, k, w[k].lines)
  <2>1. CASE k \in 1..n
    <3>1. k > 1 => k - 1 \in 1..n
      BY <1>1, <2>1
    <3>2. /\ HasText(v[k])
          /\ k > 1 => Fits(v[k], v[k - 1])
          /\ v[k].kind = "include" => Outermost(v, k, v[k].lines)
      BY <1>1, <2>1 DEF Orderly
    <3>3. w[k] = v[k] /\ (k > 1 => w[k - 1] = v[k - 1])
      BY <1>4, <2>1, <3>1
    <3>4. \A j \in 1..(k - 1) : w[j] = v[j]
      BY <1>1, <1>4, <2>1
    <3> QED BY <3>2, <3>3, <3>4 DEF Outermost
  <2>2. CASE k = n + 1
    <3>1. w[k] = f /\ w[k - 1] = Last(v)
      BY <1>1, <1>3, <1>4, <2>2
    <3>2. \A j \in 1..(k - 1) : w[j] = v[j]
      BY <1>1, <1>4, <2>2
    <3> QED BY <1>1, <2>2, <3>1, <3>2 DEF Outermost
  <2> QED BY <1>1, <2>1, <2>2
<1> QED BY <1>4, <1>5, <1>6 DEF Orderly

LEMMA OrderlyPop ==
  ASSUME NEW v, Shape(v), Orderly(v), Last(v).kind # "main"
  PROVE  /\ Orderly(Front(v)) /\ Fits(Last(v), Last(Front(v))) /\ HasText(Last(v))
         /\ Pushed(v, Front(v), Last(v))
         /\ \A lines : Outermost(v, Len(v) + 1, lines) =>
              IF Last(v).kind = "include" THEN Outermost(Front(v), Len(v), Last(v).lines)
              ELSE Outermost(Front(v), Len(v), lines)
<1>1. PICK w, n : w = Front(v) /\ n = Len(v) /\ n \in Nat
  BY LenProperties DEF Shape
<1>2. v \in Seq(PyFrames) /\ v # <<>>
  BY DEF Shape
<1>3. n > 1 /\ n \in Nat /\ Shape(w) /\ Len(w) = n - 1
  BY <1>1, ShapePop
<1>4. /\ w \in Seq(PyFrames) /\ w # <<>>
      /\ \A k \in 1..(n - 1) : w[k] = v[k]
      /\ Last(v) = v[n] /\ v[n] \in PyFrames
  BY <1>1, <1>2, <1>3, Topmost DEF Shape
<1>5. Last(w) = v[n - 1]
  <2>1. Last(w) = w[Len(w)]
    BY <1>4, Topmost
  <2> QED BY <1>3, <1>4, <2>1
<1>6. ASSUME NEW k \in 1..n
      PROVE  /\ HasText(v[k])
             /\ k > 1 => Fits(v[k], v[k - 1])
             /\ v[k].kind = "include" => Outermost(v, k, v[k].lines)
  BY <1>1, <1>6 DEF Orderly
<1>7. ASSUME NEW k \in 1..(n - 1)
      PROVE  /\ HasText(w[k])
             /\ k > 1 => Fits(w[k], w[k - 1])
             /\ w[k].kind = "include" => Outermost(w, k, w[k].lines)
  <2>1. k \in 1..n /\ w[k] = v[k] /\ (k > 1 => w[k - 1] = v[k - 1])
    BY <1>3, <1>4
  <2>2. \A j \in 1..(k - 1) : w[j] = v[j]
    BY <1>3, <1>4
  <2> QED BY <1>6, <2>1, <2>2 DEF Outermost
<1>8. Orderly(w)
  BY <1>3, <1>7 DEF Orderly
<1>9. Fits(v[n], v[n - 1]) /\ HasText(v[n])
  BY <1>3, <1>6
<1>10. Pushed(v, w, v[n])
  <2>1. PICK f : f = v[n]
    OBVIOUS
  <2>2. PICK u : u = Append(w, f)
    OBVIOUS
  <2>3. /\ u \in Seq(PyFrames) /\ Len(u) = n /\ u[n] = f
        /\ \A k \in 1..(n - 1) : u[k] = v[k]
    BY <1>3, <1>4, <2>1, <2>2, OnTop
  <2>4. \A k \in 1..n : u[k] = v[k]
    BY <1>3, <2>1, <2>3
  <2>5. u = v
    BY <1>1, <1>2, <2>3, <2>4, SeqEqual
  <2> QED BY <2>1, <2>2, <2>5 DEF Pushed
<1>11. ASSUME NEW lines, Outermost(v, n + 1, lines)
       PROVE  /\ Last(v).kind = "include" => Outermost(w, n, Last(v).lines)
              /\ Last(v).kind # "include" => Outermost(w, n, lines)
  <2>1. ASSUME Last(v).kind = "include" PROVE Outermost(w, n, Last(v).lines)
    <3>1. Outermost(v, n, v[n].lines)
      BY <1>3, <1>4, <1>6, <2>1
    <3> QED BY <1>4, <2>1, <3>1 DEF Outermost
  <2>2. ASSUME Last(v).kind # "include" PROVE Outermost(w, n, lines)
    <3>1. \A j \in 1..((n + 1) - 1) : j \in 1..(n - 1) \/ j = n
      BY <1>3
    <3>2. (\A j \in 1..(n - 1) : w[j].kind # "include")
          => \A j \in 1..((n + 1) - 1) : v[j].kind # "include"
      BY <1>4, <2>2, <3>1
    <3> QED BY <1>11, <3>2 DEF Outermost
  <2> QED BY <2>1, <2>2
<1>12. Orderly(w) /\ Fits(Last(v), Last(w)) /\ HasText(Last(v)) /\ Pushed(v, w, Last(v))
  BY <1>4, <1>5, <1>8, <1>9, <1>10
<1>13. \A lines : Outermost(v, Len(v) + 1, lines) =>
           IF Last(v).kind = "include" THEN Outermost(w, Len(v), Last(v).lines)
           ELSE Outermost(w, Len(v), lines)
  BY <1>1, <1>11
<1> QED BY <1>1, <1>12, <1>13

LEMMA OutermostPush ==
  ASSUME NEW T, NEW v \in Seq(T), NEW f \in T, NEW w, Pushed(w, v, f), NEW lines,
         f.kind = "include" \/ Outermost(v, Len(v) + 1, lines)
  PROVE  Outermost(w, Len(w) + 1, lines)
<1>1. PICK n : n = Len(v) /\ n \in Nat
  BY LenProperties
<1>2. /\ Len(w) = n + 1 /\ w[n + 1] = f /\ \A k \in 1..n : w[k] = v[k]
  BY <1>1, OnTop DEF Pushed
<1>3. SUFFICES ASSUME \A j \in 1..((n + 1 + 1) - 1) : w[j].kind # "include"
               PROVE  lines = NoFile
  BY <1>2 DEF Outermost
<1>4. \A j \in 1..(n + 1) : w[j].kind # "include"
  BY <1>1, <1>3
<1>5. f.kind # "include"
  BY <1>1, <1>2, <1>4
<1>6. \A j \in 1..((n + 1) - 1) : v[j].kind # "include"
  BY <1>1, <1>2, <1>4
<1>7. Outermost(v, n + 1, lines)
  BY <1>1, <1>5
<1> QED BY <1>6, <1>7 DEF Outermost

LEMMA OrderedPush ==
  ASSUME NEW v, Shape(v), NEW text, NEW lines, Ordered(v, text, lines),
         NEW f \in PyFrames, HasText(f), Fits(f, Last(v)), NEW w, Pushed(w, v, f),
         NEW now, Reads(f, now), NEW file,
         IF f.kind = "include" THEN f.lines = lines ELSE file = lines
  PROVE  Ordered(w, now, file)
<1>1. Orderly(v) /\ Outermost(v, Len(v) + 1, lines) /\ v \in Seq(PyFrames)
  BY DEF Ordered, Shape
<1>2. f.kind = "include" => Outermost(v, Len(v) + 1, f.lines)
  BY <1>1
<1>3. Orderly(w) /\ Last(w) = f
  BY <1>1, <1>2, OrderlyPush
<1>4. f.kind = "include" \/ Outermost(v, Len(v) + 1, file)
  BY <1>1
<1>5. Outermost(w, Len(w) + 1, file)
  BY <1>1, <1>4, OutermostPush
<1> QED BY <1>3, <1>5 DEF Ordered

LEMMA OrderedPop ==
  ASSUME NEW v, Shape(v), NEW text, NEW lines, Ordered(v, text, lines),
         Last(v).kind # "main", NEW now, Reads(Last(Front(v)), now), NEW file,
         file = IF Last(v).kind = "include" THEN Last(v).lines ELSE lines
  PROVE  Ordered(Front(v), now, file)
<1>1. Orderly(v) /\ Outermost(v, Len(v) + 1, lines)
  BY DEF Ordered
<1>2. /\ Orderly(Front(v))
      /\ IF Last(v).kind = "include" THEN Outermost(Front(v), Len(v), Last(v).lines)
         ELSE Outermost(Front(v), Len(v), lines)
  BY <1>1, OrderlyPop
<1>3. PICK u : u = Front(v)
  OBVIOUS
<1>4. Outermost(u, Len(v), file)
  BY <1>2, <1>3
<1>5. Len(v) = Len(u) + 1
  BY <1>3, ShapePop
<1>6. Orderly(u) /\ Outermost(u, Len(u) + 1, file)
  BY <1>2, <1>3, <1>4, <1>5
<1> QED BY <1>3, <1>6 DEF Ordered

Placed == Left \/ Ordered(py, toks, include_lines)
RKept == Kept /\ Placed

\* The sources of the mapping.
Mapped == Len(py) \in Nat => sources = IF Left THEN <<>> ELSE Src(py, Here)

LEMMA SourcesAre == Mapped
BY SourcesToIs DEF Mapped, sources, Left

LEMMA SourcesNext == Mapped'
BY SourcesAre, PTL

-----------------------------------------------------------------------------
(* The steps of InputSource, of the innermost source.                      *)

LEMMA EndOf ==
  ASSUME NEW T, NEW B \in Seq(T), NEW r \in T, NEW s, Pushed(s, B, r)
  PROVE  /\ s \in Seq(T) /\ s # <<>> /\ Last(s) = r /\ Front(s) = B
         /\ Len(B) \in Nat /\ Len(s) = Len(B) + 1 /\ s[Len(s)] = r
         /\ \A x \in T : [s EXCEPT ![Len(s)] = x] = Append(B, x)
<1>1. PICK n : n = Len(B) /\ n \in Nat
  BY LenProperties
<1>2. /\ s \in Seq(T) /\ s # <<>> /\ Len(s) = n + 1 /\ s[n + 1] = r
      /\ \A k \in 1..n : s[k] = B[k]
  BY <1>1, OnTop DEF Pushed
<1>3. Last(s) = r
  BY <1>1, <1>2, Topmost
<1>4. Front(s) = B
  <2>1. PICK u : u = Front(s)
    OBVIOUS
  <2>2. u \in Seq(T) /\ Len(u) = n /\ \A k \in 1..n : u[k] = s[k]
    <3>1. u \in Seq(T) /\ Len(u) = Len(s) - 1 /\ \A k \in 1..(Len(s) - 1) : u[k] = s[k]
      BY <1>2, <2>1, Topmost
    <3> QED BY <1>1, <1>2, <3>1
  <2>3. u = B
    BY <1>1, <1>2, <2>2, SeqEqual
  <2> QED BY <2>1, <2>3
<1>5. ASSUME NEW x \in T
      PROVE  [s EXCEPT ![n + 1] = x] = Append(B, x)
  <2>1. PICK a, b : a = [s EXCEPT ![n + 1] = x] /\ b = Append(B, x)
    OBVIOUS
  <2>2. /\ b \in Seq(T) /\ Len(b) = n + 1 /\ b[n + 1] = x
        /\ \A k \in 1..n : b[k] = B[k]
    BY <1>1, <2>1, OnTop
  <2>3. /\ a \in Seq(T) /\ Len(a) = n + 1 /\ a[n + 1] = x
        /\ \A k \in 1..n : a[k] = s[k]
    BY <1>1, <1>2, <2>1
  <2>4. \A k \in 1..(n + 1) : a[k] = b[k]
    BY <1>1, <1>2, <2>2, <2>3
  <2>5. a = b
    BY <1>1, <2>2, <2>3, <2>4, SeqEqual
  <2> QED BY <2>1, <2>5
<1> QED BY <1>1, <1>2, <1>3, <1>4, <1>5

\* The innermost source is r, and is x after the step.
Step(B, r, x) ==
  B \in Seq(Places) /\ r \in Places /\ x \in Places
  /\ Pushed(sources, B, r) /\ Pushed(sources', B, x)

LEMMA StepIs ==
  ASSUME NEW B, NEW r, NEW x, Step(B, r, x)
  PROVE  /\ sources # <<>> /\ IS!Top = r /\ IS!SetTop(x)
         /\ r.text # None => IS!InLine
<1>1. /\ sources # <<>> /\ Last(sources) = r
      /\ [sources EXCEPT ![Len(sources)] = x] = Append(B, x)
  BY EndOf DEF Step
<1>2. sources' = Append(B, x)
  BY DEF Step, Pushed
<1> QED BY <1>1, <1>2 DEF IS!Top, IS!SetTop, IS!InLine, IS!Last, Last

LEMMA IsReadToken ==
  ASSUME NEW B, NEW r, NEW x, Step(B, r, x), r.text # None, r.pos < LineLen,
         x = [r EXCEPT !.pos = @ + 1], got' = Token(r.text, r.pos)
  PROVE  IS!Next
<1>1. IS!Read
  BY StepIs DEF IS!Read, IS!Token, Token
<1> QED BY <1>1 DEF IS!Next

LEMMA IsReadNothing ==
  ASSUME NEW B, NEW r, Step(B, r, r), r.text # None, ~(r.pos < LineLen), got' = Nothing
  PROVE  IS!Next
<1>1. IS!InLine /\ IS!Top = r
  BY StepIs
<1>2. sources' = sources
  BY DEF Step, Pushed
<1>3. r.pos \in 0..LineLen /\ LineLen \in Nat
  BY Sizes DEF Step, Places
<1>4. IS!ReadNothing
  BY <1>1, <1>2, <1>3 DEF IS!ReadNothing, IS!Nothing, Nothing
<1> QED BY <1>4 DEF IS!Next

LEMMA IsSeek ==
  ASSUME NEW B, NEW r, NEW x, Step(B, r, x), r.text # None, NEW k \in 0..LineLen,
         x = [r EXCEPT !.pos = k], got' = Nothing
  PROVE  IS!Next
<1>1. IS!Seek(k)
  BY StepIs DEF IS!Seek, IS!Nothing, Nothing
<1> QED BY <1>1 DEF IS!Next

LEMMA IsEndLine ==
  ASSUME NEW B, NEW r, NEW x, Step(B, r, x), r.text # None,
         x = [r EXCEPT !.text = None, !.pos = 0],
         \/ got' = Abandoned
         \/ got' = Nothing /\ r.pos >= LineLen
  PROVE  IS!Next
<1>1. IS!EndLine \/ IS!Abandon
  BY StepIs DEF IS!EndLine, IS!Abandon, IS!Nothing, Nothing, IS!Abandoned, Abandoned
<1> QED BY <1>1 DEF IS!Next

LEMMA IsNextLine ==
  ASSUME NEW B, NEW r, NEW x, Step(B, r, x), r.text = None, r.file # None,
         r.next <= FileLen[r.file],
         x = [r EXCEPT !.text = Line(r.file, r.next), !.next = @ + 1], got' = Nothing
  PROVE  IS!Next
<1>1. IS!NextLine
  BY StepIs DEF IS!NextLine, IS!Nothing, Nothing, IS!Line, Line
<1> QED BY <1>1 DEF IS!Next

\* A source is opened on the innermost one, and closed.
Opened(B, r, x) ==
  B \in Seq(Places) /\ r \in Places /\ x \in Places
  /\ Pushed(sources, B, r) /\ Pushed(sources', sources, x)

LEMMA IsOpened ==
  ASSUME NEW B, NEW r, NEW x, Opened(B, r, x), r.text # None, got' = Nothing,
         \/ \E text \in String : x = IS!Source(None, text)
         \/ \E file \in File : x = IS!Source(file, None)
  PROVE  IS!Next
<1>1. IS!InLine
  <2>1. sources # <<>> /\ Last(sources) = r
    BY EndOf DEF Opened
  <2> QED BY <2>1 DEF IS!InLine, IS!Top, IS!Last, Last
<1>2. sources' = Append(sources, x)
  BY DEF Opened, Pushed
<1>3. CASE \E text \in String : x = IS!Source(None, text)
  <2>1. \E text \in String : IS!Evaluate(text)
    BY <1>1, <1>2, <1>3 DEF IS!Evaluate, IS!Nothing, Nothing
  <2> QED BY <2>1 DEF IS!Next
<1>4. CASE \E file \in File : x = IS!Source(file, None)
  <2>1. \E file \in File : IS!Include(file)
    BY <1>1, <1>2, <1>4 DEF IS!Include, IS!Nothing, Nothing
  <2> QED BY <2>1 DEF IS!Next
<1> QED BY <1>3, <1>4

Advanced(x, r) == x = [r EXCEPT !.pos = @ + 1]

LEMMA IsIncludeNamed ==
  ASSUME NEW B \in Seq(Places), NEW r \in Places, NEW x \in Places, NEW v, NEW file \in File,
         Pushed(sources, B, r), Pushed(v, B, x), Pushed(sources', v, IS!Source(file, None)),
         r.text # None, r.pos < LineLen, Advanced(x, r),
         got' = Token(r.text, r.pos)
  PROVE  IS!Next
<1>1. /\ sources # <<>> /\ Last(sources) = r /\ sources[Len(sources)] = r
      /\ [sources EXCEPT ![Len(sources)] = x] = Append(B, x)
  BY EndOf
<1>2. v = [sources EXCEPT ![Len(sources)].pos = @ + 1]
  <2>1. v = [sources EXCEPT ![Len(sources)] = x]
    BY <1>1 DEF Pushed
  <2> QED BY <1>1, <2>1 DEF Advanced
<1>3. sources' = Append([sources EXCEPT ![Len(sources)].pos = @ + 1], IS!Source(file, None))
  BY <1>2 DEF Pushed
<1>4. IS!IncludeNamed(file)
  BY <1>1, <1>3 DEF IS!IncludeNamed, IS!InLine, IS!Top, IS!Last, Last, IS!Token, Token
<1> QED BY <1>4 DEF IS!Next

LEMMA IsClose ==
  ASSUME NEW B \in Seq(Places), B # <<>>, NEW r \in Places, Pushed(sources, B, r),
         r.text = None, r.file # None => r.next > FileLen[r.file],
         sources' = B, got' = Nothing
  PROVE  IS!Next
<1>1. Len(sources) = Len(B) + 1 /\ Len(B) \in Nat /\ Last(sources) = r /\ Front(sources) = B
  BY EndOf
<1>2. Len(sources) > 1
  BY <1>1, EmptySeq
<1>3. IS!Close
  BY <1>1, <1>2 DEF IS!Close, IS!Top, IS!Last, Last, IS!Front, Front, IS!Nothing,
                     Nothing
<1> QED BY <1>3 DEF IS!Next

LEMMA IsUncaught ==
  ASSUME sources # <<>>, sources' = <<>>, got' = Nothing
  PROVE  IS!Next
<1>1. IS!Uncaught
  BY DEF IS!Uncaught, IS!Nothing, Nothing
<1> QED BY <1>1 DEF IS!Next
-----------------------------------------------------------------------------
(* The innermost source of the interpreter.                                *)

LEMMA FileNext ==
  ASSUME NEW g \in PyFrames, g.kind \in Openings, NEW s, Sound(s)
  PROVE  FileOf(g, s) \in Known \cup {None} /\ NextOf(g, s) \in Nat
<1>1. CASE g.kind = "main"
  BY <1>1, FrameIs DEF FileOf, NextOf, Known, MainFrames
<1>2. CASE g.kind = "evaluate"
  BY <1>2 DEF FileOf, NextOf
<1>3. CASE g.kind = "include"
  BY <1>3 DEF FileOf, NextOf, Sound
<1> QED BY <1>1, <1>2, <1>3 DEF Openings

\* A word runs on a line: nothing but the CATCHes it has begun lie above it.
LEMMA WordOn ==
  ASSUME NEW v, Shape(v), Orderly(v),
         Last(v).kind = "catch" \/ (Last(v).kind = "line" /\ Last(v).busy)
  PROVE  \E n \in Openers(v) :
           /\ n < Len(v) /\ v[n + 1].kind = "line" /\ v[n + 1].busy
           /\ \A j \in Openers(v) : j <= n
<1>1. PICK c : c = Len(v) /\ c \in Nat
  BY LenProperties DEF Shape
<1>2. v \in Seq(PyFrames) /\ v # <<>>
  BY DEF Shape
<1>3. c > 0 /\ Last(v) = v[c]
  BY <1>1, <1>2, Topmost
<1> DEFINE D == {d \in Nat : d < c /\ v[c - d].kind # "catch"}
<1>4. c - 1 \in D
  <2>1. v[1].kind = "main" /\ c - (c - 1) = 1
    BY <1>1, <1>3 DEF Shape
  <2> QED BY <1>1, <1>3, <2>1
<1>5. PICK d \in D : \A k \in D : d <= k
  <2>1. D \in SUBSET Nat /\ D # {}
    BY <1>4
  <2> HIDE DEF D
  <2> QED BY <2>1, LeastNatural
<1>6. PICK m : m = c - d
  OBVIOUS
<1>7. m \in 1..c /\ v[m].kind # "catch" /\ d \in Nat /\ c \in Nat
  BY <1>1, <1>5, <1>6
<1>8. ASSUME NEW j \in 1..c, j > m
      PROVE  v[j].kind = "catch"
  <2>1. c - j \in Nat /\ c - j < d
    BY <1>6, <1>7, <1>8
  <2>2. PICK e : e = c - j
    OBVIOUS
  <2>3. e \in Nat /\ e < c /\ c - e = j /\ ~(d <= e)
    BY <1>6, <1>7, <1>8, <2>1, <2>2
  <2>4. e \notin D
    <3> HIDE DEF D
    <3> QED BY <1>5, <2>3
  <2>5. v[c - e].kind = "catch"
    BY <2>3, <2>4
  <2> QED BY <2>3, <2>5
<1>9. v[m].kind = "line" /\ v[m].busy
  <2>1. CASE m = c
    BY <1>3, <1>7, <2>1
  <2>2. CASE m # c
    <3>1. PICK j : j = m + 1
      OBVIOUS
    <3>2. j \in 1..c /\ j > m /\ j > 1 /\ j - 1 = m
      BY <1>7, <2>2, <3>1
    <3>3. v[j].kind = "catch"
      BY <1>8, <3>2
    <3>4. Fits(v[j], v[j - 1])
      BY <1>1, <3>2 DEF Orderly
    <3> QED BY <3>2, <3>3, <3>4, <1>7 DEF Fits
  <2> QED BY <2>1, <2>2
<1>10. m > 1
  BY <1>1, <1>7, <1>9 DEF Shape
<1>11. PICK n : n = m - 1
  OBVIOUS
<1>12. n \in 1..c /\ n < c /\ m = n + 1 /\ n \in Nat
  BY <1>7, <1>10, <1>11
<1>13. v[n].kind \in Openings
  <2>1. Fits(v[m], v[m - 1])
    BY <1>1, <1>7, <1>10 DEF Orderly
  <2> QED BY <1>9, <1>11, <2>1 DEF Fits
<1>14. n \in Openers(v)
  BY <1>1, <1>12, <1>13 DEF Openers
<1>15. ASSUME NEW j \in Openers(v)
       PROVE  j <= n
  <2>1. j \in 1..c /\ v[j].kind \in Openings
    BY <1>1 DEF Openers
  <2>2. j # m
    BY <1>9, <2>1 DEF Openings
  <2>3. ~(j > m)
    BY <1>8, <2>1 DEF Openings
  <2> QED BY <1>7, <1>12, <2>1, <2>2, <2>3
<1> QED BY <1>1, <1>9, <1>12, <1>14, <1>15

Place(file, text, pos, next) == [file |-> file, text |-> text, pos |-> pos, next |-> next]

\* The word reads where the fields say.
LEMMA SrcWord ==
  ASSUME NEW v, Shape(v), Orderly(v), NEW s,
         Last(v).kind = "catch" \/ (Last(v).kind = "line" /\ Last(v).busy)
  PROVE  \E B, F, N :
           \A r : s.lines = r.lines /\ s.pos = r.pos =>
             /\ Sound(r) => B \in Seq(Places) /\ Place(F, r.buf, r.cur, N) \in Places
             /\ Pushed(Src(v, r), B, Place(F, r.buf, r.cur, N))
<1>1. PICK n \in Openers(v) : /\ n < Len(v) /\ v[n + 1].kind = "line" /\ v[n + 1].busy
                              /\ \A j \in Openers(v) : j <= n
  BY WordOn
<1>2. v \in Seq(PyFrames) /\ n \in 1..Len(v) /\ Len(v) \in Nat /\ v[n] \in PyFrames
      /\ v[n].kind \in Openings
  BY LenProperties DEF Shape, Openers
<1>3. PICK B, F, N, c : B = To(v, s)[c] /\ c = n - 1 /\ c \in 0..Len(v)
                        /\ F = FileOf(v[n], s) /\ N = NextOf(v[n], s)
  BY <1>2
<1>4. ASSUME NEW r, s.lines = r.lines, s.pos = r.pos
      PROVE  /\ Sound(r) => B \in Seq(Places) /\ Place(F, r.buf, r.cur, N) \in Places
             /\ Pushed(Src(v, r), B, Place(F, r.buf, r.cur, N))
  <2>1. B = To(v, r)[n - 1]
    BY <1>3, <1>4, ToSame
  <2>2. F = FileOf(v[n], r) /\ N = NextOf(v[n], r)
    BY <1>3, <1>4 DEF FileOf, NextOf
  <2>3. Sound(r) => B \in Seq(Places)
    BY <1>2, <1>3, <2>1, SrcTyped
  <2>4. Sound(r) => Place(F, r.buf, r.cur, N) \in Places
    <3>1. Sound(r) => F \in Known \cup {None} /\ N \in Nat
      BY <1>2, <2>2, FileNext
    <3> QED BY <3>1 DEF Places, Place, Sound
  <2>5. Src(v, r) = Append(B, Inner(v, n, r))
    BY <1>1, <2>1, SrcInner
  <2>6. Inner(v, n, r) = Place(F, r.buf, r.cur, N)
    BY <1>1, <2>2 DEF Inner, IsRead, Current, Place
  <2> QED BY <2>3, <2>4, <2>5, <2>6 DEF Pushed
<1> QED BY <1>4
-----------------------------------------------------------------------------
(* Each step leaves the frames in order.                                   *)

LEMMA LineIsText ==
  ASSUME NEW f \in Known, NEW k \in Nat, k > 0, k <= FileLen[f]
  PROVE  Line(f, k) # None
<1>1. FileLen[NoFile] = 0
  BY ParameterAssumption
<1>2. f # NoFile
  BY <1>1
<1>3. f \in File \cup {Main} /\ FileLen[f] \in Nat
  BY <1>2, Sizes DEF Known
<1>4. k \in 1..FileLen[f]
  BY <1>3
<1> QED BY <1>3, <1>4, ParameterAssumption

\* Where nothing is thrown, or the THROW will be caught.
LEMMA OrderNow ==
  ASSUME RKept, ~Left
  PROVE  /\ Kept /\ Shape(py) /\ Ordered(py, toks, include_lines)
         /\ Orderly(py) /\ Reads(Top, toks) /\ Top \in PyFrames
BY AtTop DEF RKept, Placed, Kept, Ordered, Top

LEMMA CalmIs ==
  ASSUME RKept, Calm
  PROVE  ~Left /\ exc # "throw"
BY Sizes DEF Calm, Left

LEMMA PlacedSame ==
  ASSUME RKept, ~Left, UNCHANGED <<py, include_lines>>, Reads(Top, toks')
  PROVE  Placed'
BY OrderNow DEF Placed, Ordered, Top

\* A word takes from the line, or puts another in its place.
LEMMA PlacedWord ==
  ASSUME RKept, InWord, UNCHANGED <<py, include_lines>>, toks' # None
  PROVE  Placed'
<1>1. Calm
  BY DEF InWord
<1>2. ~Left
  BY <1>1, CalmIs
<1>3. Reads(Top, toks')
  BY DEF InWord, Reads
<1> QED BY <1>2, <1>3, PlacedSame

\* A frame goes on top.
LEMMA PlacedPush ==
  ASSUME RKept, ~Left, NEW f \in PyFrames, HasText(f), Fits(f, Top), py' = Append(py, f),
         Reads(f, toks'), IF f.kind = "include" THEN f.lines = include_lines
                          ELSE include_lines' = include_lines
  PROVE  Placed'
<1>1. Shape(py) /\ Ordered(py, toks, include_lines)
  BY OrderNow
<1>2. PICK v, w, text, lines, now, file :
        /\ v = py /\ w = py' /\ text = toks /\ lines = include_lines
        /\ now = toks' /\ file = include_lines'
  OBVIOUS
<1>3. Shape(v) /\ Ordered(v, text, lines) /\ Fits(f, Last(v)) /\ Pushed(w, v, f)
      /\ Reads(f, now) /\ IF f.kind = "include" THEN f.lines = lines ELSE file = lines
  BY <1>1, <1>2 DEF Top, Pushed
<1>4. Ordered(w, now, file)
  BY <1>3, OrderedPush
<1> QED BY <1>2, <1>4 DEF Placed

\* The topmost frame goes.
LEMMA PlacedPop ==
  ASSUME RKept, ~Left, Top.kind # "main", py' = Front(py),
         Reads(Last(Front(py)), toks'),
         include_lines' = IF Top.kind = "include" THEN Top.lines ELSE include_lines
  PROVE  Placed'
<1>1. Shape(py) /\ Ordered(py, toks, include_lines)
  BY OrderNow
<1>2. PICK v, text, lines, now, file :
        /\ v = py /\ text = toks /\ lines = include_lines
        /\ now = toks' /\ file = include_lines'
  OBVIOUS
<1>3. Shape(v) /\ Ordered(v, text, lines) /\ Last(v).kind # "main"
      /\ Reads(Last(Front(v)), now)
      /\ file = IF Last(v).kind = "include" THEN Last(v).lines ELSE lines
  BY <1>1, <1>2 DEF Top
<1>4. Ordered(Front(v), now, file)
  BY <1>3, OrderedPop
<1> QED BY <1>2, <1>4 DEF Placed

\* What lies under the topmost frame.
LEMMA UnderTop ==
  ASSUME RKept, ~Left, Top.kind # "main"
  PROVE  /\ Fits(Top, Last(Front(py))) /\ HasText(Top) /\ toks # None
         /\ Pushed(py, Front(py), Top) /\ Shape(Front(py)) /\ Orderly(Front(py))
         /\ Last(Front(py)) \in PyFrames
<1>1. Shape(py) /\ Orderly(py) /\ Reads(Top, toks)
  BY OrderNow
<1>2. toks # None
  BY <1>1 DEF Reads
<1>3. /\ Fits(Top, Last(Front(py))) /\ HasText(Top)
      /\ Pushed(py, Front(py), Top) /\ Shape(Front(py)) /\ Orderly(Front(py))
  BY <1>1, OrderlyPop, ShapePop DEF Top
<1>4. Last(Front(py)) \in PyFrames
  <2>1. Front(py) \in Seq(PyFrames) /\ Front(py) # <<>>
    BY <1>3 DEF Shape
  <2> QED BY <2>1, Topmost
<1> QED BY <1>2, <1>3, <1>4

\* The line goes on elsewhere, or a word of it begins.
LEMMA LineOrdered ==
  ASSUME RKept, ~Left, Top.kind = "line", NEW f \in LineFrames, f.toks # None,
         Reads(f, toks), NEW w, w = [py EXCEPT ![Len(py)] = f]
  PROVE  Shape(w) /\ Ordered(w, toks, include_lines) /\ Pushed(w, Front(py), f) /\ Last(w) = f
<1>1. Shape(py) /\ Ordered(py, toks, include_lines) /\ Nested(py, include_lines)
  BY OrderNow DEF Kept
<1>2. Shape(w)
  BY <1>1, LineSet DEF Top
<1>3. f \in PyFrames /\ f.kind = "line"
  BY DEF PyFrames, LineFrames
<1>4. Pushed(w, Front(py), f)
  BY <1>1, <1>3, TopSet DEF Top, Pushed
<1>5. PICK u, text, lines, now :
        u = Front(py) /\ text = toks /\ lines = include_lines /\ now = Top.toks
  OBVIOUS
<1>6. Fits(Top, Last(u)) /\ Shape(u) /\ Orderly(u)
  BY <1>5, UnderTop
<1>7. Fits(f, Last(u)) /\ HasText(f)
  BY <1>3, <1>6 DEF Fits, HasText, Saving
<1>8. Reads(Last(u), text)
  <2>1. text # None
    BY <1>5, UnderTop
  <2> QED BY <1>6, <2>1 DEF Reads, Fits, Openings
<1>9. Ordered(u, text, lines)
  BY <1>1, <1>5, <1>8, OrderedPop DEF Top
<1>10. Reads(f, text) /\ Pushed(w, u, f) /\ f.kind # "include"
  BY <1>3, <1>4, <1>5
<1>11. Ordered(w, text, lines)
  BY <1>3, <1>6, <1>7, <1>9, <1>10, OrderedPush
<1>12. Last(w) = f
  <2>1. w \in Seq(PyFrames) /\ u \in Seq(PyFrames) /\ w # <<>>
    BY <1>2, <1>6 DEF Shape
  <2> QED BY <1>3, <1>10, <2>1, EndOf
<1> QED BY <1>2, <1>4, <1>5, <1>11, <1>12

LEMMA PlacedLine ==
  ASSUME RKept, ~Left, Top.kind = "line", NEW f \in LineFrames, f.toks # None,
         Reads(f, toks), SetTop(f), UNCHANGED <<toks, include_lines>>
  PROVE  Placed'
<1>1. PICK w : w = py'
  OBVIOUS
<1>2. w = [py EXCEPT ![Len(py)] = f]
  BY <1>1 DEF SetTop
<1>3. Ordered(w, toks, include_lines)
  BY <1>2, LineOrdered
<1> QED BY <1>1, <1>3 DEF Placed

LEMMA MainLinePlaced == RKept /\ MainLine => Placed'
<1> SUFFICES ASSUME RKept, MainLine PROVE Placed'
  OBVIOUS
<1>1. Calm /\ ~Left /\ Top.kind = "main" /\ Top \in MainFrames /\ Len(py) = 1 /\ Kept
      /\ py[1] = Top /\ Top.pos < FileLen[Main]
  BY CalmIs, AtTop DEF MainLine, RKept
<1>2. PICK f, k : f = [Top EXCEPT !.pos = @ + 1] /\ k = Top.pos + 1
  OBVIOUS
<1>3. f \in MainFrames /\ f.kind = "main" /\ k \in Nat /\ k > 0
  BY <1>1, <1>2 DEF MainFrames
<1>4. Main \in Known /\ FileLen[Main] \in Nat
  BY Sizes DEF Known
<1>5. k <= FileLen[Main]
  BY <1>1, <1>2, <1>4 DEF MainFrames
<1>6. PICK text, g : text = Line(Main, k) /\ g = Reading(text)
  OBVIOUS
<1>7. text # None /\ text \in Texts
  BY <1>3, <1>4, <1>5, <1>6, LineIsText DEF Texts
<1>8. g \in LineFrames /\ g.kind = "line" /\ g.toks = text
  BY <1>1, <1>6, <1>7, NewFrames DEF Kept, LineFrames, Reading
<1>9. f \in PyFrames /\ g \in PyFrames
  BY <1>3, <1>8 DEF PyFrames
<1>10. PICK v, w : v = <<f>> /\ w = Append(v, g)
  OBVIOUS
<1>11. toks' = text /\ py' = w /\ include_lines' = include_lines
  BY <1>2, <1>6, <1>10 DEF MainLine, Begin
<1>12. v \in Seq(PyFrames) /\ v # <<>> /\ Len(v) = 1 /\ v[1] = f
  BY <1>9, <1>10
<1>13. Shape(v)
  BY <1>3, <1>12, Sizes DEF Shape, InFile
<1>14. Orderly(v)
  BY <1>3, <1>12 DEF Orderly, HasText, Saving
<1>15. Last(v) = f
  BY <1>12, Topmost
<1>16. Outermost(v, Len(v) + 1, include_lines)
  <2>1. Outermost(py, Len(py) + 1, include_lines)
    BY <1>1, OrderNow DEF Ordered
  <2>2. \A j \in 1..((Len(py) + 1) - 1) : py[j].kind # "include"
    BY <1>1
  <2>3. include_lines = NoFile
    BY <2>1, <2>2 DEF Outermost
  <2> QED BY <2>3 DEF Outermost
<1>17. Ordered(v, toks, include_lines)
  BY <1>3, <1>14, <1>15, <1>16 DEF Ordered, Reads
<1>18. Fits(g, Last(v)) /\ HasText(g) /\ Reads(g, text) /\ Pushed(w, v, g)
  BY <1>3, <1>7, <1>8, <1>10, <1>15 DEF Fits, HasText, Reads, Pushed, Openings, Saving
<1>19. PICK lines, old : lines = include_lines /\ old = toks
  OBVIOUS
<1>20. Ordered(w, text, lines)
  BY <1>8, <1>9, <1>13, <1>17, <1>18, <1>19, OrderedPush
<1> QED BY <1>11, <1>19, <1>20 DEF Placed

LEMMA RunWordPlaced == RKept /\ RunWord => Placed'
<1> SUFFICES ASSUME RKept, RunWord PROVE Placed'
  OBVIOUS
<1>1. Calm /\ ~Left /\ Top.kind = "line" /\ Top \in LineFrames /\ Kept
  BY CalmIs, AtTop DEF RunWord, AtLine, RKept
<1>2. PICK f : f = [Top EXCEPT !.i = @ + 1, !.busy = TRUE]
  OBVIOUS
<1>3. Top.i \in Nat /\ Top.i < LineLen
  BY <1>1, Sizes DEF RunWord, LineFrames
<1>4. Top.i + 1 \in 0..LineLen
  BY <1>3, Sizes
<1>5. PICK g : g = [Top EXCEPT !.i = @ + 1]
  OBVIOUS
<1>6. g \in LineFrames /\ g.toks = Top.toks /\ g.kind = "line"
  BY <1>1, <1>4, <1>5 DEF LineFrames
<1>7. f = [g EXCEPT !.busy = TRUE]
  BY <1>2, <1>5
<1>8. f \in LineFrames /\ f.toks = Top.toks /\ f.kind = "line" /\ f.busy
  BY <1>6, <1>7 DEF LineFrames
<1>9. Top.toks # None /\ toks # None
  BY <1>1, UnderTop DEF HasText
<1>10. Reads(f, toks) /\ SetTop(f) /\ UNCHANGED <<toks, include_lines>>
  BY <1>2, <1>8, <1>9 DEF Reads, RunWord
<1> QED BY <1>1, <1>8, <1>9, <1>10, PlacedLine

LEMMA HandlePlaced == RKept /\ Handle => Placed'
<1> SUFFICES ASSUME RKept, Handle PROVE Placed'
  OBVIOUS
<1>1. Calm /\ ~Left /\ Top.kind = "line" /\ ~Top.busy /\ Top \in LineFrames /\ Kept
  BY CalmIs, AtTop DEF Handle, AtLine, RKept
<1>2. PICK f : f = [Top EXCEPT !.i = @ + 1]
  OBVIOUS
<1>3. Top.i \in Nat /\ Top.i < LineLen
  BY <1>1, Sizes DEF Handle, LineFrames
<1>4. f \in LineFrames /\ f.toks = Top.toks /\ ~f.busy
  BY <1>1, <1>2, <1>3, Sizes DEF LineFrames
<1>5. Top.toks # None /\ toks # None /\ Reads(Top, toks)
  BY <1>1, UnderTop, OrderNow DEF HasText
<1>6. Reads(f, toks)
  BY <1>1, <1>4, <1>5 DEF Reads
<1>7. SetTop(f) /\ UNCHANGED <<toks, include_lines>>
  BY <1>2 DEF Handle, fields
<1> QED BY <1>1, <1>4, <1>5, <1>6, <1>7, PlacedLine

LEMMA WordEndsPlaced == RKept /\ WordEnds => Placed'
<1> SUFFICES ASSUME RKept, WordEnds PROVE Placed'
  OBVIOUS
<1>1. Calm /\ ~Left /\ Top.kind = "line" /\ Kept
  BY CalmIs DEF WordEnds, RKept
<1>2. PICK f : f = [kind |-> "line", toks |-> toks, i |-> to_in, busy |-> FALSE]
  OBVIOUS
<1>3. f \in LineFrames /\ f.toks = toks /\ toks # None
  BY <1>1, <1>2, UnderTop DEF Kept, Fields, LineFrames
<1>4. Reads(f, toks) /\ SetTop(f) /\ UNCHANGED <<toks, include_lines>>
  BY <1>2, <1>3 DEF Reads, WordEnds, fields
<1> QED BY <1>1, <1>3, <1>4, PlacedLine

\* A line ends, or a CATCH; the fields stay.
LEMMA ReturnPlaced ==
  ASSUME RKept, ~Left, Top.kind \in {"line", "catch"}, py' = Front(py), UNCHANGED fields
  PROVE  Placed'
<1>1. Fits(Top, Last(Front(py))) /\ toks # None
  BY UnderTop
<1>2. Reads(Last(Front(py)), toks')
  BY <1>1 DEF Reads, Fits, Openings, fields
<1> QED BY <1>2, PlacedPop DEF fields

LEMMA LineEndsPlaced == RKept /\ (LineEnds \/ QuitLine \/ CatchEnds) => Placed'
BY ReturnPlaced, CalmIs DEF LineEnds, QuitLine, CatchEnds, AtLine

LEMMA ParseNextTokenPlaced == RKept /\ ParseNextToken => Placed'
BY PlacedWord, UnderTop, CalmIs DEF ParseNextToken, InWord

LEMMA SetToInPlaced == ASSUME NEW k \in 0..LineLen PROVE RKept /\ SetToIn(k) => Placed'
BY PlacedWord, UnderTop, CalmIs DEF SetToIn, InWord

LEMMA RefillPlaced == RKept /\ Refill => Placed'
<1> SUFFICES ASSUME RKept, Refill PROVE Placed'
  OBVIOUS
<1>1. InWord /\ ~Left /\ Top.kind # "main" /\ Kept
  BY CalmIs DEF Refill, InWord, RKept
<1>2. include_pos \in Nat /\ include_lines \in Known /\ FileLen[include_lines] \in Nat
  BY <1>1, Sizes DEF Kept, Fields
<1>3. toks' # None
  <2>1. CASE include_pos < FileLen[include_lines]
    <3>1. PICK k : k = include_pos + 1
      OBVIOUS
    <3>2. k \in Nat /\ k > 0 /\ k <= FileLen[include_lines]
      BY <1>2, <2>1, <3>1
    <3>3. Line(include_lines, k) # None
      BY <1>2, <3>2, LineIsText
    <3> QED BY <2>1, <3>1, <3>3 DEF Refill
  <2>2. CASE ~(include_pos < FileLen[include_lines])
    BY <1>1, <2>2, UnderTop DEF Refill
  <2> QED BY <2>1, <2>2
<1> QED BY <1>1, <1>3, PlacedWord DEF Refill

LEMMA EvaluateEndsPlaced == RKept /\ EvaluateEnds => Placed'
<1> SUFFICES ASSUME RKept, EvaluateEnds PROVE Placed'
  OBVIOUS
<1>1. ~Left /\ Top.kind = "evaluate"
  BY CalmIs DEF EvaluateEnds
<1>2. Fits(Top, Last(Front(py))) /\ HasText(Top)
  BY <1>1, UnderTop
<1>3. Reads(Last(Front(py)), toks')
  BY <1>1, <1>2 DEF Reads, Fits, HasText, Saving, EvaluateEnds
<1> QED BY <1>1, <1>3, PlacedPop DEF EvaluateEnds

LEMMA IncludeEndsPlaced == RKept /\ IncludeEnds => Placed'
<1> SUFFICES ASSUME RKept, IncludeEnds PROVE Placed'
  OBVIOUS
<1>1. ~Left /\ Top.kind = "include"
  BY CalmIs DEF IncludeEnds
<1>2. Fits(Top, Last(Front(py))) /\ HasText(Top)
  BY <1>1, UnderTop
<1>3. Reads(Last(Front(py)), toks')
  BY <1>1, <1>2 DEF Reads, Fits, HasText, Saving, IncludeEnds
<1> QED BY <1>1, <1>3, PlacedPop DEF IncludeEnds

LEMMA CatchPlaced == RKept /\ Catch => Placed'
<1> SUFFICES ASSUME RKept, Catch PROVE Placed'
  OBVIOUS
<1>1. ~Left /\ Top.kind # "main" /\ InWord
  BY CalmIs DEF Catch, InWord
<1>2. PICK f : f = [kind |-> "catch"]
  OBVIOUS
<1>3. f \in PyFrames /\ f.kind = "catch"
  BY <1>2 DEF PyFrames, CatchFrames
<1>4. HasText(f) /\ Fits(f, Top) /\ Reads(f, toks)
  BY <1>1, <1>3, UnderTop DEF HasText, Saving, Fits, Reads, InWord
<1>5. py' = Append(py, f) /\ toks' = toks /\ include_lines' = include_lines
  BY <1>2 DEF Catch, fields
<1>6. Reads(f, toks')
  BY <1>4, <1>5
<1> QED BY <1>1, <1>3, <1>4, <1>5, <1>6, PlacedPush

LEMMA ThrowPlaced == RKept /\ (Throw \/ QuitWord) => Placed'
<1> SUFFICES ASSUME RKept, Throw \/ QuitWord PROVE Placed'
  OBVIOUS
<1>1. ~Left /\ UNCHANGED <<py, toks, include_lines>>
  BY CalmIs DEF Throw, QuitWord, InWord, AtLine, fields
<1> QED BY <1>1, OrderNow, PlacedSame

LEMMA LandPlaced == RKept /\ Land => Placed'
<1> SUFFICES ASSUME RKept, Land PROVE Placed'
  OBVIOUS
<1>1. Kept
  BY DEF RKept
<1>2. ~Left
  <2>1. CASE exc = "throw" /\ Top.kind = "catch"
    <3>1. Len(py) \in DOMAIN py /\ py[Len(py)].kind = "catch"
      BY <1>1, <2>1, AtTop
    <3> QED BY <3>1 DEF Left, Catches
  <2>2. CASE exc = "quit"
    BY <2>2 DEF Left
  <2> QED BY <2>1, <2>2 DEF Land
<1> QED BY <1>2, ReturnPlaced DEF Land

LEMMA CatchesPop ==
  ASSUME Kept, Catches = {}, py' = Front(py)
  PROVE  Catches' = {}
<1>1. PICK c, w : c = Len(py) /\ c \in Nat /\ w = Front(py)
  BY AtTop
<1>2. py \in Seq(PyFrames) /\ py # <<>>
  BY AtTop
<1>3. w \in Seq(PyFrames) /\ Len(w) = c - 1 /\ \A k \in 1..(c - 1) : w[k] = py[k]
  BY <1>1, <1>2, Topmost
<1>4. \A k \in DOMAIN w : w[k].kind # "catch"
  BY <1>1, <1>2, <1>3 DEF Catches
<1> QED BY <1>1, <1>4 DEF Catches

LEMMA PassOnPlaced == RKept /\ PassOn => Placed'
<1> SUFFICES ASSUME RKept, PassOn PROVE Placed'
  OBVIOUS
<1>1. CASE exc = "throw"
  <2>1. Kept /\ Catches = {}
    BY <1>1 DEF PassOn, RKept, Kept, Uncaught
  <2>2. Catches' = {}
    BY <2>1, CatchesPop DEF PassOn
  <2> QED BY <1>1, <2>2 DEF PassOn, Placed, Left
<1>2. CASE exc = "quit"
  <2>1. ~Left
    BY <1>2 DEF Left
  <2> QED BY <1>2, <2>1, ReturnPlaced DEF PassOn
<1> QED BY <1>1, <1>2 DEF PassOn

\* EVALUATE on what the word reads, and the line above it.
LEMMA EvaluateFrames ==
  ASSUME RKept, NEW text \in String, Evaluate(text)
  PROVE  \E f, g, u :
           /\ f = SavedHere("evaluate") /\ f \in PyFrames /\ f.kind = "evaluate"
           /\ g = Reading(text) /\ g \in LineFrames
           /\ Pushed(u, py, f) /\ Pushed(py', u, g) /\ Shape(u) /\ Last(u) = f
           /\ Ordered(u, toks, include_lines)
           /\ HasText(g) /\ Fits(g, f) /\ Reads(g, text)
<1>1. ~Left /\ Calm /\ InWord /\ Top.kind # "main" /\ Kept
  BY CalmIs DEF Evaluate, InWord, RKept
<1>2. text \in Texts /\ text # None
  BY ParameterAssumption DEF Texts
<1>3. PICK f, g, u : f = SavedHere("evaluate") /\ g = Reading(text) /\ u = Append(py, f)
  OBVIOUS
<1>4. f \in SavedFrames /\ g \in LineFrames /\ f.kind = "evaluate" /\ f.buf = toks
      /\ g.toks = text /\ g.kind = "line"
  BY <1>1, <1>2, <1>3, NewFrames DEF Kept, SavedHere, Reading
<1>5. f \in PyFrames /\ InFile(f)
  BY <1>1, <1>3, <1>4 DEF PyFrames, InFile, SavedHere, Kept, Fields
<1>6. Shape(py) /\ Ordered(py, toks, include_lines) /\ toks # None
  BY <1>1, OrderNow, UnderTop
<1>7. Len(py) < Depth
  BY <1>1, AtTop, Sizes DEF Evaluate, Room
<1>8. Shape(u)
  BY <1>3, <1>4, <1>5, <1>6, <1>7, ShapePush
<1>9. HasText(f) /\ Fits(f, Top) /\ Reads(f, toks)
  BY <1>1, <1>4, <1>6 DEF HasText, Saving, Fits, Reads, InWord
<1>10. Pushed(u, py, f) /\ Pushed(py', u, g)
  BY <1>3 DEF Pushed, Evaluate, Begin
<1>11. PICK v, lines, now : v = py /\ lines = include_lines /\ now = toks
  OBVIOUS
<1>12. Ordered(u, now, lines)
  <2>1. Shape(v) /\ Ordered(v, now, lines) /\ Fits(f, Last(v)) /\ Pushed(u, v, f)
        /\ Reads(f, now) /\ f.kind # "include"
    BY <1>4, <1>6, <1>9, <1>10, <1>11 DEF Top
  <2> QED BY <1>5, <1>9, <2>1, OrderedPush
<1>13. Last(u) = f
  <2>1. py \in Seq(PyFrames)
    BY <1>6 DEF Shape
  <2> QED BY <1>5, <1>10, <2>1, EndOf
<1>14. HasText(g) /\ Fits(g, f) /\ Reads(g, text)
  BY <1>2, <1>4 DEF HasText, Saving, Fits, Openings, Reads
<1> QED BY <1>3, <1>4, <1>5, <1>8, <1>10, <1>11, <1>12, <1>13, <1>14

LEMMA EvaluatePlaced == ASSUME NEW text \in String PROVE RKept /\ Evaluate(text) => Placed'
<1> SUFFICES ASSUME RKept, Evaluate(text) PROVE Placed'
  OBVIOUS
<1>1. PICK f, g, u :
           /\ f = SavedHere("evaluate") /\ f \in PyFrames /\ f.kind = "evaluate"
           /\ g = Reading(text) /\ g \in LineFrames
           /\ Pushed(u, py, f) /\ Pushed(py', u, g) /\ Shape(u) /\ Last(u) = f
           /\ Ordered(u, toks, include_lines)
           /\ HasText(g) /\ Fits(g, f) /\ Reads(g, text)
  BY EvaluateFrames
<1>2. toks' = text /\ include_lines' = include_lines
  BY DEF Evaluate, Begin
<1>3. g \in PyFrames /\ g.kind = "line"
  BY <1>1 DEF PyFrames, LineFrames
<1>4. PICK w, now, lines : w = py' /\ now = toks /\ lines = include_lines
  OBVIOUS
<1>5. Ordered(u, now, lines) /\ Pushed(w, u, g) /\ Fits(g, Last(u))
  BY <1>1, <1>4
<1>6. Ordered(w, text, lines)
  BY <1>1, <1>3, <1>5, OrderedPush
<1> QED BY <1>2, <1>4, <1>6 DEF Placed

\* _include_file, on a word or a line that is in order.
LEMMA OpenPlaced ==
  ASSUME RKept, ~Left, NEW file \in File, NEW v, Shape(v), Ordered(v, toks, include_lines),
         Last(v).kind \in {"line", "catch"}, Open(file, v)
  PROVE  /\ Placed'
         /\ \E f \in PyFrames : /\ f = [SavedHere("include") EXCEPT !.n = FileLen[file]]
                                /\ f.kind = "include" /\ Pushed(py', v, f)
<1>1. PICK f : f = [SavedHere("include") EXCEPT !.n = FileLen[file]]
  OBVIOUS
<1>2. Kept /\ FileLen[file] \in Nat
  BY Sizes DEF RKept, Known
<1>3. f \in SavedFrames /\ f.kind = "include" /\ f.buf = toks /\ f.lines = include_lines
  BY <1>1, <1>2 DEF Kept, Fields, SavedHere, SavedFrames
<1>4. f \in PyFrames
  BY <1>3 DEF PyFrames
<1>5. Reads(Last(v), toks)
  BY DEF Ordered
<1>6. HasText(f) /\ Fits(f, Last(v)) /\ Reads(f, toks)
  BY <1>3, <1>5 DEF HasText, Saving, Fits, Reads
<1>7. PICK w, now, lines, then : w = py' /\ now = toks /\ lines = include_lines
                                 /\ then = include_lines'
  OBVIOUS
<1>8. Pushed(w, v, f) /\ toks' = toks
  BY <1>1, <1>7 DEF Open, Pushed
<1>9. Ordered(v, now, lines) /\ Reads(f, now) /\ f.lines = lines
  BY <1>3, <1>6, <1>7
<1>10. Ordered(w, now, then)
  BY <1>3, <1>4, <1>6, <1>8, <1>9, OrderedPush
<1> QED BY <1>1, <1>3, <1>4, <1>7, <1>8, <1>10 DEF Placed

LEMMA IncludedPlaced == ASSUME NEW file \in File PROVE RKept /\ Included(file) => Placed'
<1> SUFFICES ASSUME RKept, Included(file) PROVE Placed'
  OBVIOUS
<1>1. ~Left /\ Top.kind \in {"line", "catch"} /\ Open(file, py)
  BY CalmIs DEF Included, InWord, AtLine
<1>2. PICK v : v = py
  OBVIOUS
<1>3. Shape(v) /\ Ordered(v, toks, include_lines) /\ Last(v).kind \in {"line", "catch"}
      /\ Open(file, v)
  BY <1>1, <1>2, OrderNow DEF Top
<1> QED BY <1>1, <1>3, OpenPlaced

\* The line goes past a token.
LEMMA Taken ==
  ASSUME RKept, AtLine, Top.i < LineLen
  PROVE  \E f : /\ f = [Top EXCEPT !.i = @ + 1] /\ f \in LineFrames /\ f.kind = "line"
                /\ ~f.busy /\ f.toks = Top.toks /\ f.i = Top.i + 1
                /\ f.toks = toks /\ f.toks # None /\ Reads(f, toks)
                /\ Top \in LineFrames /\ Top.toks = toks /\ Top.i \in Nat /\ ~Left
<1>1. Calm /\ ~Left /\ Top.kind = "line" /\ ~Top.busy /\ Top \in LineFrames /\ Kept
  BY CalmIs, AtTop DEF AtLine, RKept
<1>2. PICK f : f = [Top EXCEPT !.i = @ + 1]
  OBVIOUS
<1>3. Top.i \in Nat
  BY <1>1, Sizes DEF LineFrames
<1>4. f \in LineFrames /\ f.toks = Top.toks /\ ~f.busy /\ f.i = Top.i + 1 /\ f.kind = "line"
  BY <1>1, <1>2, <1>3, Sizes DEF LineFrames
<1>5. Top.toks # None /\ toks # None /\ Reads(Top, toks)
  BY <1>1, UnderTop, OrderNow DEF HasText
<1>6. Top.toks = toks
  BY <1>1, <1>5 DEF Reads
<1>7. Reads(f, toks)
  BY <1>4, <1>5, <1>6 DEF Reads
<1> QED BY <1>1, <1>2, <1>3, <1>4, <1>5, <1>6, <1>7

\* INCLUDE takes the name of its file.
LEMMA NameTaken ==
  ASSUME RKept, NEW file \in File, IncludeToken(file)
  PROVE  \E f, v :
           /\ f = [Top EXCEPT !.i = @ + 1] /\ f \in LineFrames
           /\ Shape(v) /\ Ordered(v, toks, include_lines) /\ Pushed(v, Front(py), f)
           /\ Last(v) = f /\ Open(file, v)
<1>1. AtLine /\ Top.i < LineLen
  BY DEF IncludeToken
<1>2. PICK f : /\ f = [Top EXCEPT !.i = @ + 1] /\ f \in LineFrames /\ f.toks # None
               /\ Reads(f, toks) /\ ~Left
  BY <1>1, Taken
<1>3. PICK v : v = [py EXCEPT ![Len(py)] = f]
  OBVIOUS
<1>4. Shape(v) /\ Ordered(v, toks, include_lines) /\ Pushed(v, Front(py), f) /\ Last(v) = f
  BY <1>1, <1>2, <1>3, LineOrdered DEF AtLine
<1>5. v = [py EXCEPT ![Len(py)].i = @ + 1]
  <2>1. Top = py[Len(py)] /\ py \in Seq(PyFrames) /\ py # <<>>
    BY AtTop DEF RKept
  <2> QED BY <1>2, <1>3, <2>1
<1>6. Open(file, v)
  BY <1>5 DEF IncludeToken
<1> QED BY <1>2, <1>4, <1>6

LEMMA IncludeTokenPlaced ==
  ASSUME NEW file \in File PROVE RKept /\ IncludeToken(file) => Placed'
<1> SUFFICES ASSUME RKept, IncludeToken(file) PROVE Placed'
  OBVIOUS
<1>1. PICK f, v : /\ f \in LineFrames /\ Last(v) = f /\ Open(file, v)
                  /\ Shape(v) /\ Ordered(v, toks, include_lines)
  BY NameTaken
<1>2. ~Left
  BY CalmIs DEF IncludeToken, AtLine
<1>3. Last(v).kind \in {"line", "catch"}
  BY <1>1 DEF LineFrames
<1> QED BY <1>1, <1>2, <1>3, OpenPlaced

\* The next line of the file.
LEMMA FileLine ==
  ASSUME RKept, IncludeLine
  PROVE  \E k, g :
           /\ k = include_pos + 1 /\ k \in Nat /\ k <= FileLen[include_lines]
           /\ include_pos' = k /\ toks' = Line(include_lines, k)
           /\ g = Reading(Line(include_lines, k)) /\ g \in LineFrames /\ g.kind = "line"
           /\ HasText(g) /\ Fits(g, Top) /\ Reads(g, toks') /\ Pushed(py', py, g)
           /\ ~Left
<1>1. Kept /\ Calm /\ ~Left /\ Top.kind = "include"
  BY CalmIs DEF IncludeLine, RKept
<1>2. include_pos < FileLen[include_lines] /\ FileLen[include_lines] \in Nat
      /\ include_pos \in Nat /\ include_lines \in Known
  BY <1>1, OwnLines, Sizes DEF IncludeLine, Kept, Fields
<1>3. PICK k : k = include_pos + 1
  OBVIOUS
<1>4. k \in Nat /\ k > 0 /\ k <= FileLen[include_lines]
  BY <1>2, <1>3
<1>5. PICK text : text = Line(include_lines, k)
  OBVIOUS
<1>6. text # None /\ text \in Texts
  BY <1>2, <1>4, <1>5, LineIsText DEF Texts
<1>7. PICK g : g = Reading(text)
  OBVIOUS
<1>8. g \in LineFrames /\ g.kind = "line" /\ g.toks = text
  BY <1>1, <1>6, <1>7, NewFrames DEF Kept, Reading
<1>9. toks' = text /\ include_pos' = k /\ Pushed(py', py, g)
  BY <1>3, <1>5, <1>7 DEF IncludeLine, Begin, Pushed
<1>10. HasText(g) /\ Fits(g, Top) /\ Reads(g, text)
  BY <1>1, <1>6, <1>8 DEF HasText, Saving, Fits, Openings, Reads
<1> QED BY <1>1, <1>3, <1>4, <1>5, <1>7, <1>8, <1>9, <1>10

LEMMA IncludeLinePlaced == RKept /\ IncludeLine => Placed'
<1> SUFFICES ASSUME RKept, IncludeLine PROVE Placed'
  OBVIOUS
<1>1. PICK g : /\ g \in LineFrames /\ g.kind = "line" /\ HasText(g) /\ Fits(g, Top)
               /\ Reads(g, toks') /\ Pushed(py', py, g) /\ ~Left
  BY FileLine
<1>2. g \in PyFrames /\ py' = Append(py, g) /\ include_lines' = include_lines
  BY <1>1 DEF PyFrames, Pushed, IncludeLine
<1> QED BY <1>1, <1>2, PlacedPush

LEMMA StepRKept == CatchTexts = FALSE => (RKept /\ [Next]_vars => RKept')
<1> SUFFICES ASSUME CatchTexts = FALSE, RKept, [Next]_vars PROVE Placed'
  BY StepKept DEF RKept
<1>1. CASE UNCHANGED vars
  BY <1>1 DEF vars, RKept, Placed, Left, Catches
<1>2. CASE Done
  BY <1>1, <1>2 DEF Done
<1>3. CASE \E k \in 0..LineLen : SetToIn(k)
  BY <1>3, SetToInPlaced
<1>4. CASE \E text \in String : Evaluate(text)
  BY <1>4, EvaluatePlaced
<1>5. CASE \E file \in File : Included(file) \/ IncludeToken(file)
  BY <1>5, IncludedPlaced, IncludeTokenPlaced
<1> QED
  BY <1>1, <1>2, <1>3, <1>4, <1>5, MainLinePlaced, RunWordPlaced, HandlePlaced,
     WordEndsPlaced, LineEndsPlaced, ParseNextTokenPlaced, RefillPlaced,
     EvaluateEndsPlaced, IncludeLinePlaced, IncludeEndsPlaced, CatchPlaced, ThrowPlaced,
     LandPlaced, PassOnPlaced
  DEF Next

LEMMA StartRKept == Init => RKept
<1> SUFFICES ASSUME Init PROVE RKept
  OBVIOUS
<1>1. PICK f : f = [kind |-> "main", pos |-> 0]
  OBVIOUS
<1>2. f \in PyFrames /\ f.kind = "main" /\ py = <<f>>
  BY <1>1 DEF Init, PyFrames, MainFrames
<1>3. py \in Seq(PyFrames) /\ Len(py) = 1 /\ py[1] = f /\ py # <<>>
  BY <1>2
<1>4. Last(py) = f
  BY <1>3, Topmost
<1>5. Orderly(py)
  BY <1>2, <1>3 DEF Orderly, HasText, Saving
<1>6. Reads(Last(py), toks) /\ Outermost(py, Len(py) + 1, include_lines)
  BY <1>2, <1>4 DEF Reads, Outermost, Init
<1> QED BY <1>5, <1>6, Start DEF RKept, Placed, Ordered
-----------------------------------------------------------------------------
(* Each step of the interpreter is one of InputSource, or changes nothing. *)

LEMMA MapNow ==
  ASSUME RKept, ~Left
  PROVE  sources = Src(py, Here) /\ Sound(Here)
<1>1. Len(py) \in Nat /\ Kept
  BY AtTop DEF RKept
<1>2. sources = Src(py, Here)
  BY <1>1, SourcesAre DEF Mapped
<1>3. Sound(Here)
  BY <1>1 DEF Here, Sound, Kept, Fields
<1> QED BY <1>2, <1>3

LEMMA MapNext ==
  ASSUME Kept', ~Left'
  PROVE  sources' = Src(py', Here') /\ Sound(Here') /\ Shape(py')
<1>1. Shape(py')
  BY DEF Kept
<1>2. py' \in Seq(PyFrames)
  BY <1>1 DEF Shape
<1>3. Len(py') \in Nat
  BY <1>2, LenProperties
<1>4. sources' = Src(py', Here')
  BY <1>3, SourcesNext DEF Mapped
<1>5. Sound(Here')
  BY DEF Here, Sound, Kept, Fields
<1> QED BY <1>1, <1>4, <1>5

\* What a line reads, and what there is between two lines, are sources.
LEMMA Sources ==
  ASSUME NEW F \in Known \cup {None}, NEW N \in Nat, NEW s, Sound(s)
  PROVE  /\ Unread(F, N) \in Places
         /\ \A f \in LineFrames : Current(F, N, f, s) \in Places
<1>1. Unread(F, N) \in Places
  BY Sizes DEF Unread, Places, Texts
<1>2. ASSUME NEW f \in LineFrames PROVE Current(F, N, f, s) \in Places
  <2>1. PICK t, p : t = (IF f.busy THEN s.buf ELSE f.toks)
                    /\ p = (IF f.busy THEN s.cur ELSE f.i)
    OBVIOUS
  <2>2. t \in Texts /\ p \in 0..LineLen
    BY <2>1 DEF LineFrames, Sound
  <2> QED BY <2>1, <2>2 DEF Current, Places
<1> QED BY <1>1, <1>2

\* The same of fields and frames as they are.
Innermost(B, u, g, s) ==
  /\ g.kind = "main" => B = <<>>
  /\ \A r : Sound(r) /\ Sees(g, s, r) =>
       /\ B \in Seq(Places)
       /\ Unread(FileOf(g, r), NextOf(g, r)) \in Places
       /\ Pushed(Src(u, r), B, Unread(FileOf(g, r), NextOf(g, r)))
       /\ \A f \in LineFrames : \A w : Shape(w) /\ Pushed(w, u, f) =>
            /\ Current(FileOf(g, r), NextOf(g, r), f, r) \in Places
            /\ Pushed(Src(w, r), B, Current(FileOf(g, r), NextOf(g, r), f, r))

LEMMA SrcOnLine ==
  ASSUME NEW u, Shape(u), NEW g, g = Last(u), g.kind \in Openings, NEW s
  PROVE  \E B : Innermost(B, u, g, s)
<1>1. PICK B : On(B, u, g, s)
  BY SrcLine
<1>2. g \in PyFrames
  <2>1. u \in Seq(PyFrames) /\ u # <<>>
    BY DEF Shape
  <2> QED BY <2>1, Topmost
<1>3. ASSUME NEW r, Sound(r), Sees(g, s, r)
      PROVE  /\ B \in Seq(Places)
             /\ Unread(FileOf(g, r), NextOf(g, r)) \in Places
             /\ Pushed(Src(u, r), B, Unread(FileOf(g, r), NextOf(g, r)))
             /\ \A f \in LineFrames : \A w : Shape(w) /\ Pushed(w, u, f) =>
                     /\ Current(FileOf(g, r), NextOf(g, r), f, r) \in Places
                     /\ Pushed(Src(w, r), B, Current(FileOf(g, r), NextOf(g, r), f, r))
  <2>1. PICK F, N : F = FileOf(g, r) /\ N = NextOf(g, r)
    OBVIOUS
  <2>2. F \in Known \cup {None} /\ N \in Nat
    BY <1>2, <1>3, <2>1, FileNext
  <2>3. Unread(F, N) \in Places /\ \A f \in LineFrames : Current(F, N, f, r) \in Places
    BY <1>3, <2>2, Sources
  <2>4. /\ B \in Seq(Places)
        /\ Src(u, r) = Append(B, Unread(F, N))
        /\ \A f \in LineFrames : \A w : Shape(w) /\ Pushed(w, u, f) =>
              Src(w, r) = Append(B, Current(F, N, f, r))
    BY <1>1, <1>3, <2>1 DEF On
  <2>5. Pushed(Src(u, r), B, Unread(F, N))
    BY <2>4 DEF Pushed
  <2>6. ASSUME NEW f \in LineFrames, NEW w, Shape(w), Pushed(w, u, f)
        PROVE  Pushed(Src(w, r), B, Current(F, N, f, r))
    <3>1. Src(w, r) = Append(B, Current(F, N, f, r))
      BY <2>4, <2>6
    <3> QED BY <3>1 DEF Pushed
  <2> QED BY <2>1, <2>3, <2>4, <2>5, <2>6
<1> QED BY <1>1, <1>3 DEF Innermost, On

\* A word moves the cursor, on the same frames.
LEMMA WordStep ==
  ASSUME RKept, ~Left, Kept', ~Left', UNCHANGED <<py, include_lines, include_pos>>,
         Top.kind = "catch" \/ (Top.kind = "line" /\ Top.busy)
  PROVE  /\ toks # None /\ to_in \in 0..LineLen
         /\ \E B, F, N : Step(B, Place(F, toks, to_in, N), Place(F, toks', to_in', N))
<1>1. Shape(py) /\ Orderly(py) /\ toks # None /\ to_in \in 0..LineLen
  BY OrderNow, UnderTop DEF Kept, Fields
<1>2. PICK s, r, v : s = Here /\ r = Here' /\ v = py
  OBVIOUS
<1>3. /\ Shape(v) /\ Orderly(v)
      /\ Last(v).kind = "catch" \/ (Last(v).kind = "line" /\ Last(v).busy)
  BY <1>1, <1>2 DEF Top
<1>4. PICK B, F, N :
           \A q : s.lines = q.lines /\ s.pos = q.pos =>
             /\ Sound(q) => B \in Seq(Places) /\ Place(F, q.buf, q.cur, N) \in Places
             /\ Pushed(Src(v, q), B, Place(F, q.buf, q.cur, N))
  BY <1>3, SrcWord
<1>5. /\ s.lines = r.lines /\ s.pos = r.pos /\ s.buf = toks /\ s.cur = to_in
      /\ r.buf = toks' /\ r.cur = to_in'
  BY <1>2 DEF Here
<1>6. Sound(s) /\ Sound(r) /\ sources = Src(v, s) /\ sources' = Src(v, r)
  BY <1>2, MapNow, MapNext
<1>7. Step(B, Place(F, toks, to_in, N), Place(F, toks', to_in', N))
  BY <1>4, <1>5, <1>6 DEF Step
<1> QED BY <1>1, <1>7

\* Nothing is read where a CATCH begins or ends.
LEMMA WordStays ==
  ASSUME RKept, ~Left, Top.kind = "catch" \/ (Top.kind = "line" /\ Top.busy),
         sources' = sources, got' = Nothing
  PROVE  IS!Next
<1>1. Shape(py) /\ Orderly(py) /\ toks # None /\ to_in \in 0..LineLen
  BY OrderNow, UnderTop DEF Kept, Fields
<1>2. PICK s, v : s = Here /\ v = py
  OBVIOUS
<1>3. /\ Shape(v) /\ Orderly(v)
      /\ Last(v).kind = "catch" \/ (Last(v).kind = "line" /\ Last(v).busy)
  BY <1>1, <1>2 DEF Top
<1>4. PICK B, F, N :
           \A q : s.lines = q.lines /\ s.pos = q.pos =>
             /\ Sound(q) => B \in Seq(Places) /\ Place(F, q.buf, q.cur, N) \in Places
             /\ Pushed(Src(v, q), B, Place(F, q.buf, q.cur, N))
  BY <1>3, SrcWord
<1>5. s.buf = toks /\ s.cur = to_in /\ Sound(s) /\ sources = Src(v, s)
  BY <1>2, MapNow DEF Here
<1>6. PICK p : p = Place(F, toks, to_in, N)
  OBVIOUS
<1>7. Step(B, p, p)
  BY <1>4, <1>5, <1>6 DEF Step
<1>8. p.text # None /\ p = [p EXCEPT !.pos = to_in]
  BY <1>1, <1>6 DEF Place
<1> QED BY <1>1, <1>7, <1>8, IsSeek

\* The line goes on elsewhere.
LEMMA LineStep ==
  ASSUME RKept, ~Left, Kept', ~Left', Top.kind = "line", NEW f \in LineFrames, SetTop(f),
         UNCHANGED <<include_lines, include_pos>>
  PROVE  \E B, F, N : Step(B, Current(F, N, Top, Here), Current(F, N, f, Here'))
<1>1. PICK u, g, s, r, h : u = Front(py) /\ g = Last(u) /\ s = Here /\ r = Here' /\ h = Top
  OBVIOUS
<1>2. /\ Shape(u) /\ g.kind \in Openings /\ Pushed(py, u, h) /\ Shape(py) /\ Kept
      /\ h \in LineFrames
  BY <1>1, UnderTop, OrderNow, AtTop DEF Fits
<1>3. PICK B : Innermost(B, u, g, s)
  BY <1>1, <1>2, SrcOnLine
<1>4. Sees(g, s, s) /\ Sees(g, s, r) /\ FileOf(g, s) = FileOf(g, r)
      /\ NextOf(g, s) = NextOf(g, r)
  BY <1>1 DEF Sees, Here, FileOf, NextOf
<1>5. Sound(s) /\ Sound(r) /\ sources = Src(py, s) /\ sources' = Src(py', r) /\ Shape(py')
  BY <1>1, MapNow, MapNext
<1>6. Pushed(py', u, f)
  <2>1. f \in PyFrames
    BY DEF PyFrames
  <2> QED BY <1>1, <1>2, <2>1, TopSet DEF SetTop, Top, Pushed
<1>7. PICK F, N : F = FileOf(g, s) /\ N = NextOf(g, s)
  OBVIOUS
<1>8. B \in Seq(Places) /\ Current(F, N, h, s) \in Places
      /\ Pushed(Src(py, s), B, Current(F, N, h, s))
  BY <1>2, <1>3, <1>4, <1>5, <1>7 DEF Innermost
<1>9. Current(F, N, f, r) \in Places /\ Pushed(Src(py', r), B, Current(F, N, f, r))
  BY <1>3, <1>4, <1>5, <1>6, <1>7 DEF Innermost
<1>10. Step(B, Current(F, N, h, s), Current(F, N, f, r))
  BY <1>5, <1>8, <1>9 DEF Step
<1> QED BY <1>1, <1>10

\* The line is left.
LEMMA LineOver ==
  ASSUME RKept, ~Left, Kept', ~Left', Top.kind = "line", py' = Front(py), UNCHANGED fields
  PROVE  \E B, F, N : Step(B, Current(F, N, Top, Here), Unread(F, N))
<1>1. PICK u, g, s, h : u = Front(py) /\ g = Last(u) /\ s = Here /\ h = Top
  OBVIOUS
<1>2. /\ Shape(u) /\ g.kind \in Openings /\ Pushed(py, u, h) /\ Shape(py) /\ Kept
      /\ h \in LineFrames
  BY <1>1, UnderTop, OrderNow, AtTop DEF Fits
<1>3. PICK B : Innermost(B, u, g, s)
  BY <1>1, <1>2, SrcOnLine
<1>4. Sees(g, s, s)
  BY DEF Sees
<1>5. Sound(s) /\ sources = Src(py, s) /\ sources' = Src(u, s)
  <2>1. Here' = Here
    BY DEF Here, fields
  <2> QED BY <1>1, <2>1, MapNow, MapNext
<1>6. PICK F, N : F = FileOf(g, s) /\ N = NextOf(g, s)
  OBVIOUS
<1>7. B \in Seq(Places) /\ Current(F, N, h, s) \in Places /\ Unread(F, N) \in Places
      /\ Pushed(Src(py, s), B, Current(F, N, h, s)) /\ Pushed(Src(u, s), B, Unread(F, N))
  BY <1>2, <1>3, <1>4, <1>5, <1>6 DEF Innermost
<1>8. Step(B, Current(F, N, h, s), Unread(F, N))
  BY <1>5, <1>7 DEF Step
<1> QED BY <1>1, <1>8
Follows == IS!Next \/ (sources' = sources /\ got' = got)

LEMMA CalmNext ==
  ASSUME RKept, Calm, exc' = exc
  PROVE  ~Left /\ ~Left' /\ Kept
BY CalmIs DEF Left, RKept

LEMMA ParseNextTokenIs == ASSUME RKept, Kept', ParseNextToken PROVE Follows
<1>1. ~Left /\ ~Left' /\ UNCHANGED <<py, include_lines, include_pos, toks>>
      /\ (Top.kind = "catch" \/ (Top.kind = "line" /\ Top.busy))
  BY CalmNext DEF ParseNextToken, InWord
<1>2. PICK B, F, N : Step(B, Place(F, toks, to_in, N), Place(F, toks', to_in', N))
  BY <1>1, WordStep
<1>3. toks # None /\ to_in \in 0..LineLen /\ toks' = toks
  BY <1>1, WordStep
<1>4. PICK r, x : r = Place(F, toks, to_in, N) /\ x = Place(F, toks', to_in', N)
  OBVIOUS
<1>5. r.text = toks /\ r.pos = to_in
  BY <1>4 DEF Place
<1>6. CASE to_in < LineLen
  <2>1. x = [r EXCEPT !.pos = @ + 1]
    BY <1>3, <1>4, <1>6 DEF Place, ParseNextToken
  <2>2. got' = Token(r.text, r.pos)
    BY <1>5, <1>6 DEF ParseNextToken
  <2>3. IS!Next
    BY <1>2, <1>3, <1>4, <1>5, <1>6, <2>1, <2>2, IsReadToken
  <2> QED BY <2>3 DEF Follows
<1>7. CASE ~(to_in < LineLen)
  <2>1. x = r /\ got' = Nothing
    BY <1>3, <1>4, <1>7 DEF ParseNextToken
  <2>2. IS!Next
    BY <1>2, <1>3, <1>4, <1>5, <1>7, <2>1, IsReadNothing
  <2> QED BY <2>2 DEF Follows
<1> QED BY <1>6, <1>7

LEMMA SetToInIs == ASSUME RKept, Kept', NEW k \in 0..LineLen, SetToIn(k) PROVE Follows
<1>1. ~Left /\ ~Left' /\ UNCHANGED <<py, include_lines, include_pos, toks>>
      /\ (Top.kind = "catch" \/ (Top.kind = "line" /\ Top.busy))
  BY CalmNext DEF SetToIn, InWord
<1>2. PICK B, F, N : Step(B, Place(F, toks, to_in, N), Place(F, toks', to_in', N))
  BY <1>1, WordStep
<1>3. toks # None /\ toks' = toks /\ to_in' = k /\ got' = Nothing
  BY <1>1, WordStep DEF SetToIn
<1>4. PICK r, x : r = Place(F, toks, to_in, N) /\ x = Place(F, toks', to_in', N)
  OBVIOUS
<1>5. r.text = toks /\ x = [r EXCEPT !.pos = k]
  BY <1>3, <1>4 DEF Place
<1>6. IS!Next
  BY <1>2, <1>3, <1>4, <1>5, IsSeek
<1> QED BY <1>6 DEF Follows

LEMMA CatchIs == ASSUME RKept, Kept', Catch PROVE Follows
<1>1. /\ ~Left /\ ~Left'
      /\ Top.kind = "catch" \/ (Top.kind = "line" /\ Top.busy)
      /\ UNCHANGED fields /\ got' = Nothing
  BY CalmNext DEF Catch, InWord
<1>2. PICK f, v, w, s : f = [kind |-> "catch"] /\ v = py /\ w = py' /\ s = Here
  OBVIOUS
<1>3. f \in PyFrames /\ f.kind = "catch" /\ Pushed(w, v, f)
  BY <1>2 DEF PyFrames, CatchFrames, Catch, Pushed
<1>4. v \in Seq(PyFrames)
  BY <1>1, <1>2, OrderNow DEF Shape
<1>5. Src(w, s) = Src(v, s)
  BY <1>3, <1>4, SrcCatch
<1>6. Here' = Here
  BY <1>1 DEF Here, fields
<1>7. sources' = sources
  BY <1>1, <1>2, <1>5, <1>6, MapNow, MapNext
<1>8. IS!Next
  BY <1>1, <1>7, WordStays
<1> QED BY <1>8 DEF Follows

\* A CATCH goes, and the sources stay.
LEMMA CatchGone ==
  ASSUME RKept, ~Left, Kept', ~Left', Top.kind = "catch", py' = Front(py), UNCHANGED fields
  PROVE  sources' = sources
<1>1. PICK f, u, v, s : f = Top /\ u = Front(py) /\ v = py /\ s = Here
  OBVIOUS
<1>2. f \in PyFrames /\ f.kind = "catch" /\ Pushed(v, u, f) /\ u \in Seq(PyFrames)
  BY <1>1, OrderNow, UnderTop DEF Shape
<1>3. Src(v, s) = Src(u, s)
  BY <1>2, SrcCatch
<1>4. Here' = Here
  BY DEF Here, fields
<1> QED BY <1>1, <1>3, <1>4, MapNow, MapNext

LEMMA CatchEndsIs == ASSUME RKept, Kept', CatchEnds PROVE Follows
<1>1. /\ ~Left /\ ~Left' /\ Top.kind = "catch" /\ py' = Front(py)
      /\ UNCHANGED fields /\ got' = Nothing
  BY CalmNext DEF CatchEnds
<1>2. IS!Next
  BY <1>1, CatchGone, WordStays
<1> QED BY <1>2 DEF Follows

\* The main file lies below all.
LEMMA SrcSome ==
  ASSUME NEW v, Shape(v), NEW s, Sound(s)
  PROVE  Src(v, s) # <<>> /\ Src(v, s) \in Seq(Places)
<1>1. PICK n, c : n = 1 /\ c = Len(v)
  OBVIOUS
<1>2. v \in Seq(PyFrames) /\ v # <<>> /\ c = Len(v) /\ c \in Nat /\ c > 0
  <2>1. v \in Seq(PyFrames) /\ v # <<>>
    BY DEF Shape
  <2> QED BY <1>1, <2>1, Topmost
<1>3. n \in 1..c /\ v[n].kind = "main"
  BY <1>1, <1>2 DEF Shape
<1>4. n \in Openers(v)
  BY <1>2, <1>3 DEF Openers, Openings
<1>5. PICK O, a, g : O = Openers(v) /\ a = Row(v, s) /\ g = To(v, s)
  OBVIOUS
<1>6. Picked(c, O, a, g) /\ c \in 0..c
  BY <1>2, <1>5, ToPicked
<1>7. \A j \in 1..c : j \in O => a[j] \in Places
  BY <1>2, <1>5, AtTyped DEF Row, Openers
<1>8. Standing(O, Places, a, g, c)
  BY <1>2, <1>6, <1>7, PickedPlaces
<1>9. Len(g[n]) \in 1..Len(g[c]) /\ g[c] \in Seq(Places)
  BY <1>3, <1>4, <1>5, <1>8 DEF Standing
<1>10. Len(g[c]) # 0
  BY <1>9
<1>11. g[c] # <<>>
  BY <1>10
<1> QED BY <1>2, <1>5, <1>9, <1>11 DEF Src

LEMMA UncaughtIs ==
  ASSUME RKept, ~Left, Kept', Left', got' = Nothing
  PROVE  IS!Next
<1>1. Len(py') \in Nat
  <2>1. py' \in Seq(PyFrames)
    BY DEF Kept, Shape
  <2> QED BY <2>1, LenProperties
<1>2. sources' = <<>>
  BY <1>1, SourcesNext DEF Mapped
<1>3. sources # <<>>
  <2>1. PICK v, s : v = py /\ s = Here
    OBVIOUS
  <2>2. Shape(v) /\ Sound(s) /\ sources = Src(v, s)
    BY <2>1, MapNow, OrderNow
  <2> QED BY <2>2, SrcSome
<1> QED BY <1>2, <1>3, IsUncaught

LEMMA ThrowIs == ASSUME CatchTexts = FALSE, RKept, Kept', Throw PROVE Follows
<1>1. Calm /\ ~Left /\ exc' = "throw" /\ UNCHANGED <<fields, py>> /\ got' = Nothing
      /\ (Catches = {} \/ Top.kind = "catch")
  BY CalmIs DEF Throw, InWord, AtLine
<1>2. CASE Catches = {}
  <2>1. Left'
    BY <1>1, <1>2 DEF Left, Catches
  <2> QED BY <1>1, <2>1, UncaughtIs DEF Follows
<1>3. CASE Catches # {}
  <2>1. ~Left'
    BY <1>1, <1>3 DEF Left, Catches
  <2>2. Here' = Here
    BY <1>1 DEF Here, fields
  <2>3. sources' = sources
    BY <1>1, <2>1, <2>2, MapNow, MapNext
  <2>4. IS!Next
    BY <1>1, <1>3, <2>3, WordStays
  <2> QED BY <2>4 DEF Follows
<1> QED BY <1>2, <1>3

LEMMA QuitWordIs == ASSUME RKept, Kept', QuitWord PROVE Follows
<1>1. Calm /\ ~Left /\ exc' = "quit" /\ UNCHANGED <<fields, py, got>>
  BY CalmIs DEF QuitWord, InWord
<1>2. ~Left'
  BY <1>1 DEF Left
<1>3. Here' = Here
  BY <1>1 DEF Here, fields
<1>4. sources' = sources
  BY <1>1, <1>2, <1>3, MapNow, MapNext
<1> QED BY <1>1, <1>4 DEF Follows

LEMMA PassOnIs == ASSUME RKept, Kept', PassOn PROVE Follows
<1>1. UNCHANGED <<fields, exc, got>> /\ py' = Front(py)
  BY DEF PassOn
<1>2. CASE exc = "throw"
  <2>1. Kept /\ Catches = {} /\ Catches' = {}
    BY <1>1, <1>2, CatchesPop DEF PassOn, RKept, Kept, Uncaught
  <2>2. sources = <<>> /\ sources' = <<>>
    BY <1>1, <1>2, <2>1 DEF sources
  <2> QED BY <1>1, <2>2 DEF Follows
<1>3. CASE exc = "quit"
  <2>1. ~Left /\ ~Left' /\ Top.kind = "catch"
    BY <1>1, <1>3 DEF Left, PassOn
  <2> QED BY <1>1, <2>1, CatchGone DEF Follows
<1> QED BY <1>2, <1>3 DEF PassOn

\* What the line on top reads; its own text is the one that is read.
LEMMA OnTheLine ==
  ASSUME RKept, ~Left, Top.kind = "line", NEW F, NEW N,
         NEW r, r = Current(F, N, Top, Here)
  PROVE  /\ r.text = (IF Top.busy THEN toks ELSE Top.toks) /\ r.text # None
         /\ r.pos = (IF Top.busy THEN to_in ELSE Top.i)
         /\ r = Place(F, r.text, r.pos, N)
         /\ Top \in LineFrames /\ (~Top.busy => Top.toks = toks)
<1>1. Top.toks # None /\ toks # None /\ Reads(Top, toks) /\ Top \in LineFrames
  BY UnderTop, OrderNow, AtTop DEF HasText, RKept
<1>2. Here.buf = toks /\ Here.cur = to_in
  BY DEF Here
<1> QED BY <1>1, <1>2 DEF Current, Place, Reads

LEMMA RunWordIs == ASSUME RKept, Kept', RunWord PROVE Follows
<1>1. /\ ~Left /\ ~Left' /\ Top.kind = "line" /\ ~Top.busy /\ Top.i < LineLen
      /\ UNCHANGED <<toks, include_lines, include_pos>>
      /\ got' = Token(Top.toks, Top.i)
  BY CalmNext DEF RunWord, AtLine
<1>2. Top \in LineFrames
  BY AtTop, <1>1 DEF RKept
<1>3. PICK i, f : i = Top.i + 1 /\ f = [Top EXCEPT !.i = i, !.busy = TRUE]
  OBVIOUS
<1>4. i \in 0..LineLen
  BY <1>1, <1>2, <1>3, Sizes DEF LineFrames
<1>5. PICK e : e = [Top EXCEPT !.i = i]
  OBVIOUS
<1>6. e \in LineFrames /\ e.toks = Top.toks
  BY <1>2, <1>4, <1>5 DEF LineFrames
<1>7. f = [e EXCEPT !.busy = TRUE]
  BY <1>3, <1>5
<1>8. f \in LineFrames /\ f.busy
  BY <1>6, <1>7 DEF LineFrames
<1>9. SetTop(f) /\ to_in' = i
  BY <1>3 DEF RunWord
<1>10. PICK B, F, N : Step(B, Current(F, N, Top, Here), Current(F, N, f, Here'))
  BY <1>1, <1>8, <1>9, LineStep
<1>11. PICK r, x : r = Current(F, N, Top, Here) /\ x = Current(F, N, f, Here')
  OBVIOUS
<1>12. /\ r.text = Top.toks /\ r.text # None /\ r.pos = Top.i /\ Top.toks = toks
       /\ r = Place(F, toks, Top.i, N)
  BY <1>1, <1>11, OnTheLine
<1>13. x = Place(F, toks, i, N)
  BY <1>1, <1>8, <1>9, <1>11 DEF Current, Here, Place
<1>14. x = [r EXCEPT !.pos = @ + 1]
  BY <1>3, <1>12, <1>13 DEF Place
<1>15. IS!Next
  BY <1>1, <1>10, <1>11, <1>12, <1>14, IsReadToken
<1> QED BY <1>15 DEF Follows

LEMMA HandleIs == ASSUME RKept, Kept', Handle PROVE Follows
<1>1. /\ ~Left /\ ~Left' /\ AtLine /\ Top.kind = "line" /\ ~Top.busy /\ Top.i < LineLen
      /\ UNCHANGED fields /\ got' = Token(Top.toks, Top.i)
  BY CalmNext DEF Handle, AtLine
<1>2. PICK f : /\ f = [Top EXCEPT !.i = @ + 1] /\ f \in LineFrames
               /\ ~f.busy /\ f.toks = Top.toks /\ f.i = Top.i + 1
  BY <1>1, Taken
<1>3. SetTop(f) /\ UNCHANGED <<include_lines, include_pos>>
  BY <1>1, <1>2 DEF Handle, fields
<1>4. PICK B, F, N : Step(B, Current(F, N, Top, Here), Current(F, N, f, Here'))
  BY <1>1, <1>2, <1>3, LineStep
<1>5. PICK r, x : r = Current(F, N, Top, Here) /\ x = Current(F, N, f, Here')
  OBVIOUS
<1>6. /\ r.text = Top.toks /\ r.text # None /\ r.pos = Top.i
      /\ r = Place(F, Top.toks, Top.i, N)
  BY <1>1, <1>5, OnTheLine
<1>7. x = Place(F, Top.toks, Top.i + 1, N)
  BY <1>2, <1>5 DEF Current, Place
<1>8. x = [r EXCEPT !.pos = @ + 1]
  BY <1>6, <1>7 DEF Place
<1>9. IS!Next
  BY <1>1, <1>4, <1>5, <1>6, <1>8, IsReadToken
<1> QED BY <1>9 DEF Follows

LEMMA WordEndsIs == ASSUME RKept, Kept', WordEnds PROVE Follows
<1>1. /\ ~Left /\ ~Left' /\ Top.kind = "line" /\ Top.busy
      /\ UNCHANGED fields /\ got' = got /\ Kept
  BY CalmNext DEF WordEnds
<1>2. PICK f : f = [kind |-> "line", toks |-> toks, i |-> to_in, busy |-> FALSE]
  OBVIOUS
<1>3. f \in LineFrames /\ SetTop(f) /\ UNCHANGED <<include_lines, include_pos>>
  BY <1>1, <1>2 DEF WordEnds, fields, Kept, Fields, LineFrames
<1>4. PICK B, F, N : Step(B, Current(F, N, Top, Here), Current(F, N, f, Here'))
  BY <1>1, <1>3, LineStep
<1>5. Current(F, N, Top, Here) = Current(F, N, f, Here')
  BY <1>1, <1>2 DEF Current, Here
<1>6. sources' = sources
  BY <1>4, <1>5 DEF Step, Pushed
<1> QED BY <1>1, <1>6 DEF Follows

\* The line is left: read to its end, or abandoned.
LEMMA OverIs ==
  ASSUME RKept, ~Left, Kept', ~Left', Top.kind = "line", py' = Front(py), UNCHANGED fields,
         \/ got' = Abandoned
         \/ got' = Nothing /\ ~Top.busy /\ Top.i >= LineLen
  PROVE  IS!Next
<1>1. PICK B, F, N : Step(B, Current(F, N, Top, Here), Unread(F, N))
  BY LineOver
<1>2. PICK r, x : r = Current(F, N, Top, Here) /\ x = Unread(F, N)
  OBVIOUS
<1>3. /\ r.text # None /\ r = Place(F, r.text, r.pos, N)
      /\ (~Top.busy => r.pos = Top.i)
  BY <1>2, OnTheLine
<1>4. x = [r EXCEPT !.text = None, !.pos = 0]
  <2>1. PICK t, p : t = r.text /\ p = r.pos
    OBVIOUS
  <2>2. r = Place(F, t, p, N)
    BY <1>3, <2>1
  <2>3. PICK y : y = Place(F, None, p, N)
    OBVIOUS
  <2>4. y = [r EXCEPT !.text = None]
    BY <2>2, <2>3 DEF Place
  <2>5. x = [y EXCEPT !.pos = 0]
    BY <1>2, <2>3 DEF Unread, Place
  <2> QED BY <2>4, <2>5
<1> QED BY <1>1, <1>2, <1>3, <1>4, IsEndLine

LEMMA LineEndsIs == ASSUME RKept, Kept', LineEnds PROVE Follows
<1>1. ~Left /\ ~Left'
  BY CalmNext DEF LineEnds, AtLine
<1>2. IS!Next
  BY <1>1, OverIs DEF LineEnds, AtLine
<1> QED BY <1>2 DEF Follows

LEMMA QuitLineIs == ASSUME RKept, Kept', QuitLine PROVE Follows
<1>1. ~Left /\ ~Left'
  BY CalmNext DEF QuitLine, AtLine
<1>2. IS!Next
  BY <1>1, OverIs DEF QuitLine, AtLine
<1> QED BY <1>2 DEF Follows

LEMMA LandIs == ASSUME RKept, Kept', Land PROVE Follows
<1>1. /\ ~Left' /\ py' = Front(py) /\ UNCHANGED fields
      /\ got' = IF exc = "quit" THEN Abandoned ELSE Nothing
  BY Sizes DEF Land, Left
<1>2. CASE exc = "throw" /\ Top.kind = "catch"
  <2>1. Len(py) \in DOMAIN py /\ py[Len(py)].kind = "catch"
    BY <1>2, AtTop DEF RKept
  <2>2. ~Left
    BY <2>1 DEF Left, Catches
  <2>3. sources' = sources
    BY <1>1, <1>2, <2>2, CatchGone
  <2>4. IS!Next
    BY <1>1, <1>2, <2>2, <2>3, WordStays
  <2> QED BY <2>4 DEF Follows
<1>3. CASE exc = "quit" /\ Top.kind = "line"
  <2>1. ~Left
    BY <1>3 DEF Left
  <2>2. IS!Next
    BY <1>1, <1>3, <2>1, OverIs
  <2> QED BY <2>2 DEF Follows
<1> QED BY <1>2, <1>3 DEF Land
-----------------------------------------------------------------------------
(* Sources opened and closed.                                              *)

\* One list has one last element.
LEMMA OneEnd ==
  ASSUME NEW T, NEW s, NEW B \in Seq(T), NEW C \in Seq(T), NEW r \in T, NEW q \in T,
         Pushed(s, B, r), Pushed(s, C, q)
  PROVE  B = C /\ r = q
<1>1. Last(s) = r /\ Front(s) = B
  BY EndOf
<1>2. Last(s) = q /\ Front(s) = C
  BY EndOf
<1> QED BY <1>1, <1>2

\* The innermost source is r, and its line is being read.
BeingRead(B, r) ==
  B \in Seq(Places) /\ r \in Places /\ Pushed(sources, B, r) /\ r.text # None

LEMMA WordReads ==
  ASSUME RKept, ~Left, Top.kind = "catch" \/ (Top.kind = "line" /\ Top.busy)
  PROVE  \E B, r : BeingRead(B, r)
<1>1. Shape(py) /\ Orderly(py) /\ toks # None
  BY OrderNow, UnderTop
<1>2. PICK s, v : s = Here /\ v = py
  OBVIOUS
<1>3. /\ Shape(v) /\ Orderly(v)
      /\ Last(v).kind = "catch" \/ (Last(v).kind = "line" /\ Last(v).busy)
  BY <1>1, <1>2 DEF Top
<1>4. PICK B, F, N :
           \A q : s.lines = q.lines /\ s.pos = q.pos =>
             /\ Sound(q) => B \in Seq(Places) /\ Place(F, q.buf, q.cur, N) \in Places
             /\ Pushed(Src(v, q), B, Place(F, q.buf, q.cur, N))
  BY <1>3, SrcWord
<1>5. s.buf = toks /\ Sound(s) /\ sources = Src(v, s)
  BY <1>2, MapNow DEF Here
<1>6. PICK p : p = Place(F, s.buf, s.cur, N)
  OBVIOUS
<1>7. p.text # None
  BY <1>1, <1>5, <1>6 DEF Place
<1> QED BY <1>4, <1>5, <1>6, <1>7 DEF BeingRead

\* A token of the line is read, and the line is on top.
LEMMA LineReads ==
  ASSUME RKept, ~Left, Top.kind = "line"
  PROVE  \E B, F, N : Innermost(B, Front(py), Last(Front(py)), Here)
                      /\ F = FileOf(Last(Front(py)), Here) /\ N = NextOf(Last(Front(py)), Here)
                      /\ BeingRead(B, Current(F, N, Top, Here))
<1>1. PICK u, g, s, h : u = Front(py) /\ g = Last(u) /\ s = Here /\ h = Top
  OBVIOUS
<1>2. /\ Shape(u) /\ g.kind \in Openings /\ Pushed(py, u, h) /\ Shape(py)
      /\ h \in LineFrames
  BY <1>1, UnderTop, OrderNow, AtTop DEF Fits, RKept
<1>3. PICK B : Innermost(B, u, g, s)
  BY <1>1, <1>2, SrcOnLine
<1>4. Sees(g, s, s)
  BY DEF Sees
<1>5. Sound(s) /\ sources = Src(py, s)
  BY <1>1, MapNow
<1>6. PICK F, N : F = FileOf(g, s) /\ N = NextOf(g, s)
  OBVIOUS
<1>7. B \in Seq(Places) /\ Current(F, N, h, s) \in Places
      /\ Pushed(Src(py, s), B, Current(F, N, h, s))
  BY <1>2, <1>3, <1>4, <1>5, <1>6 DEF Innermost
<1>8. PICK r : r = Current(F, N, h, s)
  OBVIOUS
<1>9. r.text # None
  BY <1>1, <1>8, OnTheLine
<1>10. BeingRead(B, r)
  BY <1>5, <1>7, <1>8, <1>9 DEF BeingRead
<1> QED BY <1>1, <1>3, <1>6, <1>8, <1>10

LEMMA TextReads ==
  ASSUME RKept, ~Left, InWord \/ AtLine
  PROVE  \E B, r : BeingRead(B, r)
<1>1. CASE InWord
  BY <1>1, WordReads DEF InWord
<1>2. CASE AtLine
  BY <1>2, LineReads DEF AtLine
<1> QED BY <1>1, <1>2

\* The new source is opened by a word or a token.
LEMMA SourceOpened ==
  ASSUME RKept, ~Left, InWord \/ AtLine, NEW x \in Places, Pushed(sources', sources, x),
         got' = Nothing,
         \/ \E text \in String : x = Place(None, text, 0, 1)
         \/ \E file \in File : x = Place(file, None, 0, 1)
  PROVE  IS!Next
<1>1. PICK B, r : BeingRead(B, r)
  BY TextReads
<1>2. Opened(B, r, x) /\ r.text # None
  BY <1>1 DEF BeingRead, Opened
<1>3. \/ \E text \in String : x = IS!Source(None, text)
      \/ \E file \in File : x = IS!Source(file, None)
  BY DEF Place, IS!Source
<1> QED BY <1>2, <1>3, IsOpened

LEMMA EvaluateIs == ASSUME RKept, Kept', NEW text \in String, Evaluate(text) PROVE Follows
<1>1. ~Left /\ ~Left' /\ InWord /\ got' = Nothing
  BY CalmNext DEF Evaluate, InWord
<1>2. PICK f, g, u :
           /\ f = SavedHere("evaluate") /\ f \in PyFrames /\ f.kind = "evaluate"
           /\ g = Reading(text) /\ g \in LineFrames
           /\ Pushed(u, py, f) /\ Pushed(py', u, g) /\ Shape(u) /\ Last(u) = f
  BY EvaluateFrames
<1>3. PICK s, r, v, w : s = Here /\ r = Here' /\ v = py /\ w = py'
  OBVIOUS
<1>4. Under(f, r) = s
  BY <1>2, <1>3 DEF Under, Here, SavedHere, Evaluate, Begin
<1>5. /\ Sound(s) /\ sources = Src(v, s)
      /\ Sound(r) /\ sources' = Src(w, r) /\ Shape(w)
      /\ v \in Seq(PyFrames)
  BY <1>1, <1>3, MapNow, MapNext, OrderNow DEF Shape
<1>6. f.kind \in Openings /\ f.kind \in Saving
  BY <1>2 DEF Openings, Saving
<1>7. PICK B : Innermost(B, u, f, r)
  BY <1>2, <1>6, SrcOnLine
<1>8. Sees(f, r, r) /\ FileOf(f, r) = None /\ NextOf(f, r) = 1
  BY <1>2 DEF Sees, FileOf, NextOf
<1>9. /\ B \in Seq(Places) /\ Unread(None, 1) \in Places
      /\ Pushed(Src(u, r), B, Unread(None, 1))
      /\ Current(None, 1, g, r) \in Places
      /\ Pushed(Src(w, r), B, Current(None, 1, g, r))
  <2>1. Pushed(w, u, g)
    BY <1>2, <1>3
  <2> QED BY <1>2, <1>5, <1>7, <1>8, <2>1 DEF Innermost
<1>10. Src(u, r) = Append(Src(v, s), Unread(None, 1))
  <2>1. Pushed(u, v, f)
    BY <1>2, <1>3
  <2>2. Src(u, r) = Append(Src(v, Under(f, r)),
                            [file |-> IF f.kind = "include" THEN r.lines ELSE None,
                             text |-> None, pos |-> 0,
                             next |-> IF f.kind = "include" THEN r.pos + 1 ELSE 1])
    BY <1>2, <1>5, <1>6, <2>1, SrcSaving
  <2> QED BY <1>2, <1>4, <2>2 DEF Unread
<1>11. sources \in Seq(Places)
  <2>1. PICK C, q : BeingRead(C, q)
    BY <1>1, TextReads
  <2> QED BY <2>1, EndOf DEF BeingRead
<1>12. B = sources
  <2>1. Pushed(Src(u, r), sources, Unread(None, 1))
    BY <1>5, <1>10 DEF Pushed
  <2> QED BY <1>9, <1>11, <2>1, OneEnd
<1>13. Current(None, 1, g, r) = Place(None, text, 0, 1)
  BY <1>2 DEF Current, Place, Reading
<1>14. Pushed(sources', sources, Current(None, 1, g, r))
  BY <1>5, <1>9, <1>12
<1>15. IS!Next
  BY <1>1, <1>9, <1>13, <1>14, SourceOpened
<1> QED BY <1>15 DEF Follows

\* What INCLUDED adds to the sources of the frames it is called on.
LEMMA IncludeAdds ==
  ASSUME RKept, Kept', ~Left', NEW file \in File, NEW v \in Seq(PyFrames), Open(file, v),
         NEW f \in PyFrames, f = [SavedHere("include") EXCEPT !.n = FileLen[file]],
         f.kind = "include", Pushed(py', v, f)
  PROVE  /\ Pushed(sources', Src(v, Here), Place(file, None, 0, 1))
         /\ Place(file, None, 0, 1) \in Places
<1>1. PICK s, r, w : s = Here /\ r = Here' /\ w = py'
  OBVIOUS
<1>2. f.buf = toks /\ f.cur = to_in /\ f.lines = include_lines /\ f.pos = include_pos
  BY DEF SavedHere
<1>3. r.lines = file /\ r.pos = 0
  BY <1>1 DEF Open, Here
<1>4. Under(f, r) = s
  BY <1>1, <1>2 DEF Under, Here
<1>5. sources' = Src(w, r)
  BY <1>1, MapNext
<1>6. Src(w, r) = Append(Src(v, Under(f, r)),
                         [file |-> IF f.kind = "include" THEN r.lines ELSE None,
                          text |-> None, pos |-> 0,
                          next |-> IF f.kind = "include" THEN r.pos + 1 ELSE 1])
  BY <1>1, SrcSaving DEF Saving
<1>7. Src(w, r) = Append(Src(v, s), Place(file, None, 0, 1))
  BY <1>3, <1>4, <1>6 DEF Place
<1>8. Place(file, None, 0, 1) \in Places
  BY Sizes DEF Place, Places, Known, Texts
<1> QED BY <1>1, <1>5, <1>7, <1>8 DEF Pushed

LEMMA IncludedIs == ASSUME RKept, Kept', NEW file \in File, Included(file) PROVE Follows
<1>1. /\ ~Left /\ ~Left' /\ (InWord \/ AtLine)
      /\ Top.kind \in {"line", "catch"} /\ Open(file, py) /\ got' = Nothing
  BY CalmNext DEF Included, InWord, AtLine, Open
<1>2. PICK v : v = py
  OBVIOUS
<1>3. Shape(v) /\ Ordered(v, toks, include_lines) /\ Last(v).kind \in {"line", "catch"}
      /\ Open(file, v) /\ v \in Seq(PyFrames)
  BY <1>1, <1>2, OrderNow DEF Top, Shape
<1>4. PICK f \in PyFrames : /\ f = [SavedHere("include") EXCEPT !.n = FileLen[file]]
                            /\ f.kind = "include" /\ Pushed(py', v, f)
  BY <1>1, <1>3, OpenPlaced
<1>5. PICK x : x = Place(file, None, 0, 1)
  OBVIOUS
<1>6. Pushed(sources', Src(v, Here), x) /\ x \in Places
  BY <1>1, <1>3, <1>4, <1>5, IncludeAdds
<1>7. sources = Src(v, Here)
  BY <1>1, <1>2, MapNow
<1>8. IS!Next
  BY <1>1, <1>5, <1>6, <1>7, SourceOpened
<1> QED BY <1>8 DEF Follows

LEMMA IncludeTokenIs ==
  ASSUME RKept, Kept', NEW file \in File, IncludeToken(file) PROVE Follows
<1>1. /\ ~Left /\ ~Left' /\ AtLine /\ Top.kind = "line" /\ ~Top.busy /\ Top.i < LineLen
      /\ got' = Token(Top.toks, Top.i)
  BY CalmNext DEF IncludeToken, AtLine, Open
<1>2. PICK h, v : /\ h = [Top EXCEPT !.i = @ + 1] /\ h \in LineFrames
                  /\ Shape(v) /\ Ordered(v, toks, include_lines)
                  /\ Pushed(v, Front(py), h) /\ Last(v) = h /\ Open(file, v)
  BY NameTaken
<1>3. v \in Seq(PyFrames) /\ Last(v).kind \in {"line", "catch"}
  BY <1>2 DEF Shape, LineFrames
<1>4. PICK f \in PyFrames : /\ f = [SavedHere("include") EXCEPT !.n = FileLen[file]]
                            /\ f.kind = "include" /\ Pushed(py', v, f)
  BY <1>1, <1>2, <1>3, OpenPlaced
<1>5. Pushed(sources', Src(v, Here), Place(file, None, 0, 1))
  BY <1>1, <1>2, <1>3, <1>4, IncludeAdds
<1>6. PICK u, g, s : u = Front(py) /\ g = Last(u) /\ s = Here
  OBVIOUS
<1>7. PICK B, F, N : /\ Innermost(B, u, g, s) /\ F = FileOf(g, s) /\ N = NextOf(g, s)
                     /\ BeingRead(B, Current(F, N, Top, s))
  BY <1>1, <1>6, LineReads
<1>8. PICK r, x : r = Current(F, N, Top, s) /\ x = Current(F, N, h, s)
  OBVIOUS
<1>9. x \in Places /\ Pushed(Src(v, s), B, x)
  <2>1. Sees(g, s, s) /\ Sound(s)
    BY <1>1, <1>6, MapNow DEF Sees
  <2> QED BY <1>2, <1>6, <1>7, <1>8, <2>1 DEF Innermost
<1>10. /\ r.text = Top.toks /\ r.pos = Top.i /\ r = Place(F, Top.toks, Top.i, N)
       /\ Top \in LineFrames
  BY <1>1, <1>6, <1>8, OnTheLine
<1>11. h.toks = Top.toks /\ h.i = Top.i + 1 /\ ~h.busy
  BY <1>1, <1>2, <1>10 DEF LineFrames
<1>12. x = Place(F, Top.toks, Top.i + 1, N)
  BY <1>8, <1>11 DEF Current, Place
<1>13. Advanced(x, r)
  BY <1>10, <1>12 DEF Advanced, Place
<1>14. /\ B \in Seq(Places) /\ r \in Places /\ Pushed(sources, B, r) /\ r.text # None
  BY <1>7, <1>8 DEF BeingRead
<1>15. PICK t : t = Src(v, s)
  OBVIOUS
<1>16. Pushed(t, B, x) /\ Pushed(sources', t, IS!Source(file, None))
  BY <1>5, <1>6, <1>9, <1>15 DEF Place, IS!Source
<1>17. IS!Next
  BY <1>1, <1>9, <1>10, <1>13, <1>14, <1>16, IsIncludeNamed
<1> QED BY <1>17 DEF Follows

\* A nested source is used up.
LEMMA SourceClosed ==
  ASSUME RKept, ~Left, Kept', ~Left', Top.kind \in Saving, py' = Front(py),
         Here' = Under(Top, Here), got' = Nothing,
         Top.kind = "include" => include_pos >= FileLen[include_lines]
  PROVE  IS!Next
<1>1. PICK f, v, w, s, r : f = Top /\ v = py /\ w = Front(py) /\ s = Here /\ r = Here'
  OBVIOUS
<1>2. /\ Pushed(v, w, f) /\ w \in Seq(PyFrames) /\ f \in PyFrames /\ f.kind \in Saving
      /\ Shape(w)
  BY <1>1, UnderTop, OrderNow DEF Shape, Saving
<1>3. PICK x : x = [file |-> IF f.kind = "include" THEN s.lines ELSE None,
                    text |-> None, pos |-> 0,
                    next |-> IF f.kind = "include" THEN s.pos + 1 ELSE 1]
  OBVIOUS
<1>4. Src(v, s) = Append(Src(w, Under(f, s)), x)
  BY <1>2, <1>3, SrcSaving
<1>5. sources = Src(v, s) /\ Sound(s) /\ sources' = Src(w, r) /\ Sound(r)
  BY <1>1, MapNow, MapNext
<1>6. Pushed(sources, sources', x)
  BY <1>1, <1>4, <1>5 DEF Pushed
<1>7. x \in Places
  BY <1>3, <1>5, Sizes DEF Places, Sound, Texts
<1>8. sources' \in Seq(Places) /\ sources' # <<>>
  BY <1>2, <1>5, SrcSome
<1>9. x.text = None /\ (x.file # None => x.next > FileLen[x.file])
  <2>1. CASE f.kind = "include"
    <3>1. x.file = include_lines /\ x.next = include_pos + 1 /\ include_pos \in Nat
          /\ include_lines \in Known
      BY <1>1, <1>3, <1>5, <2>1 DEF Here, Sound
    <3>2. FileLen[include_lines] \in Nat
      BY <3>1, Sizes
    <3> QED BY <1>1, <1>3, <2>1, <3>1, <3>2
  <2>2. CASE f.kind # "include"
    BY <1>3, <2>2
  <2> QED BY <2>1, <2>2
<1> QED BY <1>6, <1>7, <1>8, <1>9, IsClose

LEMMA EvaluateEndsIs == ASSUME RKept, Kept', EvaluateEnds PROVE Follows
<1>1. /\ ~Left /\ ~Left' /\ Top.kind = "evaluate" /\ py' = Front(py) /\ got' = Nothing
      /\ toks' = Top.buf /\ to_in' = Top.cur /\ UNCHANGED <<include_lines, include_pos>>
  BY CalmNext DEF EvaluateEnds
<1>2. Here' = Under(Top, Here)
  BY <1>1 DEF Here, Under
<1>3. IS!Next
  BY <1>1, <1>2, SourceClosed DEF Saving
<1> QED BY <1>3 DEF Follows

LEMMA IncludeEndsIs == ASSUME RKept, Kept', IncludeEnds PROVE Follows
<1>1. /\ ~Left /\ ~Left' /\ Top.kind = "include" /\ py' = Front(py) /\ got' = Nothing
      /\ toks' = Top.buf /\ to_in' = Top.cur /\ include_pos >= Top.n
      /\ include_lines' = Top.lines /\ include_pos' = Top.pos
  BY CalmNext DEF IncludeEnds
<1>2. Here' = Under(Top, Here)
  BY <1>1 DEF Here, Under
<1>3. Top.n = FileLen[include_lines]
  BY <1>1, OwnLines DEF RKept, IncludeEnds
<1>4. IS!Next
  BY <1>1, <1>2, <1>3, SourceClosed DEF Saving
<1> QED BY <1>4 DEF Follows

\* The next line of the innermost source, a file.
LEMMA LineBegun ==
  ASSUME NEW B, NEW F \in Known, NEW k \in Nat, k <= FileLen[F], got' = Nothing,
         Step(B, Place(F, None, 0, k), Place(F, Line(F, k), 0, k + 1))
  PROVE  IS!Next
<1>1. PICK r, x, y : /\ r = Place(F, None, 0, k) /\ x = Place(F, Line(F, k), 0, k + 1)
                     /\ y = Place(F, Line(F, k), 0, k)
  OBVIOUS
<1>2. r.text = None /\ r.file = F /\ r.next = k
  BY <1>1 DEF Place
<1>3. F # None
  BY ParameterAssumption DEF Known
<1>4. y = [r EXCEPT !.text = Line(r.file, r.next)]
  BY <1>1, <1>2 DEF Place
<1>5. x = [y EXCEPT !.next = @ + 1]
  BY <1>1 DEF Place
<1>6. y.next = r.next
  BY <1>1 DEF Place
<1>7. x = [r EXCEPT !.text = Line(r.file, r.next), !.next = @ + 1]
  BY <1>4, <1>5, <1>6
<1> QED BY <1>1, <1>2, <1>3, <1>7, IsNextLine

LEMMA MainLineIs == ASSUME RKept, Kept', MainLine PROVE Follows
<1>1. /\ ~Left /\ ~Left' /\ Kept /\ Top.kind = "main" /\ Top \in MainFrames /\ got' = Nothing
      /\ Top.pos < FileLen[Main] /\ Len(py) = 1 /\ py[1] = Top /\ Shape(py)
  BY CalmNext, AtTop, OrderNow DEF MainLine
<1>2. PICK k, f, g, v : /\ k = Top.pos + 1 /\ f = [Top EXCEPT !.pos = @ + 1]
                        /\ g = Reading(Line(Main, k)) /\ v = <<f>>
  OBVIOUS
<1>3. /\ k \in Nat /\ k > 0 /\ k <= FileLen[Main] /\ Main \in Known /\ f \in MainFrames
      /\ f.kind = "main" /\ f.pos = k
  BY <1>1, <1>2, Sizes DEF MainFrames, Known
<1>4. f \in PyFrames
  BY <1>3 DEF PyFrames
<1>5. v \in Seq(PyFrames) /\ v # <<>> /\ Len(v) = 1 /\ v[1] = f
  BY <1>2, <1>4
<1>6. Shape(v) /\ Last(v) = f
  <2>1. Shape(v)
    BY <1>3, <1>5, Sizes DEF Shape, InFile
  <2>2. Last(v) = f
    BY <1>5, Topmost
  <2> QED BY <2>1, <2>2
<1>7. g \in LineFrames /\ g.toks = Line(Main, k) /\ g.i = 0 /\ ~g.busy
  <2>1. Line(Main, k) \in Texts
    BY <1>3 DEF Texts
  <2> QED BY <1>1, <1>2, <2>1, NewFrames DEF Reading, Kept
<1>8. Pushed(py', v, g)
  BY <1>2 DEF MainLine, Begin, Pushed
<1>9. PICK s, r, u, w, h : s = Here /\ r = Here' /\ u = py /\ w = py' /\ h = Top
  OBVIOUS
<1>10. /\ sources = Src(u, s) /\ Sound(s) /\ sources' = Src(w, r) /\ Sound(r) /\ Shape(w)
  BY <1>1, <1>9, MapNow, MapNext
<1>11. Pushed(Src(u, s), <<>>, Unread(Main, k)) /\ Unread(Main, k) \in Places
  <2>1. Shape(u) /\ h = Last(u) /\ h.kind = "main" /\ h.kind \in Openings
    BY <1>1, <1>9 DEF Top, Openings
  <2>2. PICK B : Innermost(B, u, h, s)
    BY <2>1, SrcOnLine
  <2>3. B = <<>> /\ Sees(h, s, s) /\ FileOf(h, s) = Main /\ NextOf(h, s) = k
    BY <1>2, <1>9, <2>1, <2>2 DEF Innermost, Sees, FileOf, NextOf
  <2> QED BY <1>10, <2>2, <2>3 DEF Innermost
<1>12. /\ Pushed(Src(w, r), <<>>, Current(Main, k + 1, g, r))
       /\ Current(Main, k + 1, g, r) \in Places
  <2>1. Shape(v) /\ f = Last(v) /\ f.kind = "main" /\ f.kind \in Openings
    BY <1>3, <1>6 DEF Openings
  <2>2. PICK B : Innermost(B, v, f, r)
    BY <2>1, SrcOnLine
  <2>3. B = <<>> /\ Sees(f, r, r) /\ FileOf(f, r) = Main /\ NextOf(f, r) = k + 1
    BY <1>3, <2>1, <2>2 DEF Innermost, Sees, FileOf, NextOf
  <2>4. Pushed(w, v, g)
    BY <1>8, <1>9
  <2> QED BY <1>7, <1>10, <2>2, <2>3, <2>4 DEF Innermost
<1>13. /\ Unread(Main, k) = Place(Main, None, 0, k)
       /\ Current(Main, k + 1, g, r) = Place(Main, Line(Main, k), 0, k + 1)
  BY <1>7 DEF Unread, Current, Place
<1>14. Step(<<>>, Place(Main, None, 0, k), Place(Main, Line(Main, k), 0, k + 1))
  <2>1. <<>> \in Seq(Places)
    OBVIOUS
  <2> QED BY <1>10, <1>11, <1>12, <1>13, <2>1 DEF Step
<1>15. IS!Next
  BY <1>1, <1>3, <1>14, LineBegun
<1> QED BY <1>15 DEF Follows

LEMMA IncludeLineIs == ASSUME RKept, Kept', IncludeLine PROVE Follows
<1>1. /\ ~Left /\ ~Left' /\ Kept /\ Top.kind = "include" /\ got' = Nothing
      /\ Shape(py) /\ include_lines' = include_lines /\ include_lines \in Known
  BY CalmNext, OrderNow DEF IncludeLine, Kept, Fields
<1>2. PICK k, g :
           /\ k = include_pos + 1 /\ k \in Nat /\ k <= FileLen[include_lines]
           /\ include_pos' = k /\ g = Reading(Line(include_lines, k)) /\ g \in LineFrames
           /\ Pushed(py', py, g)
  BY FileLine
<1>3. PICK s, r, u, w, h : s = Here /\ r = Here' /\ u = py /\ w = py' /\ h = Top
  OBVIOUS
<1>4. /\ sources = Src(u, s) /\ Sound(s) /\ sources' = Src(w, r) /\ Sound(r) /\ Shape(w)
  BY <1>1, <1>3, MapNow, MapNext
<1>5. Shape(u) /\ h = Last(u) /\ h.kind = "include" /\ h.kind \in Openings
  BY <1>1, <1>3 DEF Top, Openings
<1>6. PICK B : Innermost(B, u, h, s)
  BY <1>5, SrcOnLine
<1>7. PICK F : F = include_lines
  OBVIOUS
<1>8. /\ Sees(h, s, s) /\ FileOf(h, s) = F /\ NextOf(h, s) = k
      /\ Sees(h, s, r) /\ FileOf(h, r) = F /\ NextOf(h, r) = k + 1
  BY <1>1, <1>2, <1>3, <1>5, <1>7 DEF Sees, FileOf, NextOf, Here
<1>9. /\ B \in Seq(Places) /\ Unread(F, k) \in Places /\ Pushed(Src(u, s), B, Unread(F, k))
  BY <1>4, <1>6, <1>8 DEF Innermost
<1>10. /\ Current(F, k + 1, g, r) \in Places
       /\ Pushed(Src(w, r), B, Current(F, k + 1, g, r))
  <2>1. Pushed(w, u, g)
    BY <1>2, <1>3
  <2> QED BY <1>2, <1>4, <1>6, <1>8, <2>1 DEF Innermost
<1>11. /\ Unread(F, k) = Place(F, None, 0, k)
       /\ Current(F, k + 1, g, r) = Place(F, Line(F, k), 0, k + 1)
  BY <1>2, <1>7 DEF Unread, Current, Place, Reading
<1>12. Step(B, Place(F, None, 0, k), Place(F, Line(F, k), 0, k + 1))
  BY <1>4, <1>9, <1>10, <1>11 DEF Step
<1>13. IS!Next
  BY <1>1, <1>2, <1>7, <1>12, LineBegun
<1> QED BY <1>13 DEF Follows
-----------------------------------------------------------------------------
(* REFILL.                                                                 *)

\* Lists of as many elements are of the same length.
ListOf(T, n, O, a, g) == Picked(n, O, a, g) /\ \A k \in 1..n : k \in O => a[k] \in T

LEMMA PickedLengths ==
  ASSUME NEW n \in Nat, NEW O, NEW T, NEW a, NEW g, ListOf(T, n, O, a, g),
         NEW b, NEW h, ListOf(T, n, O, b, h), NEW k \in 0..n
  PROVE  Len(g[k]) = Len(h[k])
<1>0. /\ Picked(n, O, a, g) /\ \A i \in 1..n : i \in O => a[i] \in T
      /\ Picked(n, O, b, h) /\ \A i \in 1..n : i \in O => b[i] \in T
  BY DEF ListOf
<1> DEFINE bad == {j \in Nat : j <= n /\ Len(g[j]) # Len(h[j])}
<1> SUFFICES ASSUME bad # {} PROVE FALSE
  OBVIOUS
<1>1. PICK j \in bad : \A i \in bad : j <= i
  BY LeastNatural
<1>2. j # 0
  BY <1>0, ListSteps
<1>3. j \in 1..n /\ j - 1 \in 0..n /\ j - 1 \notin bad
  BY <1>1, <1>2
<1>4. PICK p : p = j - 1 /\ p \in 0..n
  BY <1>3
<1>5. Len(g[p]) = Len(h[p])
  BY <1>3, <1>4
<1>6. g[p] \in Seq(T) /\ h[p] \in Seq(T)
  BY <1>0, <1>4, PickedPlaces DEF Standing
<1>7. /\ g[j] = IF j \in O THEN Append(g[p], a[j]) ELSE g[p]
      /\ h[j] = IF j \in O THEN Append(h[p], b[j]) ELSE h[p]
  BY <1>0, <1>3, <1>4, ListSteps
<1>8. CASE j \in O
  <2>1. PICK x, y, u, w : x = a[j] /\ y = b[j] /\ u = g[p] /\ w = h[p]
    OBVIOUS
  <2>2. x \in T /\ y \in T /\ u \in Seq(T) /\ w \in Seq(T) /\ Len(u) = Len(w)
    BY <1>0, <1>3, <1>5, <1>6, <1>8, <2>1
  <2>3. Len(Append(u, x)) = Len(u) + 1 /\ Len(Append(w, y)) = Len(w) + 1
    BY <2>2, OnTop
  <2> QED BY <1>1, <1>7, <1>8, <2>1, <2>2, <2>3
<1>9. CASE j \notin O
  BY <1>1, <1>5, <1>7, <1>9
<1> QED BY <1>8, <1>9

LEMMA GreatestNatural ==
  ASSUME NEW c \in Nat, NEW S \in SUBSET (1..c), S # {}
  PROVE  \E m \in S : \A k \in S : k <= m
<1> DEFINE D == {d \in Nat : c - d \in S}
<1>1. D # {}
  <2>1. PICK k \in S : TRUE
    OBVIOUS
  <2>2. k \in 1..c /\ c - k \in Nat /\ c - (c - k) = k
    OBVIOUS
  <2> QED BY <2>1, <2>2
<1>2. PICK d \in D : \A e \in D : d <= e
  <2> HIDE DEF D
  <2>1. D \in SUBSET Nat
    BY DEF D
  <2> QED BY <1>1, <2>1, LeastNatural
<1>3. PICK m : m = c - d
  OBVIOUS
<1>4. m \in S /\ m \in 1..c /\ d \in Nat
  BY <1>2, <1>3
<1>5. ASSUME NEW k \in S PROVE k <= m
  <2>1. k \in 1..c /\ c - k \in Nat /\ c - (c - k) = k
    OBVIOUS
  <2>2. PICK e : e = c - k
    OBVIOUS
  <2>3. e \in D
    BY <2>1, <2>2
  <2>4. d <= e
    <3> HIDE DEF D
    <3> QED BY <1>2, <2>3
  <2> QED BY <1>3, <1>4, <2>1, <2>2, <2>4
<1> QED BY <1>4, <1>5

LEMMA MaxIs ==
  ASSUME NEW S \in SUBSET Nat, NEW m \in S, \A k \in S : k <= m
  PROVE  IS!Max(S) = m
<1>1. IS!Max(S) \in S /\ \A k \in S : IS!Max(S) >= k
  BY DEF IS!Max
<1>2. PICK x : x = IS!Max(S)
  OBVIOUS
<1>3. x \in Nat /\ m \in Nat /\ x >= m /\ x <= m
  BY <1>1, <1>2
<1> QED BY <1>2, <1>3

\* The sources that are included files.
Named(t) == {k \in 2..Len(t) : t[k].file # None}
Includes(v) == {k \in 1..Len(v) : v[k].kind = "include"}

\* Each source of t is opened by one frame, and those further out by outer ones.
OneEach(v, s, g, t) ==
  /\ t \in Seq(Places) /\ Len(t) \in Nat
  /\ \A j \in Openers(v) : /\ j \in 1..Len(v) /\ Len(g[j]) \in 1..Len(t)
                           /\ t[Len(g[j])] = At(v, s, j)
  /\ \A i \in 1..Len(t) : \E j \in Openers(v) : Len(g[j]) = i
  /\ \A i, j \in Openers(v) : i < j => Len(g[i]) < Len(g[j])
  /\ 1 \in Openers(v) /\ Len(g[1]) = 1

LEMMA OpenedBy ==
  ASSUME NEW v, Shape(v), NEW s, Sound(s), NEW g, g = To(v, s), NEW t, t = Src(v, s)
  PROVE  OneEach(v, s, g, t)
<1>1. PICK c, O, a : c = Len(v) /\ O = Openers(v) /\ a = Row(v, s)
  OBVIOUS
<1>2. v \in Seq(PyFrames) /\ c \in Nat /\ c > 0 /\ v[1].kind = "main"
  <2>1. v \in Seq(PyFrames) /\ v # <<>>
    BY DEF Shape
  <2>2. c \in Nat /\ c > 0
    BY <1>1, <2>1, Topmost
  <2> QED BY <1>1, <2>1, <2>2 DEF Shape
<1>3. Picked(c, O, a, g) /\ c \in 0..c
  BY <1>1, <1>2, ToPicked
<1>4. \A j \in 1..c : j \in O => a[j] \in Places
  BY <1>1, <1>2, AtTyped DEF Row, Openers
<1>5. Standing(O, Places, a, g, c)
  BY <1>2, <1>3, <1>4, PickedPlaces
<1>6. t = g[c]
  BY <1>1 DEF Src
<1>7. \A j \in O : j \in 1..c /\ a[j] = At(v, s, j)
  BY <1>1 DEF Openers, Row
<1>8. 1 \in O
  BY <1>1, <1>2 DEF Openers, Openings
<1>9. Len(g[1]) = 1
  <2>1. g[0] = <<>> /\ \A k \in 1..c : g[k] = IF k \in O THEN Append(g[k - 1], a[k]) ELSE g[k - 1]
    BY <1>2, <1>3, ListSteps
  <2>2. 1 \in 1..c /\ 1 - 1 = 0
    BY <1>2
  <2>3. g[1] = Append(<<>>, a[1])
    BY <1>8, <2>1, <2>2
  <2> QED BY <2>3
<1> QED BY <1>1, <1>5, <1>6, <1>7, <1>8, <1>9 DEF Standing, OneEach

\* A source other than the first has a file if INCLUDED has opened it.
LEMMA NamedAre ==
  ASSUME NEW v, Shape(v), NEW s, Sound(s), NEW g, g = To(v, s), NEW t, t = Src(v, s)
  PROVE  /\ \A j \in Includes(v) : j \in Openers(v) /\ Len(g[j]) \in Named(t)
         /\ \A i \in Named(t) : \E j \in Includes(v) : Len(g[j]) = i
<1>1. /\ t \in Seq(Places) /\ Len(t) \in Nat
      /\ \A j \in Openers(v) : /\ j \in 1..Len(v) /\ Len(g[j]) \in 1..Len(t)
                               /\ t[Len(g[j])] = At(v, s, j)
      /\ \A i \in 1..Len(t) : \E j \in Openers(v) : Len(g[j]) = i
      /\ \A i, j \in Openers(v) : i < j => Len(g[i]) < Len(g[j])
      /\ 1 \in Openers(v) /\ Len(g[1]) = 1
  BY OpenedBy DEF OneEach
<1>2. v \in Seq(PyFrames) /\ Len(v) \in Nat /\ \A k \in 1..Len(v) : v[k].kind = "main" <=> k = 1
  BY LenProperties DEF Shape
<1>3. ASSUME NEW j \in Includes(v)
      PROVE  j \in Openers(v) /\ Len(g[j]) \in Named(t)
  <2>1. j \in 1..Len(v) /\ v[j].kind = "include"
    BY DEF Includes
  <2>2. j \in Openers(v) /\ j # 1 /\ j \in Nat
    BY <1>2, <2>1 DEF Openers, Openings
  <2>3. 1 < j
    BY <2>1, <2>2
  <2>4. Len(g[1]) < Len(g[j]) /\ Len(g[j]) \in 1..Len(t)
    BY <1>1, <2>2, <2>3
  <2>5. Len(g[j]) \in 2..Len(t)
    BY <1>1, <2>4
  <2>6. Sound(Saved(v, s, j, Including))
    BY <1>2, <2>2, SavedIsSound DEF Including, Saving
  <2>7. At(v, s, j).file \in Known
    BY <2>1, <2>6 DEF At, FileAt, Sound
  <2>8. At(v, s, j).file # None
    BY <2>7, ParameterAssumption DEF Known
  <2> QED BY <1>1, <2>2, <2>5, <2>8 DEF Named
<1>4. ASSUME NEW i \in Named(t)
      PROVE  \E j \in Includes(v) : Len(g[j]) = i
  <2>1. i \in 1..Len(t) /\ i # 1 /\ t[i].file # None
    BY <1>1 DEF Named
  <2>2. PICK j \in Openers(v) : Len(g[j]) = i
    BY <1>1, <2>1
  <2>3. j # 1 /\ j \in 1..Len(v) /\ t[i] = At(v, s, j) /\ v[j].kind \in Openings
    BY <1>1, <2>1, <2>2 DEF Openers
  <2>4. v[j].kind # "main"
    BY <1>2, <2>3
  <2>5. v[j].kind # "evaluate"
    BY <2>1, <2>3 DEF At, FileAt
  <2> QED BY <2>2, <2>3, <2>4, <2>5 DEF Includes, Openings
<1> QED BY <1>3, <1>4
\* A source, once a line is read into it, or from the file it is.
Moved(a, last, named, text) ==
  [file |-> a.file, text |-> IF last THEN text ELSE a.text,
   pos |-> IF last THEN 0 ELSE a.pos, next |-> IF named THEN a.next + 1 ELSE a.next]

Refilled(a, last, named, text) ==
  [a EXCEPT !.next = IF named THEN @ + 1 ELSE @,
            !.text = IF last THEN text ELSE @,
            !.pos = IF last THEN 0 ELSE @]

LEMMA MovedIs ==
  ASSUME NEW a \in Places, NEW last, NEW named, NEW text
  PROVE  Refilled(a, last, named, text) = Moved(a, last, named, text)
<1>1. PICK F, x, p, n : a = Place(F, x, p, n)
  BY DEF Places, Place
<1>2. PICK n1, x1, p1 : /\ n1 = (IF named THEN n + 1 ELSE n)
                        /\ x1 = (IF last THEN text ELSE x)
                        /\ p1 = (IF last THEN 0 ELSE p)
  OBVIOUS
<1>3. PICK b : b = Place(F, x, p, n1)
  OBVIOUS
<1>4. b = [a EXCEPT !.next = IF named THEN @ + 1 ELSE @]
  BY <1>1, <1>2, <1>3 DEF Place
<1>5. PICK d : d = Place(F, x1, p, n1)
  OBVIOUS
<1>6. d = [b EXCEPT !.text = IF last THEN text ELSE @]
  BY <1>2, <1>3, <1>5 DEF Place
<1>7. PICK e : e = Place(F, x1, p1, n1)
  OBVIOUS
<1>8. e = [d EXCEPT !.pos = IF last THEN 0 ELSE @]
  BY <1>2, <1>5, <1>7 DEF Place
<1>9. e = Moved(a, last, named, text)
  BY <1>1, <1>2, <1>7 DEF Place, Moved
<1>10. a.text = x /\ a.pos = p /\ b.text = x /\ d.pos = p
  BY <1>1, <1>3, <1>5 DEF Place
<1> QED BY <1>4, <1>6, <1>8, <1>9, <1>10 DEF Refilled

\* n opens the source that is read, q the innermost that is a file.
Reader(v, n) ==
  /\ n \in Openers(v) /\ n < Len(v) /\ v[n + 1].kind = "line" /\ v[n + 1].busy
  /\ \A j \in Openers(v) : j <= n
Filer(v, q) == q \in Includes(v) /\ \A j \in Includes(v) : j <= q

LEMMA RefillAt ==
  ASSUME NEW v, Shape(v), NEW s, NEW r, s.lines = r.lines, r.pos = s.pos + 1, r.cur = 0,
         NEW n, Reader(v, n), NEW q, Filer(v, q), NEW j \in Openers(v)
  PROVE  At(v, r, j) = Moved(At(v, s, j), j = n, j = q, r.buf)
<1>1. /\ v \in Seq(PyFrames) /\ Len(v) \in Nat /\ DOMAIN v = 1..Len(v)
      /\ j \in 1..Len(v) /\ n \in 1..Len(v) /\ q \in 1..Len(v)
      /\ v[j].kind \in Openings /\ v[n].kind \in Openings /\ v[q].kind = "include"
      /\ j <= n /\ j \in Nat /\ n \in Nat /\ q \in Nat
  BY LenProperties DEF Shape, Openers, Reader, Filer, Includes
<1>2. ASSUME NEW x
      PROVE  /\ Saved(v, x, q, Including) = x
             /\ Saved(v, x, n, Saving) = x
  <2>1. Higher(v, q, Including) = {}
    BY <1>1 DEF Higher, Including, Filer, Includes
  <2>2. Higher(v, n, Saving) = {}
    BY <1>1 DEF Higher, Saving, Openers, Openings, Reader
  <2> QED BY <2>1, <2>2 DEF Saved
<1>3. ASSUME j # n
      PROVE  Saved(v, s, j, Saving) = Saved(v, r, j, Saving)
  <2>1. j < n /\ n # 1
    BY <1>1, <1>3
  <2>2. v[n].kind \in Saving
    BY <1>1, <2>1 DEF Shape, Openings, Saving
  <2>3. n \in Higher(v, j, Saving)
    BY <1>1, <2>1, <2>2 DEF Higher
  <2> QED BY <2>3 DEF Saved
<1>4. ASSUME v[j].kind = "include", j # q
      PROVE  Saved(v, s, j, Including) = Saved(v, r, j, Including)
  <2>1. j \in Includes(v)
    BY <1>1, <1>4 DEF Includes
  <2>2. j < q
    BY <1>1, <1>4, <2>1 DEF Filer
  <2>3. q \in Higher(v, j, Including)
    BY <1>1, <2>2 DEF Higher, Including
  <2> QED BY <2>3 DEF Saved
<1>5. FileAt(v, r, j) = FileAt(v, s, j)
  <2>1. CASE j = q
    BY <1>1, <1>2, <2>1 DEF FileAt
  <2>2. CASE j # q
    BY <1>1, <1>4, <2>2 DEF FileAt, Openings
  <2> QED BY <2>1, <2>2
<1>6. NextAt(v, r, j) = IF j = q THEN NextAt(v, s, j) + 1 ELSE NextAt(v, s, j)
  <2>1. CASE j = q
    BY <1>1, <1>2, <2>1 DEF NextAt
  <2>2. CASE j # q
    BY <1>1, <1>4, <2>2 DEF NextAt, Openings
  <2> QED BY <2>1, <2>2
<1>7. /\ TextAt(v, r, j) = IF j = n THEN r.buf ELSE TextAt(v, s, j)
      /\ PosAt(v, r, j) = IF j = n THEN 0 ELSE PosAt(v, s, j)
  <2>1. CASE j = n
    <3>1. IsRead(v, j) /\ v[j + 1].busy
      BY <2>1 DEF IsRead, Reader
    <3> QED BY <1>2, <2>1, <3>1 DEF TextAt, PosAt
  <2>2. CASE j # n
    BY <1>3, <2>2 DEF TextAt, PosAt
  <2> QED BY <2>1, <2>2
<1> QED BY <1>5, <1>6, <1>7 DEF At, Moved

LEMMA IsRefill ==
  ASSUME NEW t \in Seq(Places), t = sources, NEW w \in Seq(Places), w = sources',
         Len(w) = Len(t), IS!InLine, IS!Files # {}, NEW m, m = IS!Innermost,
         NEW f, f = t[m], f.next <= FileLen[f.file], NEW text, text = Line(f.file, f.next),
         \A i \in 1..Len(t) : w[i] = Moved(t[i], i = Len(t), i = m, text),
         got' = Flag(TRUE)
  PROVE  IS!Next
<1>1. DOMAIN t = 1..Len(t) /\ Len(t) \in Nat
  BY LenProperties
<1>2. w = [i \in 1..Len(t) |-> w[i]]
  BY <1>1
<1>3. \A i \in 1..Len(t) : t[i] \in Places
  BY <1>1
<1> DEFINE R(i) == Refilled(t[i], i = Len(t), i = m, text)
<1>4. \A i \in 1..Len(t) : w[i] = R(i)
  <2> SUFFICES ASSUME NEW i \in 1..Len(t) PROVE w[i] = R(i)
    OBVIOUS
  <2>1. R(i) = Moved(t[i], i = Len(t), i = m, text)
    <3>1. PICK a, last, named : a = t[i] /\ last = (i = Len(t)) /\ named = (i = m)
      OBVIOUS
    <3>2. a \in Places
      BY <1>3, <3>1
    <3>3. Refilled(a, last, named, text) = Moved(a, last, named, text)
      BY <3>2, MovedIs
    <3> QED BY <3>1, <3>3, Zenon
  <2>2. w[i] = Moved(t[i], i = Len(t), i = m, text)
    OBVIOUS
  <2> HIDE DEF R
  <2> QED BY <2>1, <2>2, Zenon
<1>5. w = [i \in DOMAIN t |-> R(i)]
  <2> HIDE DEF R
  <2> QED BY <1>1, <1>2, <1>4
<1>6. IS!Refill
  BY <1>5, Zenon DEF R, Refilled, IS!Refill, IS!Flag, Flag, IS!Line, Line
<1> QED BY <1>6 DEF IS!Next

\* The innermost file of the sources is the one the fields name.
LEMMA InnermostFile ==
  ASSUME NEW v, Shape(v), NEW s, Sound(s), NEW q, Filer(v, q),
         NEW g, g = To(v, s), NEW t, t = Src(v, s), sources = t
  PROVE  /\ IS!Files # {} /\ IS!Innermost = Len(g[q]) /\ q \in Openers(v)
         /\ t[Len(g[q])].file = s.lines /\ t[Len(g[q])].next = s.pos + 1
<1>1. /\ \A j \in Includes(v) : j \in Openers(v) /\ Len(g[j]) \in Named(t)
      /\ \A i \in Named(t) : \E j \in Includes(v) : Len(g[j]) = i
  BY NamedAre
<1>2. /\ t \in Seq(Places) /\ Len(t) \in Nat
      /\ \A j \in Openers(v) : /\ j \in 1..Len(v) /\ Len(g[j]) \in 1..Len(t)
                               /\ t[Len(g[j])] = At(v, s, j)
      /\ \A i, j \in Openers(v) : i < j => Len(g[i]) < Len(g[j])
  BY OpenedBy DEF OneEach
<1>3. q \in Includes(v) /\ q \in Openers(v) /\ \A j \in Includes(v) : j <= q
  BY <1>1 DEF Filer
<1>4. PICK m, S : m = Len(g[q]) /\ S = Named(t)
  OBVIOUS
<1>5. m \in S /\ S \in SUBSET Nat
  BY <1>1, <1>2, <1>3, <1>4 DEF Named
<1>6. ASSUME NEW i \in S PROVE i <= m
  <2>1. PICK j \in Includes(v) : Len(g[j]) = i
    BY <1>1, <1>4
  <2>2. j \in Openers(v) /\ j <= q /\ j \in Nat /\ q \in Nat
    BY <1>1, <1>3, <2>1 DEF Openers
  <2>3. j = q \/ j < q
    BY <2>2
  <2>4. Len(g[q]) \in Nat /\ i \in Nat
    BY <1>4, <1>5
  <2>5. CASE j = q
    BY <1>4, <2>1, <2>4, <2>5
  <2>6. CASE j < q
    <3>1. Len(g[j]) < Len(g[q])
      BY <1>2, <1>3, <2>2, <2>6
    <3> QED BY <1>4, <2>1, <2>4, <3>1
  <2> QED BY <2>3, <2>5, <2>6
<1>7. IS!Files = S
  BY <1>4 DEF IS!Files, Named
<1>8. IS!Innermost = m
  BY <1>5, <1>6, <1>7, MaxIs DEF IS!Innermost
<1>9. v[q].kind = "include" /\ v \in Seq(PyFrames) /\ DOMAIN v = 1..Len(v)
  BY <1>3 DEF Includes, Shape
<1>10. Saved(v, s, q, Including) = s
  <2>1. Higher(v, q, Including) = {}
    BY <1>3, <1>9 DEF Higher, Including, Includes
  <2> QED BY <2>1 DEF Saved
<1>11. At(v, s, q).file = s.lines /\ At(v, s, q).next = s.pos + 1
  BY <1>9, <1>10 DEF At, FileAt, NextAt
<1>12. t[m] = At(v, s, q)
  BY <1>2, <1>3, <1>4
<1> QED BY <1>3, <1>4, <1>5, <1>7, <1>8, <1>11, <1>12

\* There is none if no INCLUDED is in progress.
LEMMA NoFiles ==
  ASSUME NEW v, Shape(v), NEW s, Sound(s), Includes(v) = {}, sources = Src(v, s)
  PROVE  IS!Files = {}
<1>1. PICK g, t : g = To(v, s) /\ t = Src(v, s)
  OBVIOUS
<1>2. \A i \in Named(t) : \E j \in Includes(v) : Len(g[j]) = i
  BY <1>1, NamedAre
<1>3. IS!Files = Named(t)
  BY <1>1 DEF IS!Files, Named
<1> QED BY <1>2, <1>3

\* The innermost file, and the line read from it in the place of another.
LEMMA Replaced ==
  ASSUME NEW v, Shape(v), NEW s, Sound(s), NEW r, Sound(r),
         s.lines = r.lines, r.pos = s.pos + 1, r.cur = 0,
         NEW n, Reader(v, n), NEW q, Filer(v, q),
         NEW t, t = Src(v, s), NEW w, w = Src(v, r), NEW m, m = Len(To(v, s)[q])
  PROVE  /\ t \in Seq(Places) /\ w \in Seq(Places) /\ Len(w) = Len(t)
         /\ \A i \in 1..Len(t) : w[i] = Moved(t[i], i = Len(t), i = m, r.buf)
<1>1. PICK g, h : g = To(v, s) /\ h = To(v, r)
  OBVIOUS
<1>0. OneEach(v, s, g, t) /\ OneEach(v, r, h, w)
  BY <1>1, OpenedBy
<1>2. /\ t \in Seq(Places) /\ Len(t) \in Nat
      /\ \A j \in Openers(v) : /\ j \in 1..Len(v) /\ Len(g[j]) \in 1..Len(t)
                               /\ t[Len(g[j])] = At(v, s, j)
      /\ \A i \in 1..Len(t) : \E j \in Openers(v) : Len(g[j]) = i
      /\ \A i, j \in Openers(v) : i < j => Len(g[i]) < Len(g[j])
  BY <1>0 DEF OneEach
<1>3. /\ w \in Seq(Places) /\ Len(w) \in Nat
      /\ \A j \in Openers(v) : w[Len(h[j])] = At(v, r, j)
  BY <1>0 DEF OneEach
<1>4. ASSUME NEW k \in 0..Len(v)
      PROVE  Len(g[k]) = Len(h[k])
  <2>1. PICK c, O, a, b : c = Len(v) /\ O = Openers(v) /\ a = Row(v, s) /\ b = Row(v, r)
    OBVIOUS
  <2>2. v \in Seq(PyFrames) /\ c \in Nat /\ k \in 0..c
    BY <2>1, LenProperties DEF Shape
  <2>3. Picked(c, O, a, g) /\ Picked(c, O, b, h)
    BY <1>1, <2>1, <2>2, ToPicked
  <2>4. \A j \in 1..c : j \in O => a[j] \in Places /\ b[j] \in Places
    BY <2>1, <2>2, AtTyped DEF Row, Openers
  <2>5. /\ \A j \in 1..c : j \in O => a[j] \in Places
        /\ \A j \in 1..c : j \in O => b[j] \in Places
    BY <2>4
  <2>6. ListOf(Places, c, O, a, g) /\ ListOf(Places, c, O, b, h)
    BY <2>3, <2>5 DEF ListOf
  <2> QED BY <2>2, <2>6, PickedLengths
<1>5. Len(w) = Len(t)
  <2>1. Len(v) \in 0..Len(v)
    BY LenProperties DEF Shape
  <2> QED BY <1>1, <1>4, <2>1 DEF Src
<1>6. n \in Openers(v) /\ q \in Openers(v) /\ (\A j \in Openers(v) : j <= n)
      /\ \A j \in Openers(v) : j \in Nat
  BY DEF Reader, Filer, Includes, Openers, Openings
<1>7. ASSUME NEW i \in 1..Len(t)
      PROVE  w[i] = Moved(t[i], i = Len(t), i = m, r.buf)
  <2>1. PICK j \in Openers(v) : Len(g[j]) = i
    BY <1>2
  <2>2. j \in 0..Len(v) /\ t[i] = At(v, s, j) /\ w[i] = At(v, r, j)
    <3>1. j \in 1..Len(v) /\ j \in 0..Len(v)
      BY <1>2
    <3>2. Len(h[j]) = i
      BY <1>4, <2>1, <3>1
    <3> QED BY <1>2, <1>3, <2>1, <3>1, <3>2
  <2>3. At(v, r, j) = Moved(At(v, s, j), j = n, j = q, r.buf)
    BY RefillAt
  <2>4. i = m <=> j = q
    <3>1. j = q \/ j < q \/ q < j
      BY <1>6
    <3>2. Len(g[j]) \in Nat /\ Len(g[q]) \in Nat
      BY <1>2, <1>6
    <3> QED BY <1>1, <1>2, <1>6, <2>1, <3>1, <3>2
  <2>5. i = Len(t) <=> j = n
    <3>1. PICK k \in Openers(v) : Len(g[k]) = Len(t)
      BY <1>2
    <3>2. k = n
      <4>1. k = n \/ k < n
        BY <1>6
      <4>2. Len(g[n]) \in 1..Len(t)
        BY <1>2, <1>6
      <4>3. k < n => Len(g[k]) < Len(g[n])
        BY <1>2, <1>6
      <4> QED BY <1>2, <3>1, <4>1, <4>2, <4>3
    <3>3. j = n \/ j < n
      BY <1>6
    <3>4. j < n => Len(g[j]) < Len(g[n])
      BY <1>2, <1>6
    <3> QED BY <1>2, <2>1, <3>1, <3>2, <3>3, <3>4
  <2> QED BY <2>2, <2>3, <2>4, <2>5, Zenon
<1> QED BY <1>2, <1>3, <1>5, <1>7

LEMMA ReadsLine ==
  ASSUME NEW B, NEW r, BeingRead(B, r)
  PROVE  IS!InLine
<1>1. sources # <<>> /\ Last(sources) = r /\ r.text # None
  BY EndOf DEF BeingRead
<1> QED BY <1>1 DEF IS!InLine, IS!Top, IS!Last, Last

LEMMA RefillIs == ASSUME RKept, Kept', Refill PROVE Follows
<1>1. /\ ~Left /\ ~Left' /\ Kept /\ UNCHANGED <<py, include_lines>>
      /\ Top.kind = "catch" \/ (Top.kind = "line" /\ Top.busy)
      /\ Shape(py) /\ Orderly(py) /\ Ordered(py, toks, include_lines)
      /\ include_lines \in Known /\ include_pos \in Nat
  BY CalmNext, OrderNow DEF Refill, InWord, Kept, Fields
<1>2. PICK v, s, r, t, w : /\ v = py /\ s = Here /\ r = Here'
                           /\ t = sources /\ w = sources'
  OBVIOUS
<1>3. Sound(s) /\ Sound(r) /\ t = Src(v, s) /\ w = Src(v, r) /\ Shape(v)
  BY <1>1, <1>2, MapNow, MapNext
<1>4. IS!InLine
  BY <1>1, WordReads, ReadsLine
<1>5. PICK n : Reader(v, n)
  <2>1. /\ Shape(v) /\ Orderly(v)
        /\ Last(v).kind = "catch" \/ (Last(v).kind = "line" /\ Last(v).busy)
    BY <1>1, <1>2 DEF Top
  <2> QED BY <2>1, WordOn DEF Reader
<1>6. s.lines = include_lines /\ s.pos = include_pos
  BY <1>2 DEF Here
<1>7. Includes(v) # {} => \E q : Filer(v, q)
  <2>1. PICK c, S : c = Len(v) /\ S = Includes(v)
    OBVIOUS
  <2>2. c \in Nat /\ S \in SUBSET (1..c)
    BY <1>3, <2>1, LenProperties DEF Shape, Includes
  <2>3. S # {} => \E m \in S : \A k \in S : k <= m
    BY <2>2, GreatestNatural
  <2> QED BY <2>1, <2>3 DEF Filer
<1>8. FileLen[include_lines] \in Nat
  BY <1>1, Sizes
<1>9. CASE include_pos < FileLen[include_lines]
  <2>1. /\ toks' = Line(include_lines, include_pos + 1) /\ include_pos' = include_pos + 1
        /\ to_in' = 0 /\ got' = Flag(TRUE)
    BY <1>9 DEF Refill
  <2>2. Includes(v) # {}
    <3>1. SUFFICES ASSUME Includes(v) = {} PROVE FALSE
      OBVIOUS
    <3>2. Len(v) \in Nat
      BY <1>3, LenProperties DEF Shape
    <3>3. \A j \in 1..((Len(v) + 1) - 1) : v[j].kind # "include"
      BY <3>1, <3>2 DEF Includes
    <3>4. Outermost(v, Len(v) + 1, include_lines)
      BY <1>1, <1>2 DEF Ordered
    <3>5. include_lines = NoFile
      BY <3>3, <3>4 DEF Outermost
    <3> QED BY <1>1, <1>9, <3>5, ParameterAssumption
  <2>3. PICK q : Filer(v, q)
    BY <1>7, <2>2
  <2>4. PICK m : m = Len(To(v, s)[q])
    OBVIOUS
  <2>5. /\ IS!Files # {} /\ IS!Innermost = m
        /\ t[m].file = include_lines /\ t[m].next = include_pos + 1
    BY <1>2, <1>3, <1>6, <2>3, <2>4, InnermostFile
  <2>6. /\ s.lines = r.lines /\ r.pos = s.pos + 1 /\ r.cur = 0
        /\ r.buf = Line(include_lines, include_pos + 1)
    BY <1>1, <1>2, <2>1 DEF Here
  <2>7. /\ t \in Seq(Places) /\ w \in Seq(Places) /\ Len(w) = Len(t)
        /\ \A i \in 1..Len(t) : w[i] = Moved(t[i], i = Len(t), i = m, r.buf)
    BY <1>3, <1>5, <2>3, <2>4, <2>6, Replaced
  <2>8. PICK f, text : f = t[m] /\ text = Line(f.file, f.next)
    OBVIOUS
  <2>9. f.next <= FileLen[f.file] /\ text = r.buf
    BY <1>1, <1>8, <1>9, <2>5, <2>6, <2>8
  <2>10. IS!Next
    BY <1>2, <1>4, <2>1, <2>5, <2>7, <2>8, <2>9, IsRefill
  <2> QED BY <2>10 DEF Follows
<1>10. CASE ~(include_pos < FileLen[include_lines])
  <2>1. UNCHANGED <<toks, include_pos, to_in>> /\ got' = Flag(FALSE)
    BY <1>10 DEF Refill
  <2>2. r = s
    BY <1>1, <1>2, <2>1 DEF Here
  <2>3. sources' = sources
    BY <1>2, <1>3, <2>2
  <2>4. IS!Files # {} => sources[IS!Innermost].next > FileLen[sources[IS!Innermost].file]
    <3>1. CASE Includes(v) = {}
      BY <1>2, <1>3, <3>1, NoFiles
    <3>2. CASE Includes(v) # {}
      <4>1. PICK q : Filer(v, q)
        BY <1>7, <3>2
      <4>2. PICK m : m = Len(To(v, s)[q])
        OBVIOUS
      <4>3. IS!Innermost = m /\ t[m].file = include_lines /\ t[m].next = include_pos + 1
        BY <1>2, <1>3, <1>6, <4>1, <4>2, InnermostFile
      <4> QED BY <1>1, <1>2, <1>8, <1>10, <4>3
    <3> QED BY <3>1, <3>2
  <2>5. IS!RefillFails
    BY <1>4, <2>1, <2>3, <2>4 DEF IS!RefillFails, IS!Flag, Flag
  <2>6. IS!Next
    BY <2>5 DEF IS!Next
  <2> QED BY <2>6 DEF Follows
<1> QED BY <1>9, <1>10
-----------------------------------------------------------------------------
(* The interpreter implements InputSource.                                 *)

\* The start of the interpreter is the start of InputSource.
LEMMA StartIs == Init => IS!Init
<1> SUFFICES ASSUME Init PROVE IS!Init
  OBVIOUS
<1>1. RKept /\ Calm
  BY StartRKept DEF Calm, Init
<1>2. ~Left /\ Shape(py) /\ Len(py) = 1 /\ Top = py[1]
      /\ py[1] = [kind |-> "main", pos |-> 0]
  BY <1>1, CalmIs, OrderNow, AtTop DEF Init, RKept
<1>3. PICK u, g, s : u = py /\ g = Last(u) /\ s = Here
  OBVIOUS
<1>4. g.kind = "main" /\ g.pos = 0 /\ g.kind \in Openings
  BY <1>2, <1>3 DEF Top, Openings
<1>5. PICK B : Innermost(B, u, g, s)
  BY <1>2, <1>3, <1>4, SrcOnLine
<1>6. sources = Src(u, s) /\ Sound(s)
  BY <1>1, <1>2, <1>3, MapNow
<1>7. B = <<>> /\ Sees(g, s, s) /\ FileOf(g, s) = Main /\ NextOf(g, s) = 1
  BY <1>4, <1>5 DEF Innermost, Sees, FileOf, NextOf
<1>8. Pushed(sources, <<>>, Unread(Main, 1))
  BY <1>5, <1>6, <1>7 DEF Innermost
<1>9. sources = <<Unread(Main, 1)>>
  BY <1>8 DEF Pushed
<1>10. got = Nothing
  BY DEF Init
<1> QED BY <1>9, <1>10 DEF IS!Init, IS!Source, Unread, IS!Nothing, Nothing

\* Each step is a step of InputSource or leaves sources and got as they are.
LEMMA StepFollows ==
  ASSUME CatchTexts = FALSE, RKept, [Next]_vars, Kept'
  PROVE  Follows
<1>1. CASE UNCHANGED vars
  <2>1. ~Left => ~Left' /\ Here' = Here
    BY <1>1 DEF vars, Left, Catches, Here
  <2>2. CASE Left
    <3>1. sources = <<>> /\ sources' = <<>>
      BY <1>1, <2>2 DEF vars, Left, Catches, sources
    <3> QED BY <1>1, <3>1 DEF Follows, vars
  <2>3. CASE ~Left
    <3>1. sources' = sources
      BY <1>1, <2>1, <2>3, MapNow, MapNext DEF vars
    <3> QED BY <1>1, <3>1 DEF Follows, vars
  <2> QED BY <2>2, <2>3
<1>2. CASE Done
  BY <1>1, <1>2 DEF Done
<1>3. CASE \E k \in 0..LineLen : SetToIn(k)
  BY <1>3, SetToInIs
<1>4. CASE \E text \in String : Evaluate(text)
  BY <1>4, EvaluateIs
<1>5. CASE \E file \in File : Included(file) \/ IncludeToken(file)
  BY <1>5, IncludedIs, IncludeTokenIs
<1> QED
  BY <1>1, <1>2, <1>3, <1>4, <1>5, MainLineIs, RunWordIs, HandleIs, WordEndsIs, LineEndsIs,
     QuitLineIs, ParseNextTokenIs, RefillIs, EvaluateEndsIs, IncludeLineIs, IncludeEndsIs,
     CatchIs, CatchEndsIs, ThrowIs, QuitWordIs, LandIs, PassOnIs
  DEF Next

\* Where no CATCH stands around a text that throws, the interpreter reads the
\* program as from a stack of sources, whatever EVALUATE, INCLUDED, REFILL and
\* >IN do: the fields of the one interpreter object and what its Python frames
\* have saved of them implement InputSource.
THEOREM ReadAsSources == CatchTexts = FALSE => (Spec => IsInputSource)
<1> SUFFICES ASSUME CatchTexts = FALSE PROVE Spec => IsInputSource
  OBVIOUS
<1>1. Init => RKept /\ IS!Init
  BY StartRKept, StartIs
<1>2. RKept /\ [Next]_vars => RKept'
  BY StepRKept
<1>3. RKept /\ RKept' /\ [Next]_vars => [IS!Next]_(IS!vars)
  <2>1. RKept /\ RKept' /\ [Next]_vars => Follows
    BY StepFollows DEF RKept
  <2> QED BY <2>1 DEF Follows, IS!vars
<1> QED BY <1>1, <1>2, <1>3, PTL DEF Spec, IsInputSource, IS!Spec
=============================================================================
