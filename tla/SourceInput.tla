---------------------------- MODULE SourceInput ----------------------------
(***************************************************************************)
(* How outer_interp.py keeps track of the text it reads.  The line, the    *)
(* parse cursor >IN and the lines of the file being INCLUDEd are fields of *)
(* one interpreter object; EVALUATE and INCLUDED call interpret_line again *)
(* from inside a word, keep the caller's fields in locals of their Python  *)
(* frame and put them back when the nested call returns.  interpret_line   *)
(* has a cursor of its own, which it hands to >IN before it runs a word    *)
(* and takes back after.                                                   *)
(*                                                                         *)
(* The program is arbitrary: any token may be any word, and a word may     *)
(* parse, refill, seek, nest, CATCH and THROW in any order.                *)
(***************************************************************************)
EXTENDS Integers, SequencesExt

CONSTANTS
  Main,       \* the file given to the entry point
  File,       \* the files a program includes
  String,     \* the texts a program evaluates: [file, line]
  NoFile,     \* include_lines before any INCLUDE: no lines
  FileLen,    \* lines of each file
  LineLen,    \* tokens of a line
  Depth,      \* bound on nested Python frames
  CatchTexts, \* may a CATCH stand around EVALUATE or INCLUDED that throw?
  None

Line(file, k) == [file |-> file, line |-> k]

ASSUME ParameterAssumption ==
  /\ LineLen \in Nat /\ CatchTexts \in BOOLEAN
  /\ Depth \in Nat /\ Depth >= 2  \* a line of the main file
  /\ \A f \in File \cup {Main} : FileLen[f] \in Nat
  /\ FileLen[NoFile] = 0
  /\ None \notin {"throw", "quit"} /\ None \notin File \cup {Main, NoFile}
  /\ None \notin String
  /\ \A f \in File \cup {Main} : \A k \in 1..FileLen[f] : Line(f, k) # None

VARIABLES
  toks,           \* self.toks and self.source_buffer: the line being read
  to_in,          \* the cell of >IN, a token index
  include_lines,  \* the file whose lines REFILL reads
  include_pos,    \* how many of them have been read
  py,             \* the Python stack, innermost frame last
  exc,            \* the exception in flight: None, "throw", "quit"
  got             \* what was read last: see Token

fields == <<toks, to_in, include_lines, include_pos>>
vars == <<toks, to_in, include_lines, include_pos, py, exc, got>>

\* What the last step has read: a token, REFILL's flag, or nothing.
Token(text, k) == <<"token", text, k>>
Flag(b) == <<"flag", b>>
Nothing == <<"nothing">>
Abandoned == <<"abandoned">>

\* A call of interpret_line: its local toks and i, and whether a word that it
\* has handed the cursor to is running.
Reading(text) == [kind |-> "line", toks |-> text, i |-> 0, busy |-> FALSE]
SavedHere(kind) ==
  [kind |-> kind, buf |-> toks, cur |-> to_in,
   lines |-> include_lines, pos |-> include_pos, n |-> 0]

Top == Last(py)
Calm == exc = None
AtLine == Calm /\ Top.kind = "line" /\ ~ Top.busy
SetTop(f) == py' = [py EXCEPT ![Len(py)] = f]

\* A word is running; a CATCH it has begun lies on top of its line.
InWord == Calm /\ (Top.kind = "catch" \/ (Top.kind = "line" /\ Top.busy))

Room == Len(py) + 2 <= Depth

Init ==
  /\ toks = None /\ to_in = 0
  /\ include_lines = NoFile /\ include_pos = 0
  /\ py = <<[kind |-> "main", pos |-> 0]>>
  /\ exc = None /\ got = Nothing

\* _interpret_line_tokens begins; >IN keeps its old value until a word runs.
Begin(text, frames) ==
  /\ toks' = text
  /\ py' = Append(frames, Reading(text))

\* entry_point reads the next line of the main file.
MainLine ==
  /\ Calm /\ Top.kind = "main"
  /\ Top.pos < FileLen[Main]
  /\ Begin(Line(Main, Top.pos + 1), <<[Top EXCEPT !.pos = @ + 1]>>)
  /\ got' = Nothing
  /\ UNCHANGED <<to_in, include_lines, include_pos, exc>>

\* A token found in the dictionary: _execute_or_push, or an immediate word.
RunWord ==
  /\ AtLine /\ Top.i < LineLen
  /\ to_in' = Top.i + 1
  /\ SetTop([Top EXCEPT !.i = @ + 1, !.busy = TRUE])
  /\ got' = Token(Top.toks, Top.i)
  /\ UNCHANGED <<toks, include_lines, include_pos, exc>>

\* A token interpret_line handles itself; names it takes are tokens again.
Handle ==
  /\ AtLine /\ Top.i < LineLen
  /\ SetTop([Top EXCEPT !.i = @ + 1])
  /\ got' = Token(Top.toks, Top.i)
  /\ UNCHANGED <<fields, exc>>

\* The word returns: the line goes on where >IN and self.toks now are.
WordEnds ==
  /\ Calm /\ Top.kind = "line" /\ Top.busy
  /\ SetTop([kind |-> "line", toks |-> toks, i |-> to_in, busy |-> FALSE])
  /\ UNCHANGED <<fields, exc, got>>

LineEnds ==
  /\ AtLine /\ Top.i >= LineLen
  /\ py' = Front(py)
  /\ got' = Nothing
  /\ UNCHANGED <<fields, exc>>

\* QUIT and ABORT" typed on the line return from it.
QuitLine ==
  /\ AtLine
  /\ py' = Front(py)
  /\ got' = Abandoned
  /\ UNCHANGED <<fields, exc>>

-----------------------------------------------------------------------------
\* parse_next_token, for BL WORD, ', CHAR, CREATE and the like.
ParseNextToken ==
  /\ InWord
  /\ IF to_in < LineLen
     THEN to_in' = to_in + 1 /\ got' = Token(toks, to_in)
     ELSE UNCHANGED to_in /\ got' = Nothing
  /\ UNCHANGED <<toks, include_lines, include_pos, py, exc>>

\* >IN ! and RESTORE-INPUT, which restores nothing but the cursor.  Left out: a
\* cursor beyond the end of the line, which >IN ! may set and PARSE-NAME sets there
\* (runtime_parse_name adds one whether or not there was a token).
SetToIn(k) ==
  /\ InWord
  /\ to_in' = k
  /\ got' = Nothing
  /\ UNCHANGED <<toks, include_lines, include_pos, py, exc>>

Refill ==
  /\ InWord
  /\ IF include_pos < FileLen[include_lines]
     THEN /\ toks' = Line(include_lines, include_pos + 1)
          /\ include_pos' = include_pos + 1
          /\ to_in' = 0
          /\ got' = Flag(TRUE)
     ELSE got' = Flag(FALSE) /\ UNCHANGED <<toks, include_pos, to_in>>
  /\ UNCHANGED <<include_lines, py, exc>>

\* _handle_evaluate
Evaluate(text) ==
  /\ InWord /\ Room
  /\ Begin(text, Append(py, SavedHere("evaluate")))
  /\ got' = Nothing
  /\ UNCHANGED <<to_in, include_lines, include_pos, exc>>

\* Mutant of EvaluateEnds: the cursor is not put back.
EvaluateEndsNoCursor ==
  /\ Calm /\ Top.kind = "evaluate"
  /\ toks' = Top.buf
  /\ py' = Front(py)
  /\ got' = Nothing
  /\ UNCHANGED <<to_in, include_lines, include_pos, exc>>

EvaluateEnds ==
  /\ Calm /\ Top.kind = "evaluate"
  /\ toks' = Top.buf
  /\ to_in' = Top.cur
  /\ py' = Front(py)
  /\ got' = Nothing
  /\ UNCHANGED <<include_lines, include_pos, exc>>

\* _include_file up to its loop, called from a stack whose frames are given.
Open(file, frames) ==
  /\ include_lines' = file
  /\ include_pos' = 0
  /\ py' = Append(frames, [SavedHere("include") EXCEPT !.n = FileLen[file]])
  /\ UNCHANGED <<toks, to_in, exc>>

\* INCLUDED run as a word, and as a token interpret_line handles.
Included(file) ==
  /\ InWord \/ AtLine
  /\ Room
  /\ Open(file, py)
  /\ got' = Nothing

\* INCLUDE: the file's name is the next token of the line.
IncludeToken(file) ==
  /\ AtLine /\ Top.i < LineLen /\ Room
  /\ Open(file, [py EXCEPT ![Len(py)].i = @ + 1])
  /\ got' = Token(Top.toks, Top.i)

\* The loop of _include_file: n is its own, the position is the interpreter's.
IncludeLine ==
  /\ Calm /\ Top.kind = "include"
  /\ include_pos < Top.n
  /\ Begin(Line(include_lines, include_pos + 1), py)
  /\ include_pos' = include_pos + 1
  /\ got' = Nothing
  /\ UNCHANGED <<to_in, include_lines, exc>>

\* Mutant of IncludeEnds: the position in the outer file is not put back.
IncludeEndsNoPosition ==
  /\ Calm /\ Top.kind = "include"
  /\ include_pos >= Top.n
  /\ include_lines' = Top.lines
  /\ toks' = Top.buf
  /\ to_in' = Top.cur
  /\ py' = Front(py)
  /\ got' = Nothing
  /\ UNCHANGED <<include_pos, exc>>

\* Another: the outer file's lines are not put back.
IncludeEndsNoFile ==
  /\ Calm /\ Top.kind = "include"
  /\ include_pos >= Top.n
  /\ include_pos' = Top.pos
  /\ toks' = Top.buf
  /\ to_in' = Top.cur
  /\ py' = Front(py)
  /\ got' = Nothing
  /\ UNCHANGED <<include_lines, exc>>

IncludeEnds ==
  /\ Calm /\ Top.kind = "include"
  /\ include_pos >= Top.n
  /\ include_lines' = Top.lines
  /\ include_pos' = Top.pos
  /\ toks' = Top.buf
  /\ to_in' = Top.cur
  /\ py' = Front(py)
  /\ got' = Nothing
  /\ UNCHANGED exc

-----------------------------------------------------------------------------
Catches == {k \in DOMAIN py : py[k].kind = "catch"}

Catch ==
  /\ InWord /\ Len(py) < Depth
  /\ py' = Append(py, [kind |-> "catch"])
  /\ got' = Nothing
  /\ UNCHANGED <<fields, exc>>

CatchEnds ==
  /\ Calm /\ Top.kind = "catch"
  /\ py' = Front(py)
  /\ got' = Nothing
  /\ UNCHANGED <<fields, exc>>

\* THROW in a word, or INCLUDED of a file that does not exist.
Throw ==
  /\ InWord \/ AtLine
  /\ CatchTexts \/ Catches = {} \/ Top.kind = "catch"
  /\ exc' = "throw"
  /\ got' = Nothing
  /\ UNCHANGED <<fields, py>>

\* Abort raised by a word, where no other word is running further out.
QuitWord ==
  /\ InWord
  /\ Cardinality({k \in DOMAIN py : py[k].kind = "line" /\ py[k].busy}) = 1
  /\ exc' = "quit"
  /\ UNCHANGED <<fields, py, got>>

\* The exception leaves a frame.  EVALUATE and INCLUDED have no handler, so
\* what they saved is lost.
Land ==
  /\ \/ exc = "throw" /\ Top.kind = "catch"
     \/ exc = "quit" /\ Top.kind = "line"
  /\ exc' = None
  /\ got' = IF exc = "quit" THEN Abandoned ELSE Nothing
  /\ py' = Front(py)
  /\ UNCHANGED fields

PassOn ==
  /\ \/ exc = "throw" /\ Top.kind \in {"line", "evaluate", "include"}
     \/ exc = "quit" /\ Top.kind = "catch"
  /\ py' = Front(py)
  /\ UNCHANGED <<fields, exc, got>>

\* The main file has been read, or a THROW has reached the entry point.
Done ==
  /\ Top.kind = "main"
  /\ exc # None \/ Top.pos = FileLen[Main]
  /\ UNCHANGED vars

Next ==
  \/ MainLine \/ RunWord \/ Handle \/ WordEnds \/ LineEnds \/ QuitLine
  \/ ParseNextToken \/ Refill \/ \E k \in 0..LineLen : SetToIn(k)
  \/ \E text \in String : Evaluate(text)
  \/ EvaluateEnds
  \/ \E file \in File : Included(file) \/ IncludeToken(file)
  \/ IncludeLine \/ IncludeEnds
  \/ Catch \/ CatchEnds \/ Throw \/ QuitWord \/ Land \/ PassOn
  \/ Done

Spec == Init /\ [][Next]_vars

-----------------------------------------------------------------------------
Here == [buf |-> toks, cur |-> to_in, lines |-> include_lines, pos |-> include_pos]

\* What the next frame above k of these kinds has saved of the fields; if there
\* is none, the fields.
Above(k, kinds) ==
  LET above == {j \in DOMAIN py : j > k /\ py[j].kind \in kinds}
  IN  IF above = {} THEN Here ELSE py[Min(above)]

\* The source opened by frame k, read back from its line and from what the
\* frames above it have saved.
SourceAt(k) ==
  LET reading == k < Len(py) /\ py[k + 1].kind = "line"
      line == py[k + 1]
      cursor == Above(k, {"evaluate", "include"})
      file == Above(k, {"include"})
  IN  [file |-> CASE py[k].kind = "main" -> Main
                  [] py[k].kind = "evaluate" -> None
                  [] py[k].kind = "include" -> file.lines,
       text |-> IF ~ reading THEN None
                ELSE IF line.busy THEN cursor.buf ELSE line.toks,
       pos  |-> IF ~ reading THEN 0
                ELSE IF line.busy THEN cursor.cur ELSE line.i,
       next |-> CASE py[k].kind = "main" -> py[k].pos + 1
                  [] py[k].kind = "evaluate" -> 1
                  [] py[k].kind = "include" -> file.pos + 1]

\* The sources opened by the frames up to k, outermost first.
SourcesTo[k \in 0..Len(py)] ==
  IF k = 0 THEN <<>>
  ELSE IF py[k].kind \in {"main", "evaluate", "include"}
       THEN Append(SourcesTo[k - 1], SourceAt(k))
       ELSE SourcesTo[k - 1]

\* None is left to a THROW that nothing catches.
sources == IF exc = "throw" /\ Catches = {} THEN <<>> ELSE SourcesTo[Len(py)]

IS == INSTANCE InputSource WITH src <- sources, got <- got

\* A program that lets no THROW out of a nested text is read as from a stack
\* of sources: no token is skipped or read twice, no line of a file is lost,
\* whatever EVALUATE, INCLUDED, REFILL and >IN do in between.
IsInputSource == IS!Spec

\* A cursor inside the line, a position inside the file, for programs that do not
\* put the cursor elsewhere themselves (SetToIn).
TypeOK ==
  /\ to_in \in 0..LineLen
  /\ include_pos \in 0..FileLen[include_lines]
  /\ Len(py) \in 1..Depth

\* _include_file loads a file "preserving the caller's source-scan state across
\* the nested interpretation": each line its loop reads is the next one of the
\* file it was called for.
IncludesOwnLines ==
  [][IncludeLine => /\ FileLen[include_lines] = Top.n
                    /\ include_pos < FileLen[include_lines]]_vars
=============================================================================
