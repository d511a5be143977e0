---------------------------- MODULE InputSource ----------------------------
(***************************************************************************)
(* Which text a Forth program is read from, whatever the interpreter does  *)
(* to keep track of it: a stack of sources, each a file read line by line  *)
(* or a string, with one place in the current line that the interpreter    *)
(* and the parsing words share.  Nothing below the innermost source moves  *)
(* until that source is used up.                                           *)
(***************************************************************************)
EXTENDS Integers, SequencesExt

CONSTANTS
  Main,     \* the file the run was started with
  File,     \* the files a program includes
  String,   \* the texts a program evaluates: [file, line]
  FileLen,  \* lines of each file
  LineLen,  \* tokens of a line
  None      \* no text, no file

VARIABLES
  src,  \* the open sources, innermost last
  got   \* what was read last: see Token

vars == <<src, got>>

\* What the last step has read: a token, REFILL's flag, or nothing.
Token(text, k) == <<"token", text, k>>
Flag(b) == <<"flag", b>>
Nothing == <<"nothing">>
Abandoned == <<"abandoned">>

Top == Last(src)
SetTop(s) == src' = [src EXCEPT ![Len(src)] = s]

Source(file, text) == [file |-> file, text |-> text, pos |-> 0, next |-> 1]
Line(file, k) == [file |-> file, line |-> k]

\* The innermost included file: REFILL reads its lines, from a string too.
Files == {k \in 2..Len(src) : src[k].file # None}
Innermost == Max(Files)

Init == src = <<Source(Main, None)>> /\ got = Nothing

InLine == src # <<>> /\ Top.text # None

\* The interpreter or a parsing word takes the next token.
Read ==
  /\ InLine /\ Top.pos < LineLen
  /\ SetTop([Top EXCEPT !.pos = @ + 1])
  /\ got' = Token(Top.text, Top.pos)

\* Nothing is left to parse.
ReadNothing == InLine /\ Top.pos >= LineLen /\ got' = Nothing /\ UNCHANGED src

\* >IN ! and RESTORE-INPUT.
Seek(k) == InLine /\ SetTop([Top EXCEPT !.pos = k]) /\ got' = Nothing

EndLine ==
  /\ InLine /\ Top.pos >= LineLen
  /\ SetTop([Top EXCEPT !.text = None, !.pos = 0])
  /\ got' = Nothing

\* QUIT, ABORT" and their like leave the line where they are.
Abandon ==
  /\ InLine
  /\ SetTop([Top EXCEPT !.text = None, !.pos = 0])
  /\ got' = Abandoned

\* The next line of the innermost source, if that is a file.
NextLine ==
  /\ src # <<>> /\ Top.text = None /\ Top.file # None
  /\ Top.next <= FileLen[Top.file]
  /\ SetTop([Top EXCEPT !.text = Line(Top.file, Top.next), !.next = @ + 1])
  /\ got' = Nothing

Refill ==
  /\ InLine /\ Files # {}
  /\ LET f == src[Innermost] IN
       /\ f.next <= FileLen[f.file]
       /\ src' = [k \in DOMAIN src |->
                    [src[k] EXCEPT
                      !.next = IF k = Innermost THEN @ + 1 ELSE @,
                      !.text = IF k = Len(src) THEN Line(f.file, f.next) ELSE @,
                      !.pos = IF k = Len(src) THEN 0 ELSE @]]
  /\ got' = Flag(TRUE)

RefillFails ==
  /\ InLine
  /\ Files # {} => src[Innermost].next > FileLen[src[Innermost].file]
  /\ got' = Flag(FALSE)
  /\ UNCHANGED src

\* A source is opened inside the line being read, at its beginning.
Evaluate(text) ==
  /\ InLine
  /\ src' = Append(src, Source(None, text))
  /\ got' = Nothing

Include(file) ==
  /\ InLine
  /\ src' = Append(src, Source(file, None))
  /\ got' = Nothing

\* INCLUDE takes the file's name from the line.
IncludeNamed(file) ==
  /\ InLine /\ Top.pos < LineLen
  /\ src' = Append([src EXCEPT ![Len(src)].pos = @ + 1], Source(file, None))
  /\ got' = Token(Top.text, Top.pos)

\* A source that is used up gives way to the one that opened it.
Close ==
  /\ Len(src) > 1 /\ Top.text = None
  /\ Top.file # None => Top.next > FileLen[Top.file]
  /\ src' = Front(src)
  /\ got' = Nothing

\* A THROW nothing catches ends the run.
Uncaught == src # <<>> /\ src' = <<>> /\ got' = Nothing

Next ==
  \/ Read \/ ReadNothing \/ EndLine \/ Abandon \/ NextLine
  \/ Refill \/ RefillFails \/ Close \/ Uncaught
  \/ \E k \in 0..LineLen : Seek(k)
  \/ \E text \in String : Evaluate(text)
  \/ \E file \in File : Include(file) \/ IncludeNamed(file)

Spec == Init /\ [][Next]_vars
=============================================================================
