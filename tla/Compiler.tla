------------------------------ MODULE Compiler ------------------------------
(***************************************************************************)
(* The colon compiler of outer_interp.py: control-flow words emit branches *)
(* and back-patch them through the control stack ctrl; a call of a small   *)
(* word is replaced by its body; `;' turns a last call into a jump, carves *)
(* off the DOES> part and splices a recursive word into itself.            *)
(*                                                                         *)
(* Definitions are arbitrary texts over the words of a Lesson.  What a     *)
(* text means is kept beside what is compiled: `ref' is the text written   *)
(* out with the standard's own few control-flow primitives, without        *)
(* inlining, jumps or splicing.  A finished word is then run both ways     *)
(* side by side.                                                           *)
(***************************************************************************)
EXTENDS Integers, SequencesExt

CONSTANTS
  Lessons,        \* each a sequence, one entry for each definition of the
                  \* program: [words, size], the words it may use and how many
  MaxInlineBody,  \* MAX_INLINE_BODY
  MaxSplice,      \* the two limits of _inline_self_calls: longest body,
  MaxSpliced,     \* longest result
  Leftover,       \* bound on what unbalanced definitions leave on ctrl
  CallDepth       \* bound on nested calls when a word is run

ASSUME LimitAssumption ==
  /\ {MaxInlineBody, MaxSplice, MaxSpliced, Leftover, CallDepth} \subseteq Nat
  /\ MaxInlineBody > 0

VARIABLES
  lesson,              \* never changes
  dict,                \* finished words: [code, does, body, from]
  code,                \* current_code and current_lits: [op, arg]
  ctrl,                \* the control stack: [kind, index, leaves]
  mark,                \* does_ip_mark
  current_predefined,  \* has RECURSE entered the word in the dictionary?
  ref,                 \* what the text means: see Meaning
  size,                \* tokens of the definition so far
  left,                \* ctrl when the definition began
  run                  \* the two runs of a finished word, see Start

definition == <<code, ctrl, mark, current_predefined, ref, size>>
vars == <<lesson, dict, definition, left, run>>

Ins(op, arg) == [op |-> op, arg |-> arg]
Exit == Ins("EXIT", 0)
Branches == {"BR", "0BR", "?DO", "LOOP", "+LOOP", "LEAVE"}

\* The literals at these places of a thread become target.
Patch(thread, places, target) ==
  [i \in DOMAIN thread |->
     IF i - 1 \in places THEN [thread[i] EXCEPT !.arg = target] ELSE thread[i]]

-----------------------------------------------------------------------------
(***************************************************************************)
(* What a text means.  The control-flow stack of the standard holds origs, *)
(* dests, do-sys, case-sys and of-sys; a case-sys has the ends of its      *)
(* clauses, which no other word can reach.  The structured words are       *)
(* defined from AHEAD, IF, THEN, AGAIN, UNTIL and 1 CS-ROLL, as the        *)
(* standard's rationale does.                                              *)
(***************************************************************************)
NoText == [text |-> <<>>, cf |-> <<>>, ok |-> TRUE]

Item(kind, at, places) == [kind |-> kind, at |-> at, places |-> places]

Says(r, op, arg) == [r EXCEPT !.text = Append(@, Ins(op, arg))]
Holds(r, item) == [r EXCEPT !.cf = Append(@, item)]
Wrong(r) == [r EXCEPT !.ok = FALSE]
Has(r, kind) == r.cf # <<>> /\ Last(r.cf).kind = kind
Drops(r) == [r EXCEPT !.cf = Front(@)]
Resolves(r, places) == [r EXCEPT !.text = Patch(@, places, Len(@))]

\* AHEAD and IF; THEN; AGAIN and UNTIL.
Forward(r, op) == Says(Holds(r, Item("orig", Len(r.text), {})), op, 0)
Lands(r) ==
  IF Has(r, "orig") THEN Resolves(Drops(r), {Last(r.cf).at}) ELSE Wrong(r)
Back(r, op) == IF Has(r, "dest") THEN Says(Drops(r), op, Last(r.cf).at) ELSE Wrong(r)

\* 1 CS-ROLL moves origs and dests, nothing else.
Rolls(r) ==
  IF Len(r.cf) > 1 /\ {Last(r.cf).kind, Last(Front(r.cf)).kind} \subseteq {"orig", "dest"}
  THEN Holds(Holds(Drops(Drops(r)), Last(r.cf)), Last(Front(r.cf)))
  ELSE Wrong(r)

Loops(r, op) ==
  IF Has(r, "do-sys")
  THEN Resolves(Says(Drops(r), op, Last(r.cf).at), Last(r.cf).places)
  ELSE Wrong(r)

Leaves(r) ==
  LET dos == {k \in DOMAIN r.cf : r.cf[k].kind = "do-sys"}
  IN  IF dos # {}
      THEN Says([r EXCEPT !.cf[Max(dos)].places = @ \cup {Len(r.text)}], "LEAVE", 0)
      ELSE Wrong(r)

Clause(r) ==
  LET test == Says(Says(r, "OVER", 0), "=", 0)
  IN  Says(Says(Holds(test, Item("of-sys", Len(test.text), {})), "0BR", 0), "DROP", 0)

ClauseEnds(r) ==
  IF Has(r, "of-sys") /\ Has(Drops(r), "case-sys")
  THEN Resolves(Says(Holds(Drops(Drops(r)),
                           [Last(Front(r.cf)) EXCEPT !.places = @ \cup {Len(r.text)}]),
                     "BR", 0),
                {Last(r.cf).at})
  ELSE Wrong(r)

CaseEnds(r) ==
  IF Has(r, "case-sys")
  THEN Resolves(Says(Drops(r), "DROP", 0), Last(r.cf).places)
  ELSE Wrong(r)

Meaning(r, t) ==
  CASE t = "IF" -> Forward(r, "0BR")
    [] t = "ELSE" -> Lands(Rolls(Forward(r, "BR")))
    [] t = "THEN" -> Lands(r)
    [] t = "BEGIN" -> Holds(r, Item("dest", Len(r.text), {}))
    [] t = "WHILE" -> Rolls(Forward(r, "0BR"))
    [] t = "REPEAT" -> Lands(Back(r, "BR"))
    [] t = "AGAIN" -> Back(r, "BR")
    [] t = "UNTIL" -> Back(r, "0BR")
    [] t = "1 CS-ROLL" -> Rolls(r)
    [] t = "DO" -> Holds(Says(r, "DO", 0), Item("do-sys", Len(r.text) + 1, {}))
    [] t = "?DO" -> Holds(Says(r, "?DO", 0),
                          Item("do-sys", Len(r.text) + 1, {Len(r.text)}))
    [] t \in {"LOOP", "+LOOP"} -> Loops(r, t)
    [] t = "LEAVE" -> Leaves(r)
    [] t = "CASE" -> Holds(r, Item("case-sys", 0, {}))
    [] t = "OF" -> Clause(r)
    [] t = "ENDOF" -> ClauseEnds(r)
    [] t = "ENDCASE" -> CaseEnds(r)
    [] t = "DOES>" -> Says(Says(r, "(DOES>)", 0), "EXIT", 0)
    [] OTHER -> Says(r, t, 0)

\* A text the standard gives a meaning to, up to here and as a whole.
Balanced == ref.ok /\ ref.cf = <<>>

-----------------------------------------------------------------------------
Idle == [started |-> FALSE]

Init ==
  /\ lesson \in Lessons
  /\ dict = <<>>
  /\ code = <<>> /\ ctrl = <<>> /\ mark = -1 /\ current_predefined = FALSE
  /\ ref = NoText /\ size = 0 /\ left = <<>>
  /\ run = Idle

\* The current definition and its lesson; there are as many as the lesson has.
Number == Cardinality({w \in DOMAIN dict : dict[w].from = 0}) + 1
Compiling == run = Idle /\ Number <= Len(lesson)
Takes(t) ==
  /\ Compiling /\ t \in lesson[Number].words
  /\ size < lesson[Number].size
  /\ ref.ok                  \* bound: an abandoned definition is only ended

here == Len(code)
Emitted(op, arg) == Append(code, Ins(op, arg))
Entry(kind, index, leaves) == [kind |-> kind, index |-> index, leaves |-> leaves]
TopIs(kinds) == ctrl # <<>> /\ Last(ctrl).kind \in kinds
Begins == {k \in DOMAIN ctrl : ctrl[k].kind = "BEGIN"}
Dos == {k \in DOMAIN ctrl : ctrl[k].kind = "DO"}

Compile(t, c, k) ==
  /\ Takes(t)
  /\ code' = c
  /\ ctrl' = k
  /\ ref' = Meaning(ref, t)
  /\ size' = size + 1
  /\ UNCHANGED <<lesson, dict, mark, current_predefined, left, run>>

\* A dictionary word that is a primitive, EXIT among them.
Plain(t) == Compile(t, Emitted(t, 0), ctrl)

If == Compile("IF", Emitted("0BR", 0), Append(ctrl, Entry("IF", here, {})))

\* ELSE and THEN resolve a WHILE, too.
Else ==
  /\ TopIs({"IF", "WHILE"})
  /\ Compile("ELSE", Patch(Emitted("BR", 0), {Last(ctrl).index}, here + 1),
             Append(Front(ctrl), Entry("ELSE", here, {})))

Then ==
  /\ TopIs({"IF", "ELSE", "WHILE"})
  /\ Compile("THEN", Patch(code, {Last(ctrl).index}, here), Front(ctrl))

Begin == Compile("BEGIN", code, Append(ctrl, Entry("BEGIN", here, {})))

\* WHILE lies above its BEGIN, where the standard puts it below.
While ==
  /\ Begins # {}
  /\ Compile("WHILE", Emitted("0BR", 0), Append(ctrl, Entry("WHILE", here, {})))

\* Mutant of Repeat: the BEGIN stays on the control stack.
RepeatKeepsBegin ==
  /\ TopIs({"WHILE"}) /\ Begins # {}
  /\ Compile("REPEAT",
             Patch(Emitted("BR", ctrl[Max(Begins)].index), {Last(ctrl).index}, here + 1),
             Front(ctrl))

Repeat ==
  /\ TopIs({"WHILE"}) /\ Begins # {}
  /\ Compile("REPEAT",
             Patch(Emitted("BR", ctrl[Max(Begins)].index), {Last(ctrl).index}, here + 1),
             RemoveAt(Front(ctrl), Max(Begins)))

\* Mutant of Again: it branches to itself.
AgainHere ==
  /\ TopIs({"BEGIN"})
  /\ Compile("AGAIN", Emitted("BR", here), Front(ctrl))

Again ==
  /\ TopIs({"BEGIN"})
  /\ Compile("AGAIN", Emitted("BR", Last(ctrl).index), Front(ctrl))

\* BEGIN .. UNTIL, and BEGIN .. WHILE .. UNTIL with the WHILE left for a THEN.
Until ==
  \/ /\ TopIs({"BEGIN"})
     /\ Compile("UNTIL", Emitted("0BR", Last(ctrl).index), Front(ctrl))
  \/ /\ TopIs({"WHILE"}) /\ Len(ctrl) > 1 /\ Last(Front(ctrl)).kind = "BEGIN"
     /\ Compile("UNTIL", Emitted("0BR", Last(Front(ctrl)).index),
                Append(Front(Front(ctrl)), Last(ctrl)))

Do == Compile("DO", Emitted("DO", 0), Append(ctrl, Entry("DO", here + 1, {})))

QDo == Compile("?DO", Emitted("?DO", 0), Append(ctrl, Entry("DO", here + 1, {here})))

Loop(t) ==
  /\ TopIs({"DO"})
  /\ Compile(t, Patch(Emitted(t, Last(ctrl).index), Last(ctrl).leaves, here + 1),
             Front(ctrl))

Leave ==
  /\ Dos # {}
  /\ Compile("LEAVE", Emitted("LEAVE", 0),
             [ctrl EXCEPT ![Max(Dos)].leaves = @ \cup {here}])

Case == Compile("CASE", code, Append(ctrl, Entry("CASE", 0, {})))

Of ==
  /\ TopIs({"CASE"})
  /\ Compile("OF", code \o <<Ins("OVER", 0), Ins("=", 0), Ins("0BR", 0), Ins("DROP", 0)>>,
             Append(ctrl, Entry("OF", here + 2, {})))

EndOf ==
  /\ TopIs({"OF"})
  /\ Compile("ENDOF", Patch(Emitted("BR", 0), {Last(ctrl).index}, here + 1),
             [Front(ctrl) EXCEPT ![Len(ctrl) - 1].leaves = @ \cup {here}])

EndCase ==
  /\ TopIs({"CASE"})
  /\ Compile("ENDCASE", Patch(Emitted("DROP", 0), Last(ctrl).leaves, here + 1),
             Front(ctrl))

\* CS-ROLL with 1 on the data stack; it complains of a control stack too short
\* and goes on.
CsRoll ==
  Compile("1 CS-ROLL", code,
          IF Len(ctrl) > 1
          THEN Front(Front(ctrl)) \o <<Last(ctrl), Last(Front(ctrl))>> ELSE ctrl)

\* A control-flow word that does not fit: the line is abandoned.  Most words
\* have already taken the entry they found off the control stack.
Rejects(t) ==
  CASE t = "ELSE" -> ~ TopIs({"IF", "WHILE"})
    [] t = "THEN" -> ~ TopIs({"IF", "ELSE", "WHILE"})
    [] t = "WHILE" -> Begins = {}
    [] t = "REPEAT" -> ~ TopIs({"WHILE"}) \/ Begins = {}
    [] t = "AGAIN" -> ~ TopIs({"BEGIN"})
    [] t = "UNTIL" -> ~ TopIs({"BEGIN"}) /\
                      ~ (TopIs({"WHILE"}) /\ Len(ctrl) > 1 /\ Last(Front(ctrl)).kind = "BEGIN")
    [] t \in {"LOOP", "+LOOP"} -> ~ TopIs({"DO"})
    [] t = "LEAVE" -> Dos = {}
    [] t \in {"OF", "ENDCASE"} -> ~ TopIs({"CASE"})
    [] t = "ENDOF" -> ~ TopIs({"OF"})
    [] OTHER -> FALSE

Pops(t) ==
  \/ t \in {"ELSE", "THEN", "AGAIN", "LOOP", "+LOOP"}
  \/ t = "UNTIL" /\ ~ TopIs({"WHILE"})
  \/ t = "REPEAT" /\ TopIs({"WHILE"})

Reject(t) ==
  /\ Takes(t) /\ Rejects(t)
  /\ ctrl' = IF Pops(t) /\ ctrl # <<>> THEN Front(ctrl) ELSE ctrl
  /\ ref' = Wrong(ref)
  /\ size' = size + 1
  /\ UNCHANGED <<lesson, dict, code, mark, current_predefined, left, run>>

-----------------------------------------------------------------------------
\* The word being compiled; its DOES> part, if any, is the word after it.
Self == Len(dict) + 1

Compiled(c, w) ==
  /\ code' = c
  /\ ref' = Says(ref, "CALL", w)
  /\ size' = size + 1
  /\ UNCHANGED <<lesson, dict, ctrl, mark, left, run>>

Recurse ==
  /\ Takes("RECURSE")
  /\ Compiled(Emitted("CALL", Self), Self)
  /\ current_predefined' = TRUE

\* _inlinable_colon_body
Inlinable(w) ==
  LET c == dict[w].code
  IN  /\ ~ dict[w].does
      /\ Len(c) \in 2..(MaxInlineBody + 1)
      /\ Last(c) = Exit
      /\ \A i \in DOMAIN c : c[i].op # "TAILCALL"

\* Mutant of Inlined: an EXIT in the middle is copied as it is.
InlinedKeepsExit(c, w) ==
  LET body == Front(dict[w].code)
  IN  c \o [i \in DOMAIN body |->
              IF body[i].op \in Branches THEN [body[i] EXCEPT !.arg = Len(c) + @]
              ELSE body[i]]

\* _emit_inline
Inlined(c, w) ==
  LET body == Front(dict[w].code)
      To(t) == Len(c) + Min({t, Len(body)})
  IN  c \o [i \in DOMAIN body |->
              CASE body[i] = Exit -> Ins("BR", To(Len(body)))
                [] body[i].op \in Branches -> [body[i] EXCEPT !.arg = To(@)]
                [] OTHER -> body[i]]

\* The middle of _compile_word_or_literal.
CallTo(c, w) == IF Inlinable(w) THEN Inlined(c, w) ELSE Append(c, Ins("CALL", w))

\* A colon word.
Call(w) ==
  /\ Takes("CALL") /\ dict[w].from = 0
  /\ Compiled(CallTo(code, w), w)
  /\ UNCHANGED current_predefined

\* A word made by the defining word before w: [LIT addr, w, EXIT], where w is
\* a DOES> part.
CallChild(w) ==
  /\ Takes("CALL") /\ dict[w].from > 0
  /\ code' = CallTo(Emitted("LIT", 0), w)
  /\ ref' = Says(Says(ref, "LIT", 0), "CALL", w)
  /\ size' = size + 1
  /\ UNCHANGED <<lesson, dict, ctrl, mark, current_predefined, left, run>>

\* One DOES> in a definition: of two, the code keeps the second only.
Does ==
  /\ mark < 0
  /\ Takes("DOES>")
  /\ code' = code \o <<Ins("(DOES>)", 0), Exit>>
  /\ mark' = here + 2
  /\ ref' = LET r == Meaning(ref, "DOES>") IN IF ref.cf = <<>> THEN r ELSE Wrong(r)
  /\ size' = size + 1
  /\ UNCHANGED <<lesson, dict, ctrl, current_predefined, left, run>>

-----------------------------------------------------------------------------
\* _inline_self_calls: c with one copy of itself at each call of itself.
Sites(c, w) == Cardinality({i \in DOMAIN c : c[i] = Ins("CALL", w)})

Splices(c, w) ==
  /\ Len(c) \in 1..MaxSplice
  /\ Sites(c, w) \in 1..4
  /\ Len(c) * (Sites(c, w) + 1) <= MaxSpliced

\* Where place i of c is found in the result.
Moved(c, w, i) == i + Sites(SubSeq(c, 1, i), w) * (Len(c) - 1)

Copy(c, w, base) ==
  [i \in DOMAIN c |->
     CASE c[i] = Exit -> Ins("BR", base + Len(c))
       [] c[i] = Ins("TAILCALL", w) -> Ins("BR", base)
       [] c[i].op = "TAILCALL" /\ c[i].arg # w -> Ins("CALL", c[i].arg)
       [] c[i].op \in Branches -> [c[i] EXCEPT !.arg = base + @]
       [] OTHER -> c[i]]

Spliced(c, w) ==
  IF ~ Splices(c, w) THEN c
  ELSE FlattenSeq([i \in DOMAIN c |->
         CASE c[i] = Ins("CALL", w) -> Copy(c, w, Moved(c, w, i - 1))
           [] c[i].op \in Branches -> <<[c[i] EXCEPT !.arg = Moved(c, w, @)]>>
           [] OTHER -> <<c[i]>>])

\* A call that ends the definition becomes a jump.
Ended ==
  IF code # <<>> /\ mark < 0 /\ Last(code).op = "CALL"
  THEN Append(Front(code), Ins("TAILCALL", Last(code).arg))
  ELSE Append(code, Exit)

\* Mutant of Carved: the branches keep the targets they had in the whole.
CarvedNotMoved(c) == SubSeq(c, mark + 1, Len(c))

\* The part after DOES>, with its branches moved to its new beginning.
Carved(c) ==
  [i \in 1..(Len(c) - mark) |->
     IF c[mark + i].op \in Branches THEN [c[mark + i] EXCEPT !.arg = @ - mark]
     ELSE c[mark + i]]

\* A word's threads, and for the run beside it its text and where it begins.
Word(c, does, from) == [code |-> c, does |-> does, body |-> Append(ref.text, Exit), from |-> from]

Fresh ==
  /\ code' = <<>> /\ mark' = -1 /\ current_predefined' = FALSE
  /\ ref' = NoText /\ size' = 0

\* _finalize_definition.  What is left on ctrl stays there.
Semicolon ==
  /\ Compiling
  /\ Balanced
  /\ dict' = IF mark >= 0
             THEN dict \o <<Word(Ended, TRUE, 0), Word(Carved(Ended), FALSE, mark)>>
             ELSE Append(dict, Word(IF current_predefined THEN Spliced(Ended, Self)
                                    ELSE Ended, FALSE, 0))
  /\ Fresh
  /\ left' = ctrl
  /\ UNCHANGED <<lesson, ctrl, run>>

\* A definition without a meaning, which no later one calls.
SemicolonUnbalanced ==
  /\ Compiling
  /\ ~ Balanced
  /\ Len(ctrl) <= Leftover
  /\ Fresh
  /\ left' = ctrl
  /\ UNCHANGED <<lesson, dict, ctrl, run>>

-----------------------------------------------------------------------------
(***************************************************************************)
(* A finished word run twice: by execute_thread over its code, and over    *)
(* its text.  A place is a word and an index into its thread; rs is the    *)
(* return stack.  Tests and loops go either way.                           *)
(***************************************************************************)
Place(w, at) == [w |-> w, at |-> at]

Start(w) ==
  /\ run = Idle /\ size = 0 /\ dict # <<>>
  /\ w > Len(dict) - 2
  /\ run' = [started |-> TRUE,
             code |-> [at |-> Place(w, 0), rs |-> <<>>],
             text |-> [at |-> Place(w, dict[w].from), rs |-> <<>>]]
  /\ UNCHANGED <<lesson, dict, definition, left>>

Thread(side, w) == IF side = "code" THEN dict[w].code ELSE dict[w].body
First(side, w) == IF side = "code" THEN 0 ELSE dict[w].from

\* Falling off the end of a thread returns.
At(side) ==
  LET p == run[side].at
      thread == Thread(side, p.w)
  IN  IF p.at < Len(thread) THEN thread[p.at + 1] ELSE Exit

Halted(side) == At(side) = Exit /\ run[side].rs = <<>>
Silent(side) == At(side).op \in {"BR", "CALL", "TAILCALL", "EXIT"} /\ ~ Halted(side)

\* A step of one side: where it is, and its return stack.
Goes(m, p, rs) == [m EXCEPT !.at = p, !.rs = rs]
Next1(m) == [m.at EXCEPT !.at = @ + 1]

Silently(side) ==
  LET m == run[side]
      ins == At(side)
      first == Place(ins.arg, First(side, ins.arg))
  IN  CASE ins.op = "BR" -> Goes(m, [m.at EXCEPT !.at = ins.arg], m.rs)
        [] ins.op = "CALL" -> Goes(m, first, Append(m.rs, Next1(m)))
        [] ins.op = "TAILCALL" -> Goes(m, first, m.rs)
        [] ins.op = "EXIT" -> Goes(m, Last(m.rs), Front(m.rs))

\* The word a side is at is run; a test may fail, a loop may go on.
Visibly(side, jumps) ==
  LET m == run[side]
  IN  Goes(m, IF jumps THEN [m.at EXCEPT !.at = At(side).arg] ELSE Next1(m), m.rs)

Jumps(op) ==
  CASE op = "LEAVE" -> {TRUE}
    [] op \in {"0BR", "?DO", "LOOP", "+LOOP"} -> BOOLEAN
    [] OTHER -> {FALSE}

RunSilent(side) ==
  /\ run # Idle
  /\ Silent(side)
  /\ side = "code" => ~ Silent("text")
  /\ At(side).op = "CALL" => Len(run[side].rs) < CallDepth
  /\ run' = [run EXCEPT ![side] = Silently(side)]
  /\ UNCHANGED <<lesson, dict, definition, left>>

RunVisible ==
  /\ run # Idle
  /\ \A side \in {"code", "text"} : ~ Silent(side) /\ ~ Halted(side)
  /\ \E jumps \in Jumps(At("code").op) :
       run' = [run EXCEPT !.code = Visibly("code", jumps), !.text = Visibly("text", jumps)]
  /\ UNCHANGED <<lesson, dict, definition, left>>

Next ==
  \/ \E t \in {"word", "EXIT"} : Plain(t)
  \/ If \/ Else \/ Then
  \/ Begin \/ While \/ Repeat \/ Again \/ Until
  \/ Do \/ QDo \/ Loop("LOOP") \/ Loop("+LOOP") \/ Leave
  \/ Case \/ Of \/ EndOf \/ EndCase \/ CsRoll
  \/ \E t \in UNION {lesson[n].words : n \in DOMAIN lesson} : Reject(t)
  \/ Recurse
  \/ \E w \in DOMAIN dict : Call(w) \/ CallChild(w)
  \/ Does
  \/ Semicolon \/ SemicolonUnbalanced
  \/ \E w \in DOMAIN dict : Start(w)
  \/ RunSilent("code") \/ RunSilent("text") \/ RunVisible

Spec == Init /\ [][Next]_vars

\* execute_thread runs on by itself.
FairSpec == Spec /\ WF_vars(RunSilent("code"))

-----------------------------------------------------------------------------
\* A finished word's branches stay inside its thread; TAILCALL, which finds its
\* word in the last literal, is last.
TypeOK ==
  /\ mark \in -1..here
  /\ \A w \in DOMAIN dict :
       LET c == dict[w].code
       IN  \A i \in DOMAIN c :
             /\ c[i].op \in Branches => c[i].arg \in 0..Len(c)
             /\ c[i].op = "TAILCALL" => i = Len(c)

\* A word does what its text says: whatever the compiler has inlined, jumped
\* or spliced, both runs are at the same word whenever both are at one.
RunsAsWritten ==
  run # Idle /\ ~ Silent("code") /\ ~ Silent("text") =>
    At("code").op = At("text").op

\* And the code gets there: no branch the compiler has laid leads it round in
\* a circle without running a word.
RunArrives ==
  (run # Idle /\ ~ Silent("text")) ~> (run # Idle /\ ~ Silent("code"))

\* A balanced definition leaves the control stack as it found it, whatever an
\* earlier unbalanced one has left there: it neither takes nor leaves entries.
ControlStackRestored == Balanced => ctrl = left
=============================================================================
