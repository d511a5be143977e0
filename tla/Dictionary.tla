----------------------------- MODULE Dictionary -----------------------------
(***************************************************************************)
(* The dictionary of the outer interpreter: wordlists, the search order    *)
(* and its fast path, definitions that running words open while others are *)
(* being compiled, RECURSE, and the tables through which TO and IS find a  *)
(* word.  A program is a sequence of token sets: one token of each set is  *)
(* read in turn, by the loop of _interpret_line_tokens, and a word that    *)
(* runs runs to its end before the next one.                               *)
(*                                                                         *)
(* A thread is the sequence of its instructions, <<kind>> or               *)
(* <<kind, operand>>; inlining and tail calls, which Compiler models, leave *)
(* its meaning alone.  A word is known by its place in words (its wid), 0  *)
(* for none; the wordlist wid is wordlists[wid + 1].                       *)
(***************************************************************************)
EXTENDS Naturals, Sequences, SequencesExt, FiniteSets

CONSTANTS
    Names,      \* the names a program gives to words
    Values,     \* what a VALUE may hold
    Lessons     \* the programs: sequences of sets of tokens

NoName == "(none)"    \* no definition is in progress; a word has no name
Unnamed == "NONAME"
OrderOps == {"forth", "only", "also", ">order", "previous", "set-order", "vocab"}
CurrentOps == {"definitions", "set-current"}

\* The words that change the search order, with what they are given.
OrderToken ==
    {<<op>> : op \in {"forth", "only", "also", "previous", "definitions"}}
    \union ({">order", "set-current"} \X Nat) \union ({"set-order"} \X Seq(Nat))
Token ==
    OrderToken
    \union {<<t>> : t \in {"noname", "wordlist", "immediate", "[", "]", "number",
                           "recursive", "recurse", "colon", "postpone ;", ";"}}
    \union ({"colon", "name", "postpone", "to", "is", "value", "defer", "vocabulary"}
             \X Names)

ASSUME NamesAssumption == Names \intersect {NoName, Unnamed} = {}
ASSUME LessonsAssumption == Lessons \subseteq Seq(SUBSET Token)

VARIABLES
    words, last_word,                               \* WORD_REGISTRY, last_word
    wordlists, search_order, current_wl, order_is_default,
    compiling,  \* the definition in progress: code, name, noname, predefined,
                \* state, and (history) def, the number of the definition
    comp_stack, \* the saved contexts
    bound,      \* value_addrs and defer_ids: the newest VALUE, DEFER of a name
    running,    \* the instructions the running word has left
    program, pos,
    defs,       \* history: how many definitions were begun
    kept        \* history: the last SET-ORDER kept wordlist 0 at the end

orderVars == <<search_order, order_is_default, kept>>
listVars == <<wordlists, current_wl>>
wordVars == <<words, last_word, bound>>
openVars == <<compiling, comp_stack, defs>>
textVars == <<running, program, pos>>
vars == <<orderVars, listVars, wordVars, openVars, textVars>>

-----------------------------------------------------------------------------
(* Search order *)

Wordlist(wid) == wordlists[wid + 1]
Dict == Wordlist(current_wl)

\* The word the search order finds: that of the first wordlist with the name.
Hits(n) == {k \in DOMAIN search_order : Wordlist(search_order[k])[n] # 0}
Search(n) == IF Hits(n) = {} THEN 0 ELSE Wordlist(search_order[Min(Hits(n))])[n]

Lookup(n) == IF order_is_default THEN Dict[n] ELSE Search(n)

\* Mutant of IsDefault: the compilation wordlist is forgotten.
IsDefaultAnyCurrent(order, wid) == order = <<0>>
IsDefault(order, wid) == order = <<0>> /\ wid = 0

OnTop(wid) ==
    IF search_order = <<>> THEN <<wid>> ELSE [search_order EXCEPT ![1] = wid]

\* Mutant of VocabSelect: nothing puts wordlist 0 back.
VocabSelectOnly(wid) == OnTop(wid)
\* The wordlist replaces the top; wordlist 0 stays in the order.
VocabSelect(wid) ==
    IF 0 \in Range(OnTop(wid)) THEN OnTop(wid) ELSE Append(OnTop(wid), 0)

Also == IF search_order = <<>> THEN <<0>> ELSE <<Head(search_order)>> \o search_order

\* Mutant of ToOrder: any number becomes a wordlist.
ToOrderUnchecked(wid) == <<wid>> \o search_order
ToOrder(wid) ==
    IF wid < Len(wordlists) THEN <<wid>> \o search_order ELSE search_order

Previous == IF Len(search_order) > 1 THEN Tail(search_order) ELSE search_order

\* SET-ORDER takes the wordlists a program gives it as they are.
OrderAfter(op) ==
    CASE op[1] = "forth" -> OnTop(0)
      [] op[1] = "only" -> <<0>>
      [] op[1] = "also" -> Also
      [] op[1] = ">order" -> ToOrder(op[2])
      [] op[1] = "previous" -> Previous
      [] op[1] = "set-order" -> op[2]
      [] op[1] = "vocab" -> VocabSelect(op[2])

KeptAfter(op) ==
    CASE op[1] = "only" -> TRUE
      [] op[1] = "set-order" -> op[2] # <<>> /\ Last(op[2]) = 0
      [] OTHER -> kept

\* Assumed of a program: SET-ORDER is given wordlists there are.
Reorder(op) ==
    /\ op[1] \in OrderOps
    /\ op[1] = "set-order" => op[2] \in Seq(0..(Len(wordlists) - 1))
    /\ search_order' = OrderAfter(op)
    /\ order_is_default' = IsDefault(search_order', current_wl)
    /\ kept' = KeptAfter(op)
    /\ UNCHANGED listVars

\* DEFINITIONS and SET-CURRENT: the wordlist that takes the new words.
NewCurrent(op) ==
    CASE op[1] = "set-current" -> IF op[2] < Len(wordlists) THEN op[2] ELSE current_wl
      [] op[1] = "definitions" -> IF search_order = <<>> THEN current_wl ELSE Head(search_order)

\* The definitions in progress.
Opened == {c \in {compiling} \union Range(comp_stack) : c.name # NoName}
OpenNames == {c.name : c \in Opened}
OpenDefs == {c.def : c \in Opened}

\* Assumed of a program: no word is being compiled when the wordlist changes.
SetCurrent(op) ==
    /\ op[1] \in CurrentOps
    /\ Opened = {}
    /\ current_wl' = NewCurrent(op)
    /\ order_is_default' = IsDefault(search_order, current_wl')
    /\ UNCHANGED <<wordlists, search_order, kept>>
-----------------------------------------------------------------------------
(* Making words.  Three fields are history: def, the definition a word     *)
(* comes from, home, the wordlist it was entered in, and hides, the word   *)
(* entered earlier for the same definition that it hides, 0 for none.      *)

Word(name, kind, thread, held, def) ==
    [name |-> name, kind |-> kind, thread |-> thread, held |-> held,
     immediate |-> FALSE, def |-> def, home |-> current_wl, hides |-> 0]
NextWid == Len(words) + 1

\* define_colon: a new word, entered in the compilation wordlist.
Define(word) ==
    /\ words' = Append(words, word)
    /\ wordlists' = [wordlists EXCEPT ![current_wl + 1][word.name] = NextWid]
    /\ last_word' = NextWid

\* The word that the current definition has entered already, 0 for none.
Own == IF compiling.predefined THEN Dict[compiling.name] ELSE 0

Emit(item) == compiling' = [compiling EXCEPT !.code = Append(@, item)]

Context(name, noname) ==
    [code |-> <<>>, name |-> name, noname |-> noname, predefined |-> FALSE,
     state |-> "compile", def |-> defs + 1]

\* What is left of the definition when it has become a word.
Finished == [compiling EXCEPT !.code = <<>>, !.name = NoName, !.noname = FALSE,
                              !.state = "interpret", !.def = 0]

\* _finalize_definition: the code becomes a nameless word, the thread of the
\* word RECURSE has entered already, or a new word of the name.
Finalize ==
    LET thread == Append(compiling.code, <<"exit">>)
    IN  CASE compiling.noname ->
               /\ words' = Append(words, Word(NoName, "colon", thread, 0, compiling.def))
               /\ UNCHANGED <<wordlists, last_word>>
          [] ~compiling.noname /\ Own # 0 ->
               /\ words' = [words EXCEPT ![Own].thread = thread]
               /\ last_word' = Own
               /\ UNCHANGED wordlists
          [] OTHER ->
               Define(Word(compiling.name, "colon", thread, 0, compiling.def))
-----------------------------------------------------------------------------
(* Tokens read while interpreting *)

Reads(token) ==
    /\ running = <<>>
    /\ pos \in DOMAIN program /\ token \in program[pos]
    /\ pos' = pos + 1
    /\ UNCHANGED program
OrderWords == {t \in UNION Range(program) : t \in OrderToken}
Interpreting == compiling.state = "interpret"
CompilingState == compiling.state = "compile"

\* A word can run when the words it calls make no calls (the bound of the
\* model: no word runs for ever).  An empty thread runs, to no effect.
Callees(w) == {item[2] : item \in {i \in Range(words[w].thread) : i[1] = "call"}}
Flat(w) == w # 0 /\ Callees(w) = {}
Runnable(w) == w # 0 /\ \A v \in Callees(w) : Flat(v)

\* `:' and :NONAME.  Assumed: not between [ and ] of another definition.
Colon ==
    /\ \E n \in Names : Reads(<<"colon", n>>) /\ compiling' = Context(n, FALSE)
    /\ Interpreting /\ Opened = {}
    /\ defs' = defs + 1
    /\ UNCHANGED <<orderVars, listVars, wordVars, comp_stack, running>>

ColonNoname ==
    /\ Reads(<<"noname">>)
    /\ Interpreting /\ Opened = {}
    /\ compiling' = Context(Unnamed, TRUE)
    /\ defs' = defs + 1
    /\ UNCHANGED <<orderVars, listVars, wordVars, comp_stack, running>>

MakeWordlist ==
    /\ Reads(<<"wordlist">>) /\ Interpreting
    /\ wordlists' = Append(wordlists, [n \in Names |-> 0])
    /\ UNCHANGED <<orderVars, current_wl, wordVars, openVars, running>>

\* Assumed, of this and the next: not inside another definition.
Vocabulary ==
    /\ Interpreting /\ Opened = {}
    /\ \E n \in Names :
        /\ Reads(<<"vocabulary", n>>)
        /\ words' = Append(words, Word(n, "vocabulary",
                        <<<<"vocab", Len(wordlists)>>, <<"exit">>>>, 0, defs + 1))
        /\ wordlists' = Append([wordlists EXCEPT ![current_wl + 1][n] = NextWid],
                               [m \in Names |-> 0])
    /\ last_word' = NextWid
    /\ defs' = defs + 1
    /\ UNCHANGED <<orderVars, current_wl, bound, compiling, comp_stack, running>>

\* Mutant of Bind: the table keeps the first word of a name.
BindOnce(kind, n) ==
    bound' = IF bound[kind][n] # 0 THEN bound ELSE [bound EXCEPT ![kind][n] = NextWid]
\* value_addrs and defer_ids are keyed by the name alone.
Bind(kind, n) == bound' = [bound EXCEPT ![kind][n] = NextWid]

\* VALUE and DEFER: a word of one cell, and its entry in the table of its kind.
Value ==
    /\ Interpreting /\ Opened = {}
    /\ \E n \in Names, v \in Values :
        /\ Reads(<<"value", n>>)
        /\ Define(Word(n, "value", <<<<"fetch", NextWid>>, <<"exit">>>>, v, defs + 1))
        /\ Bind("value", n)
    /\ defs' = defs + 1
    /\ UNCHANGED <<orderVars, current_wl, compiling, comp_stack, running>>

Defer ==
    /\ Interpreting /\ Opened = {}
    /\ \E n \in Names :
        /\ Reads(<<"defer", n>>)
        /\ Define(Word(n, "defer", <<<<"defer", NextWid>>, <<"exit">>>>, 0, defs + 1))
        /\ Bind("defer", n)
    /\ defs' = defs + 1
    /\ UNCHANGED <<orderVars, current_wl, compiling, comp_stack, running>>

\* The values TO can store; the words IS can bind (to no DEFER: it may be this;
\* and to no word in progress: it may come to call this).
Storable(kind) ==
    IF kind = "value" THEN Values
    ELSE {w \in DOMAIN words : /\ Flat(w) /\ words[w].kind # "defer"
                               /\ words[w].def \notin OpenDefs}
KindOf(token) == IF token = "to" THEN "value" ELSE "defer"

\* TO and IS: the cell the table gives for the name is changed.
Assign ==
    /\ Interpreting
    /\ \E t \in {"to", "is"}, n \in Names :
        /\ Reads(<<t, n>>)
        /\ bound[KindOf(t)][n] # 0
        /\ \E v \in Storable(KindOf(t)) :
              words' = [words EXCEPT ![bound[KindOf(t)][n]].held = v]
    /\ UNCHANGED <<orderVars, listVars, last_word, bound, openVars, running>>

Immediate ==
    /\ Reads(<<"immediate">>) /\ Interpreting /\ last_word # 0
    /\ words' = [words EXCEPT ![last_word].immediate = TRUE]
    /\ UNCHANGED <<orderVars, listVars, last_word, bound, openVars, running>>

\* The search order is changed from the text.
InterpretOrder ==
    /\ Interpreting
    /\ \E op \in OrderWords :
        Reads(op) /\ (Reorder(op) \/ SetCurrent(op))
    /\ UNCHANGED <<wordVars, openVars, running>>

\* `]' goes on with the definition that `[' left.
RightBracket ==
    /\ Reads(<<"]">>) /\ Interpreting /\ compiling.name # NoName
    /\ compiling' = [compiling EXCEPT !.state = "compile"]
    /\ UNCHANGED <<orderVars, listVars, wordVars, comp_stack, defs, running>>

\* _execute_or_push: a name is looked up and its word runs.
Execute ==
    /\ Interpreting
    /\ \E n \in Names :
        /\ Reads(<<"name", n>>)
        /\ Runnable(Lookup(n))
        /\ running' = words[Lookup(n)].thread
    /\ UNCHANGED <<orderVars, listVars, wordVars, openVars>>
-----------------------------------------------------------------------------
(* Tokens read while compiling *)

\* _compile_word_or_literal: an immediate word runs, another is compiled.
CompileName ==
    /\ CompilingState
    /\ \E n \in Names :
        /\ Reads(<<"name", n>>)
        /\ Lookup(n) # 0
        /\ \/ /\ words[Lookup(n)].immediate
              /\ Runnable(Lookup(n))
              /\ running' = words[Lookup(n)].thread
              /\ UNCHANGED compiling
           \/ /\ ~words[Lookup(n)].immediate
              /\ Emit(<<"call", Lookup(n)>>)
              /\ UNCHANGED running
    /\ UNCHANGED <<orderVars, listVars, wordVars, comp_stack, defs>>

\* A number, `:', :NONAME, POSTPONE ; , IMMEDIATE: one instruction, which acts when the
\* new word runs; and a word that changes the order, a primitive of wordlist 0
\* (ONLY is none).
CompileItem ==
    /\ CompilingState
    /\ \/ \E item \in {<<"number">>, <<"colon">>, <<"noname">>, <<"postpone ;">>,
                         <<"immediate">>} :
              Reads(item) /\ Emit(item)
       \/ \E op \in OrderWords \ {<<"only">>} :
              (order_is_default \/ 0 \in Range(search_order)) /\ Reads(op) /\ Emit(op)
    /\ UNCHANGED <<orderVars, listVars, wordVars, comp_stack, defs, running>>

\* POSTPONE of a name: an immediate word is compiled, another compiles itself
\* when the new word runs.
Postpone ==
    /\ CompilingState
    /\ \E n \in Names :
        /\ Reads(<<"postpone", n>>)
        /\ Lookup(n) # 0
        /\ Emit(<<IF words[Lookup(n)].immediate THEN "call" ELSE "postpone", Lookup(n)>>)
    /\ UNCHANGED <<orderVars, listVars, wordVars, comp_stack, defs, running>>

\* TO and IS in a definition: the cell is found when they are compiled.
CompileAssign ==
    /\ CompilingState
    /\ \E t \in {"to", "is"}, n \in Names :
        /\ Reads(<<t, n>>)
        /\ bound[KindOf(t)][n] # 0
        /\ Emit(<<"store", bound[KindOf(t)][n]>>)
    /\ UNCHANGED <<orderVars, listVars, wordVars, comp_stack, defs, running>>

\* The word of the current definition, entered before it has a thread.
Predefine(hidden) ==
    Define([Word(compiling.name, "colon", <<>>, 0, compiling.def)
              EXCEPT !.hides = hidden])

\* RECURSIVE enters a word each time it is read, whatever RECURSE or another
\* RECURSIVE has entered: `;' will fill the newest.  Left out, of this and of
\* RECURSE: in a nameless definition, which they enter under the name NONAME.
Recursive ==
    /\ Reads(<<"recursive">>) /\ CompilingState
    /\ compiling.name # NoName /\ ~compiling.noname
    /\ Predefine(Own)
    /\ compiling' = [compiling EXCEPT !.predefined = TRUE]
    /\ UNCHANGED <<orderVars, current_wl, bound, comp_stack, defs, running>>

\* Mutant of RecurseWord: each RECURSE enters a word of its own.
RecurseWordAgain ==
    Predefine(0) /\ compiling' = [compiling EXCEPT !.predefined = TRUE,
                                    !.code = Append(@, <<"call", NextWid>>)]
\* The word entered before, or a new one.
RecurseWord ==
    \/ /\ Own # 0
       /\ Emit(<<"call", Own>>)
       /\ UNCHANGED <<words, wordlists, last_word>>
    \/ /\ Own = 0
       /\ Predefine(0)
       /\ compiling' = [compiling EXCEPT !.predefined = TRUE,
                          !.code = Append(@, <<"call", NextWid>>)]

Recurse ==
    /\ Reads(<<"recurse">>) /\ CompilingState
    /\ compiling.name # NoName /\ ~compiling.noname
    /\ RecurseWord
    /\ UNCHANGED <<orderVars, current_wl, bound, comp_stack, defs, running>>

LeftBracket ==
    /\ Reads(<<"[">>) /\ CompilingState
    /\ compiling' = [compiling EXCEPT !.state = "interpret"]
    /\ UNCHANGED <<orderVars, listVars, wordVars, comp_stack, defs, running>>

\* `;' in the text.  Assumed: a definition that a running word has opened
\* inside another one is closed by a running word.
Semicolon ==
    /\ Reads(<<";">>) /\ CompilingState /\ compiling.name # NoName
    /\ \A k \in DOMAIN comp_stack : comp_stack[k].name = NoName
    /\ Finalize
    /\ compiling' = Finished
    /\ UNCHANGED <<orderVars, current_wl, bound, comp_stack, defs, running>>
-----------------------------------------------------------------------------
(* Instructions of a running word *)

Runs(kind) ==
    /\ running # <<>> /\ Head(running)[1] = kind
    /\ running' = Tail(running)
    /\ UNCHANGED <<program, pos>>
Operand == Head(running)[2]

RunPlain ==
    /\ Runs("number") \/ Runs("fetch") \/ Runs("exit")
    /\ UNCHANGED <<orderVars, listVars, wordVars, openVars>>

\* A call, or a DEFER word that runs the word it holds, if any.
RunCall ==
    /\ running # <<>>
    /\ \/ /\ Head(running)[1] = "call" /\ Flat(Operand)
          /\ running' = words[Operand].thread \o Tail(running)
       \/ /\ Head(running)[1] = "defer"
          /\ running' = IF words[Operand].held = 0 THEN Tail(running)
                        ELSE words[words[Operand].held].thread \o Tail(running)
    /\ UNCHANGED <<orderVars, listVars, wordVars, openVars, program, pos>>

RunStore ==
    /\ Runs("store")
    /\ \E v \in Storable(words[Operand].kind) :
          words' = [words EXCEPT ![Operand].held = v]
    /\ UNCHANGED <<orderVars, listVars, last_word, bound, openVars>>

RunOrder ==
    /\ \E kind \in OrderOps \union CurrentOps : Runs(kind)
    /\ Reorder(Head(running)) \/ SetCurrent(Head(running))
    /\ UNCHANGED <<wordVars, openVars>>

\* A word that marks what a running word has defined.
RunImmediate ==
    /\ Runs("immediate") /\ last_word # 0
    /\ words' = [words EXCEPT ![last_word].immediate = TRUE]
    /\ UNCHANGED <<orderVars, listVars, last_word, bound, openVars>>

\* runtime_postpone: the word goes into the definition being compiled.
RunPostpone ==
    /\ Runs("postpone")
    /\ compiling.name # NoName
    /\ Emit(<<"call", Operand>>)
    /\ UNCHANGED <<orderVars, listVars, wordVars, comp_stack, defs>>

\* Mutant of Nested: the code of the outer definition is not put away.
NestedInPlace(name, noname) ==
    /\ comp_stack' = Append(comp_stack, compiling)
    /\ compiling' = [Context(name, noname) EXCEPT !.code = compiling.code]
    /\ defs' = defs + 1
\* A definition is opened and the one in progress put away.
Nested(name, noname) ==
    /\ comp_stack' = Append(comp_stack, compiling)
    /\ compiling' = Context(name, noname)
    /\ defs' = defs + 1

\* runtime_begin_named reads its name from the text.  Assumed: it is not that
\* of a definition in progress.
RunBeginNamed ==
    /\ Runs("colon")
    /\ \E n \in Names \ OpenNames : Nested(n, FALSE)
    /\ UNCHANGED <<orderVars, listVars, wordVars>>

RunBeginNoname ==
    /\ Runs("noname")
    /\ Nested(Unnamed, TRUE)
    /\ UNCHANGED <<orderVars, listVars, wordVars>>

\* runtime_end_definition: the definition ends, the one put away goes on.
RunEndDefinition ==
    /\ Runs("postpone ;")
    /\ compiling.name # NoName
    /\ Finalize
    /\ IF comp_stack = <<>>
       THEN compiling' = Finished /\ UNCHANGED comp_stack
       ELSE compiling' = Last(comp_stack) /\ comp_stack' = Front(comp_stack)
    /\ UNCHANGED <<orderVars, current_wl, bound, defs>>
-----------------------------------------------------------------------------
Init ==
    /\ words = <<>> /\ last_word = 0
    /\ wordlists = <<[n \in Names |-> 0]>>
    /\ search_order = <<0>> /\ current_wl = 0 /\ order_is_default = TRUE
    /\ compiling = [code |-> <<>>, name |-> NoName, noname |-> FALSE,
                    predefined |-> FALSE, state |-> "interpret", def |-> 0]
    /\ comp_stack = <<>> /\ defs = 0 /\ kept = TRUE
    /\ bound = [kind \in {"value", "defer"} |-> [n \in Names |-> 0]]
    /\ running = <<>> /\ program \in Lessons /\ pos = 1

Next ==
    \/ Colon \/ ColonNoname \/ MakeWordlist \/ Vocabulary \/ Value \/ Defer
    \/ Assign \/ Immediate \/ InterpretOrder \/ RightBracket \/ Execute
    \/ CompileName \/ CompileItem \/ Postpone \/ CompileAssign
    \/ Recursive \/ Recurse \/ LeftBracket \/ Semicolon
    \/ RunPlain \/ RunCall \/ RunStore \/ RunOrder \/ RunPostpone \/ RunImmediate
    \/ RunBeginNamed \/ RunBeginNoname \/ RunEndDefinition

Spec == Init /\ [][Next]_vars
-----------------------------------------------------------------------------
(* Properties *)

\* What a thread may hold: every wid in it is that of a word, and that of a
\* DEFER's own instruction is no VALUE's.
NotValues == {w \in DOMAIN words : words[w].kind # "value"}
Instruction ==
    {<<i>> : i \in {"number", "exit", "colon", "noname", "immediate", "postpone ;"}}
    \union ({"call", "postpone", "store", "fetch"} \X DOMAIN words)
    \union ({"defer"} \X NotValues)
    \union ({"vocab"} \X (0..(Len(wordlists) - 1)))
    \union OrderToken
WordType ==
    [name : Names \union {NoName}, kind : {"colon", "vocabulary", "value", "defer"},
     thread : Seq(Instruction), held : Values \union 0..Len(words),
     immediate : BOOLEAN, def : Nat, home : 0..(Len(wordlists) - 1),
     hides : 0..Len(words)]
ContextType ==
    [code : Seq(Instruction), name : Names \union {NoName, Unnamed}, noname : BOOLEAN,
     predefined : BOOLEAN, state : {"interpret", "compile"}, def : Nat]

\* Every wid in a wordlist, in the order, in a thread, in a DEFER or a table is
\* one that exists, and the fields have their types.
TypeOK ==
    /\ words \in Seq(WordType)
    /\ \A w \in NotValues : words[w].held \in 0..Len(words)
    /\ last_word \in 0..Len(words)
    /\ wordlists \in Seq([Names -> 0..Len(words)])
    /\ current_wl \in 0..(Len(wordlists) - 1)
    /\ search_order \in Seq(0..(Len(wordlists) - 1))
    /\ order_is_default \in BOOLEAN /\ kept \in BOOLEAN
    /\ bound \in [{"value", "defer"} -> [Names -> 0..Len(words)]]
    /\ compiling \in ContextType /\ comp_stack \in Seq(ContextType) /\ defs \in Nat
    /\ \A c \in {compiling} \union Range(comp_stack) : c.noname = (c.name = Unnamed)
    /\ running \in Seq(Instruction) /\ program \in Lessons /\ pos \in Nat \ {0}

\* The fast path of _lookup and of the main loop, which looks only into the
\* compilation wordlist, finds what the search order finds, after any sequence
\* of order words, from the text or from a running word.
LookupIsSearch == \A n \in Names : Lookup(n) = Search(n)

\* "selecting a vocab never hides core words" (runtime_vocab_select): however
\* the order is changed, wordlist 0 is in it unless a program has given
\* SET-ORDER an order that does not end in wordlist 0.
CoreWordsReachable == kept => 0 \in Range(search_order)

\* A word without a thread is that of a definition in progress, or one that a
\* RECURSIVE later in its definition has hidden: what RECURSE and RECURSIVE enter
\* is filled when its definition ends, though others are opened, closed and
\* named in between.  The hidden word stays empty for ever in the code too,
\* also when RECURSE has compiled calls of it (: v recurse recursive ;).
Hidden == {w.hides : w \in Range(words)} \ {0}
WordsFilled ==
    \A w \in DOMAIN words :
        words[w].thread = <<>> => words[w].def \in OpenDefs \/ w \in Hidden

\* TO and IS, which know a word by its name in a table of their own, reach the
\* word the dictionary finds, when that is a VALUE or a DEFER and all those of
\* the name lie in one wordlist.
Homes(kind, n) ==
    {w.home : w \in {v \in Range(words) : v.name = n /\ v.kind = kind}}
TablesFindWords ==
    \A kind \in {"value", "defer"}, n \in Names :
        /\ Search(n) # 0
        /\ words[Search(n)].kind = kind
        /\ Cardinality(Homes(kind, n)) = 1
        => bound[kind][n] = Search(n)

\* Definitions nest: each has the text compiled while it was the innermost,
\* and the words of finished ones never change.  The word of a definition is the
\* one with a thread; a hidden word has none.
MadeDefs == {w.def : w \in Range(words)} \ OpenDefs
WordOf(def) == CHOOSE w \in Range(words) : w.def = def /\ w.thread # <<>>

\* The contexts, the innermost last, and how many lie below the outermost
\* definition in progress.
Contexts == Append(comp_stack, compiling)
Idle(v) ==
    LET named == {k \in DOMAIN v : v[k].name # NoName}
    IN  IF named = {} THEN Len(v) ELSE Min(named) - 1

OpenTexts ==
    [k \in 1..(Len(Contexts) - Idle(Contexts)) |->
        LET c == Contexts[Idle(Contexts) + k]
        IN  [id |-> c.def, name |-> c.name, text |-> c.code]]
MadeTexts == [def \in MadeDefs |-> Front(WordOf(def).thread)]

Texts == INSTANCE Definitions WITH open <- OpenTexts, texts <- MadeTexts, count <- defs
IsDefinitions == Texts!Spec
=============================================================================
