-------------------------- MODULE DictionaryProofs --------------------------
(***************************************************************************)
(* The invariants of Dictionary, for every set of names and values and     *)
(* every program.                                                          *)
(***************************************************************************)
EXTENDS Dictionary, FiniteSetTheorems, SequenceTheorems, TLAPS

-----------------------------------------------------------------------------
(* Types *)

\* What the operand of an instruction is.
LEMMA Operands ==
  ASSUME NEW i \in Instruction
  PROVE  /\ i[1] \in {"call", "postpone", "store", "fetch"} => i[2] \in DOMAIN words
         /\ i[1] = "defer" => i[2] \in NotValues
         /\ i[1] = "vocab" => i[2] \in 0..(Len(wordlists) - 1)
         /\ i[1] \in {">order", "set-current"} => i[2] \in Nat
<1>1. CASE i \in {<<k>> : k \in {"number", "exit", "colon", "noname", "immediate", "postpone ;"}}
  <2>1. PICK k \in {"number", "exit", "colon", "noname", "immediate", "postpone ;"} : i = <<k>>
    BY <1>1
  <2>2. i[1] = k
    BY <2>1
  <2> QED BY <2>2
<1>2. CASE i \in ({"call", "postpone", "store", "fetch"} \X DOMAIN words)
  BY <1>2
<1>3. CASE i \in {"defer"} \X NotValues
  BY <1>3
<1>4. CASE i \in {"vocab"} \X (0..(Len(wordlists) - 1))
  BY <1>4
<1>5. CASE i \in OrderToken
  BY <1>5 DEF OrderToken
<1> QED BY <1>1, <1>2, <1>3, <1>4, <1>5 DEF Instruction

\* The instructions that words are made of.
LEMMA Instructions ==
  /\ \A k \in {"number", "exit", "colon", "noname", "immediate", "postpone ;"} :
        <<k>> \in Instruction
  /\ \A k \in {"call", "postpone", "store", "fetch"}, w \in DOMAIN words :
        <<k, w>> \in Instruction
  /\ \A w \in NotValues : <<"defer", w>> \in Instruction
  /\ \A wid \in 0..(Len(wordlists) - 1) : <<"vocab", wid>> \in Instruction
  /\ OrderToken \subseteq Instruction
BY DEF Instruction

\* Words and wordlists are only added, and a word keeps its kind.
Grows ==
  /\ Len(words) <= Len(words') /\ Len(wordlists) <= Len(wordlists')
  /\ \A w \in DOMAIN words : w \in DOMAIN words' /\ words'[w].kind = words[w].kind

\* What was an instruction, a word or a context still is one.
LEMMA TypesGrow ==
  ASSUME Grows, Len(words) \in Nat, Len(words') \in Nat,
         Len(wordlists) \in Nat, Len(wordlists') \in Nat
  PROVE  /\ Instruction \subseteq Instruction'
         /\ Seq(Instruction) \subseteq Seq(Instruction')
         /\ WordType \subseteq WordType' /\ Seq(WordType) \subseteq Seq(WordType')
         /\ ContextType \subseteq ContextType' /\ Seq(ContextType) \subseteq Seq(ContextType')
<1>1. Instruction \subseteq Instruction'
  <2>1. DOMAIN words \subseteq DOMAIN words' /\ NotValues \subseteq NotValues'
    BY DEF Grows, NotValues
  <2>2. 0..(Len(wordlists) - 1) \subseteq 0..(Len(wordlists') - 1)
    BY DEF Grows
  <2> QED BY <2>1, <2>2, ZenonT(30) DEF Instruction
<1>2. Seq(Instruction) \subseteq Seq(Instruction')
  BY <1>1, SeqMonotonic
<1>3. 0..Len(words) \subseteq 0..Len(words')
  BY DEF Grows
<1>4. WordType \subseteq WordType'
  <2>1. 0..(Len(wordlists) - 1) \subseteq 0..(Len(wordlists') - 1)
    BY DEF Grows
  <2> QED BY <2>1, <1>2, <1>3 DEF WordType
<1>5. ContextType \subseteq ContextType'
  BY <1>2 DEF ContextType
<1> QED BY <1>1, <1>2, <1>4, <1>5, SeqMonotonic

WordsTyped == words \in Seq(WordType) /\ \A w \in NotValues : words[w].held \in 0..Len(words)

\* What TypeOK says of the words, element by element.
LEMMA WordFacts ==
  ASSUME WordsTyped
  PROVE  /\ Len(words) \in Nat /\ DOMAIN words = 1..Len(words)
         /\ \A w \in DOMAIN words :
              /\ words[w] \in WordType /\ words[w].thread \in Seq(Instruction)
              /\ words[w].name \in Names \union {NoName} /\ words[w].def \in Nat
              /\ words[w].kind # "value" => words[w].held \in 0..Len(words)
<1>1. Len(words) \in Nat /\ DOMAIN words = 1..Len(words)
  BY LenProperties DEF WordsTyped
<1>2. ASSUME NEW w \in DOMAIN words PROVE words[w] \in WordType
  BY <1>1, ElementOfSeq DEF WordsTyped
<1> QED BY <1>1, <1>2 DEF WordType, WordsTyped, NotValues

\* A word is added: the old ones stay, whatever the new one is.
LEMMA WordAppended ==
  ASSUME WordsTyped, NEW word, words' = Append(words, word), Len(wordlists) \in Nat,
         Len(wordlists') \in Nat, Len(wordlists) <= Len(wordlists')
  PROVE  /\ Grows /\ Len(words) \in Nat /\ Len(words') = NextWid
         /\ DOMAIN words = 1..Len(words) /\ DOMAIN words' = 1..NextWid
         /\ words'[NextWid] = word
         /\ \A w \in DOMAIN words : words'[w] = words[w]
         /\ words' \in Seq(WordType \union {word})
<1> DEFINE T == WordType \union {word}
<1>1. Len(words) \in Nat /\ DOMAIN words = 1..Len(words)
  BY WordFacts
<1>2. words \in Seq(T) /\ word \in T
  BY SeqMonotonic DEF WordsTyped
<1> HIDE DEF T
<1>3. /\ words' \in Seq(T) /\ Len(words') = Len(words) + 1
      /\ \A w \in 1..Len(words) : words'[w] = words[w]
      /\ words'[Len(words) + 1] = word
  BY <1>2, AppendProperties
<1>4. DOMAIN words' = 1..NextWid
  BY <1>3, LenProperties DEF NextWid
<1>5. Grows
  BY <1>1, <1>3, <1>4 DEF Grows, NextWid
<1> QED BY <1>1, <1>3, <1>4, <1>5 DEF NextWid, T

\* A word of the right type is added.
LEMMA WordAdded ==
  ASSUME WordsTyped, NEW word, words' = Append(words, word), Len(wordlists) \in Nat,
         Len(wordlists') \in Nat, Len(wordlists) <= Len(wordlists'), word \in WordType',
         word.kind # "value" => word.held \in 0..Len(words')
  PROVE  WordsTyped'
<1>1. /\ Grows /\ Len(words) \in Nat /\ Len(words') = Len(words) + 1
      /\ DOMAIN words = 1..Len(words) /\ DOMAIN words' = 1..(Len(words) + 1)
      /\ words'[Len(words) + 1] = word
      /\ \A w \in DOMAIN words : words'[w] = words[w]
      /\ words' \in Seq(WordType \union {word})
  BY WordAppended DEF NextWid
<1>2. WordType \union {word} \subseteq WordType'
  BY <1>1, TypesGrow
<1>3. words' \in Seq(WordType')
  BY <1>1, <1>2, SeqMonotonic
<1>4. ASSUME NEW w \in NotValues' PROVE words'[w].held \in 0..Len(words')
  <2>1. w \in DOMAIN words' /\ words'[w].kind # "value"
    BY <1>4 DEF NotValues
  <2>2. CASE w = Len(words) + 1
    BY <2>1, <2>2, <1>1
  <2>3. CASE w # Len(words) + 1
    <3>1. w \in DOMAIN words
      BY <2>1, <2>3, <1>1
    <3>2. words[w].held \in 0..Len(words)
      BY <3>1, <2>1, <1>1, WordFacts
    <3> QED BY <3>1, <3>2, <1>1
  <2> QED BY <2>2, <2>3
<1> QED BY <1>3, <1>4 DEF WordsTyped

\* A word gets a new thread, value or mark, and no other word changes.
LEMMA WordChanged ==
  ASSUME WordsTyped, NEW k \in DOMAIN words, NEW word \in WordType,
         words' = [words EXCEPT ![k] = word], word.kind = words[k].kind,
         word.kind # "value" => word.held \in 0..Len(words),
         UNCHANGED wordlists, Len(wordlists) \in Nat
  PROVE  /\ Grows /\ WordsTyped' /\ DOMAIN words' = DOMAIN words
         /\ Len(words) \in Nat /\ Len(words') = Len(words)
<1>1. /\ Len(words) \in Nat /\ DOMAIN words = 1..Len(words)
      /\ \A w \in DOMAIN words :
           words[w].kind # "value" => words[w].held \in 0..Len(words)
  BY WordFacts
<1>2. /\ words' \in Seq(WordType) /\ Len(words') = Len(words)
      /\ \A j \in 1..Len(words) : words'[j] = IF j = k THEN word ELSE words[j]
  BY <1>1, ExceptSeq DEF WordsTyped
<1>3. DOMAIN words' = DOMAIN words
  BY <1>1, <1>2, LenProperties
<1>4. Grows
  BY <1>1, <1>2, <1>3 DEF Grows
<1>5. words' \in Seq(WordType')
  <2>1. Seq(WordType) \subseteq Seq(WordType')
    BY <1>1, <1>2, <1>4, TypesGrow
  <2> QED BY <2>1, <1>2
<1>6. ASSUME NEW w \in NotValues' PROVE words'[w].held \in 0..Len(words')
  BY <1>1, <1>2, <1>3, <1>6 DEF NotValues
<1> QED BY <1>1, <1>2, <1>3, <1>4, <1>5, <1>6 DEF WordsTyped

\* One name of one wordlist gets a word.
LEMMA EnteredIn ==
  ASSUME NEW S, NEW lists \in Seq([Names -> S]), NEW l0 \in 1..Len(lists),
         NEW n \in Names, NEW wid \in S
  PROVE  LET new == [lists EXCEPT ![l0][n] = wid]
         IN  /\ new \in Seq([Names -> S]) /\ Len(new) = Len(lists)
             /\ \A l \in 1..Len(lists), m \in Names :
                  new[l][m] = IF l = l0 /\ m = n THEN wid ELSE lists[l][m]
<1> DEFINE T == [Names -> S]
           e == [lists[l0] EXCEPT ![n] = wid]
           new == [lists EXCEPT ![l0] = e]
<1>1. \A l \in 1..Len(lists) : lists[l] \in T
  BY ElementOfSeq
<1>2. e \in T /\ \A m \in Names : e[m] = IF m = n THEN wid ELSE lists[l0][m]
  BY <1>1
<1>3. lists \in Seq(T)
  OBVIOUS
<1> HIDE DEF e, T
<1>4. /\ new \in Seq(T) /\ Len(new) = Len(lists)
      /\ \A l \in 1..Len(lists) : new[l] = IF l = l0 THEN e ELSE lists[l]
  BY <1>2, <1>3, ExceptSeq
<1> HIDE DEF new
<1>5. /\ new \in Seq(T) /\ Len(new) = Len(lists)
      /\ \A l \in 1..Len(lists), m \in Names :
           new[l][m] = IF l = l0 /\ m = n THEN wid ELSE lists[l][m]
  BY <1>2, <1>4
<1> QED BY <1>5 DEF new, e, T

\* The newest word enters the compilation wordlist.
Enters(n, wid) == wordlists' = [wordlists EXCEPT ![current_wl + 1][n] = wid]

\* The wordlist has its new entry, all else is as it was.
LEMMA Entering ==
  ASSUME TypeOK, NEW n \in Names, NEW wid \in Nat, Enters(n, wid)
  PROVE  /\ Len(wordlists') = Len(wordlists) /\ Len(wordlists) \in Nat
         /\ DOMAIN wordlists' = 1..Len(wordlists) /\ DOMAIN wordlists = 1..Len(wordlists)
         /\ \A l \in DOMAIN wordlists, m \in Names :
              wordlists'[l][m] = IF l = current_wl + 1 /\ m = n THEN wid ELSE wordlists[l][m]
         /\ wordlists' \in Seq([Names -> 0..Len(words) \union {wid}])
<1> DEFINE S == 0..Len(words) \union {wid}
           l0 == current_wl + 1
<1>1. wordlists \in Seq([Names -> 0..Len(words)])
  BY DEF TypeOK
<1>2. Len(wordlists) \in Nat /\ DOMAIN wordlists = 1..Len(wordlists)
  BY <1>1, LenProperties
<1>3. l0 \in 1..Len(wordlists)
  BY <1>2 DEF TypeOK
<1>4. wordlists \in Seq([Names -> S]) /\ wid \in S
  BY <1>1, SeqMonotonic
<1> HIDE DEF S
<1>5. /\ wordlists' \in Seq([Names -> S]) /\ Len(wordlists') = Len(wordlists)
      /\ \A l \in 1..Len(wordlists), m \in Names :
           wordlists'[l][m] = IF l = l0 /\ m = n THEN wid ELSE wordlists[l][m]
  BY <1>3, <1>4, EnteredIn DEF Enters
<1>6. DOMAIN wordlists' = 1..Len(wordlists)
  BY <1>5, LenProperties
<1> QED BY <1>2, <1>5, <1>6 DEF S

\* The parts of TypeOK.
ListsTyped ==
  /\ wordlists \in Seq([Names -> 0..Len(words)])
  /\ bound \in [{"value", "defer"} -> [Names -> 0..Len(words)]]
  /\ last_word \in 0..Len(words)
OrderTyped ==
  /\ search_order \in Seq(0..(Len(wordlists) - 1)) /\ current_wl \in 0..(Len(wordlists) - 1)
  /\ order_is_default \in BOOLEAN /\ kept \in BOOLEAN
OpenTyped ==
  /\ compiling \in ContextType /\ comp_stack \in Seq(ContextType) /\ defs \in Nat
  /\ \A c \in {compiling} \union Range(comp_stack) : c.noname = (c.name = Unnamed)
TextTyped == running \in Seq(Instruction) /\ program \in Lessons /\ pos \in Nat \ {0}

\* TypeOK in five parts, one for each group of variables.
LEMMA TypeParts == TypeOK <=> WordsTyped /\ ListsTyped /\ OrderTyped /\ OpenTyped /\ TextTyped
BY DEF TypeOK, WordsTyped, ListsTyped, OrderTyped, OpenTyped, TextTyped

\* The same of the next state.
LEMMA TypePartsNext ==
  WordsTyped' /\ ListsTyped' /\ OrderTyped' /\ OpenTyped' /\ TextTyped' => TypeOK'
BY DEF TypeOK, WordsTyped, ListsTyped, OrderTyped, OpenTyped, TextTyped

\* What a step leaves alone keeps its type when words and wordlists are added.
LEMMA Carried ==
  ASSUME TypeOK, Grows, Len(words') \in Nat, Len(wordlists') \in Nat
  PROVE  /\ UNCHANGED wordlists => wordlists' \in Seq([Names -> 0..Len(words')])
         /\ UNCHANGED bound => bound' \in [{"value", "defer"} -> [Names -> 0..Len(words')]]
         /\ UNCHANGED last_word => last_word' \in 0..Len(words')
         /\ UNCHANGED <<orderVars, current_wl>> => OrderTyped'
         /\ UNCHANGED openVars => OpenTyped'
         /\ Seq(Instruction) \subseteq Seq(Instruction')
         /\ ContextType \subseteq ContextType'
         /\ Seq(ContextType) \subseteq Seq(ContextType')
<1>1. /\ WordsTyped /\ ListsTyped /\ OrderTyped /\ OpenTyped /\ TextTyped
      /\ Len(words) \in Nat
  BY TypeParts, WordFacts
<1>2. Len(wordlists) \in Nat
  BY <1>1, LenProperties DEF ListsTyped
<1>3. /\ Seq(Instruction) \subseteq Seq(Instruction') /\ ContextType \subseteq ContextType'
      /\ Seq(ContextType) \subseteq Seq(ContextType')
  BY <1>1, <1>2, TypesGrow
<1>4. 0..Len(words) \subseteq 0..Len(words')
  BY <1>1 DEF Grows
<1>5. 0..(Len(wordlists) - 1) \subseteq 0..(Len(wordlists') - 1)
  BY <1>2 DEF Grows
<1>6. [Names -> 0..Len(words)] \subseteq [Names -> 0..Len(words')]
  BY <1>4
<1>7. ASSUME UNCHANGED wordlists PROVE wordlists' \in Seq([Names -> 0..Len(words')])
  BY <1>1, <1>6, <1>7, SeqMonotonic DEF ListsTyped
<1>8. ASSUME UNCHANGED bound
      PROVE  bound' \in [{"value", "defer"} -> [Names -> 0..Len(words')]]
  BY <1>1, <1>6, <1>8 DEF ListsTyped
<1>9. ASSUME UNCHANGED <<orderVars, current_wl>> PROVE OrderTyped'
  <2>1. search_order \in Seq(0..(Len(wordlists') - 1))
    BY <1>1, <1>5, SeqMonotonic DEF OrderTyped
  <2> QED BY <2>1, <1>1, <1>5, <1>9 DEF OrderTyped, orderVars
<1>10. ASSUME UNCHANGED openVars PROVE OpenTyped'
  BY <1>1, <1>3, <1>10 DEF OpenTyped, openVars
<1> QED BY <1>1, <1>3, <1>4, <1>7, <1>8, <1>9, <1>10 DEF ListsTyped

\* A set of naturals with an element has a least one.
LEMMA MinType ==
  ASSUME NEW S \in SUBSET Nat, S # {}
  PROVE  Min(S) \in S /\ \A k \in S : Min(S) <= k
<1>1. PICK m \in S : \A k \in S : ~ (<<k, m>> \in OpToRel(<, Nat))
  BY NatLessThanWellFounded, WFMin
<1>2. \A k \in S : ~ (k < m)
  BY <1>1 DEF OpToRel
<1>3. \A k \in S : m <= k
  BY <1>2
<1> QED BY <1>3 DEF Min

\* What the wordlists and the search order find is a word or 0.
LEMMA LookupType ==
  ASSUME TypeOK, NEW n \in Names
  PROVE  Search(n) \in 0..Len(words) /\ Dict[n] \in 0..Len(words)
         /\ Lookup(n) \in 0..Len(words)
<1>1. /\ WordsTyped /\ ListsTyped /\ OrderTyped /\ Len(words) \in Nat
  BY TypeParts, WordFacts
<1>2. /\ Len(wordlists) \in Nat /\ DOMAIN wordlists = 1..Len(wordlists)
      /\ \A l \in 1..Len(wordlists) : wordlists[l] \in [Names -> 0..Len(words)]
  BY <1>1, LenProperties, ElementOfSeq DEF ListsTyped
<1>3. \A wid \in 0..(Len(wordlists) - 1) : Wordlist(wid)[n] \in 0..Len(words)
  BY <1>2 DEF Wordlist
<1>4. /\ DOMAIN search_order = 1..Len(search_order) /\ Len(search_order) \in Nat
      /\ \A k \in DOMAIN search_order : search_order[k] \in 0..(Len(wordlists) - 1)
  BY <1>1, LenProperties, ElementOfSeq DEF OrderTyped
<1>5. ASSUME Hits(n) # {} PROVE Min(Hits(n)) \in Hits(n)
  <2>1. Hits(n) \subseteq Nat
    BY <1>4 DEF Hits
  <2> QED BY <2>1, <1>5, MinType
<1>6. Search(n) \in 0..Len(words)
  <2>1. CASE Hits(n) = {}
    BY <2>1, <1>1 DEF Search
  <2>2. CASE Hits(n) # {}
    <3>1. search_order[Min(Hits(n))] \in 0..(Len(wordlists) - 1)
      BY <2>2, <1>4, <1>5 DEF Hits
    <3> QED BY <3>1, <2>2, <1>3 DEF Search
  <2> QED BY <2>1, <2>2
<1>7. Dict[n] \in 0..Len(words)
  BY <1>1, <1>3 DEF Dict, OrderTyped
<1> QED BY <1>6, <1>7 DEF Lookup

\* A step that leaves the words and the wordlists alone leaves the types so.
LEMMA SameTypes ==
  ASSUME TypeOK, UNCHANGED <<words, wordlists>>
  PROVE  /\ Instruction' = Instruction /\ ContextType' = ContextType
         /\ WordsTyped'
         /\ UNCHANGED <<bound, last_word>> => ListsTyped'
         /\ UNCHANGED <<orderVars, current_wl>> => OrderTyped'
         /\ UNCHANGED openVars => OpenTyped'
<1>1. Instruction' = Instruction
  BY DEF Instruction, NotValues
<1>2. ContextType' = ContextType /\ WordType' = WordType
  BY <1>1 DEF ContextType, WordType
<1>3. WordsTyped /\ ListsTyped /\ OrderTyped /\ OpenTyped
  BY TypeParts
<1>4. WordsTyped'
  BY <1>2, <1>3 DEF WordsTyped, NotValues
<1>5. UNCHANGED <<bound, last_word>> => ListsTyped'
  BY <1>3 DEF ListsTyped
<1>6. UNCHANGED <<orderVars, current_wl>> => OrderTyped'
  BY <1>3 DEF OrderTyped, orderVars
<1>7. UNCHANGED openVars => OpenTyped'
  BY <1>2, <1>3 DEF OpenTyped, openVars
<1> QED BY <1>1, <1>2, <1>4, <1>5, <1>6, <1>7

\* Reading a token moves along the program.
LEMMA Reading ==
  ASSUME TypeOK, NEW t, Reads(t)
  PROVE  pos' \in Nat \ {0} /\ program' \in Lessons /\ running = <<>> /\ t \in UNION Range(program)
BY DEF TypeOK, Reads, Range

\* What runs next is an instruction.
LEMMA RunningType ==
  ASSUME TypeOK, running # <<>>
  PROVE  Head(running) \in Instruction /\ Tail(running) \in Seq(Instruction)
<1>1. running \in Seq(Instruction)
  BY DEF TypeOK
<1> QED BY <1>1, HeadTailProperties

\* Code with one item more is code.
LEMMA EmitTyped ==
  ASSUME TypeOK, NEW item \in Instruction, UNCHANGED <<words, wordlists>>,
         Emit(item), UNCHANGED <<comp_stack, defs>>
  PROVE  OpenTyped'
<1>1. compiling \in ContextType /\ OpenTyped
  BY TypeParts DEF OpenTyped
<1>2. Append(compiling.code, item) \in Seq(Instruction)
  BY <1>1, AppendProperties DEF ContextType
<1>3. compiling' \in ContextType /\ compiling'.name = compiling.name
      /\ compiling'.noname = compiling.noname
  BY <1>1, <1>2 DEF Emit, ContextType
<1>4. ContextType' = ContextType
  BY SameTypes
<1> QED BY <1>1, <1>3, <1>4 DEF OpenTyped

\* A context that begins.
LEMMA ContextTyped ==
  ASSUME TypeOK
  PROVE  /\ \A n \in Names :
              /\ Context(n, FALSE) \in ContextType
              /\ Context(n, FALSE).noname = (Context(n, FALSE).name = Unnamed)
         /\ Context(Unnamed, TRUE) \in ContextType
         /\ Context(Unnamed, TRUE).noname = (Context(Unnamed, TRUE).name = Unnamed)
<1>1. defs \in Nat /\ <<>> \in Seq(Instruction)
  BY EmptySeq DEF TypeOK
<1>2. defs + 1 \in Nat
  BY <1>1
<1>3. ASSUME NEW n \in Names
      PROVE  /\ Context(n, FALSE) \in ContextType
             /\ Context(n, FALSE).noname = (Context(n, FALSE).name = Unnamed)
  <2>1. n # Unnamed
    BY NamesAssumption
  <2> QED BY <2>1, <1>1, <1>2 DEF Context, ContextType
<1>4. /\ Context(Unnamed, TRUE) \in ContextType
      /\ Context(Unnamed, TRUE).noname = (Context(Unnamed, TRUE).name = Unnamed)
  BY <1>1, <1>2 DEF Context, ContextType
<1> QED BY <1>3, <1>4

-----------------------------------------------------------------------------
(* Each action keeps the types                                             *)

\* : and :NONAME open a definition.
LEMMA ColonTypeOK == TypeOK /\ (Colon \/ ColonNoname) => TypeOK'
<1> SUFFICES ASSUME TypeOK, Colon \/ ColonNoname PROVE TypeOK'
  OBVIOUS
<1>1. UNCHANGED <<words, wordlists, bound, last_word, orderVars, current_wl, comp_stack, running>>
  BY DEF Colon, ColonNoname, wordVars, listVars
<1>2. WordsTyped' /\ ListsTyped' /\ OrderTyped' /\ ContextType' = ContextType
      /\ Instruction' = Instruction
  BY <1>1, SameTypes
<1>3. compiling' \in ContextType /\ compiling'.noname = (compiling'.name = Unnamed)
  <2>1. CASE Colon
    <3>1. PICK n \in Names : compiling' = Context(n, FALSE)
      BY <2>1 DEF Colon
    <3> QED BY <3>1, ContextTyped
  <2>2. CASE ColonNoname
    BY <2>2, ContextTyped DEF ColonNoname
  <2> QED BY <2>1, <2>2
<1>4. compiling' \in ContextType'
  BY <1>2, <1>3
<1>5. defs \in Nat /\ defs' = defs + 1
  BY DEF TypeOK, Colon, ColonNoname
<1>6. OpenTyped'
  BY <1>1, <1>2, <1>3, <1>5, TypeParts DEF OpenTyped
<1>7. pos' \in Nat \ {0} /\ program' \in Lessons
  BY Reading DEF Colon, ColonNoname
<1>8. TextTyped'
  BY <1>1, <1>2, <1>7, TypeParts DEF TextTyped
<1> QED BY <1>2, <1>6, <1>8, TypePartsNext

\* A step that adds no words keeps the types when what it changes keeps its own.
LEMMA QuietTypeOK ==
  ASSUME TypeOK, UNCHANGED <<listVars, wordVars>> \/ UNCHANGED <<wordlists, wordVars>>,
         OrderTyped', OpenTyped', TextTyped'
  PROVE  TypeOK'
BY SameTypes, TypePartsNext DEF listVars, wordVars

\* The text after a token is read, and while a word goes on.
LEMMA ReadTyped ==
  ASSUME TypeOK, NEW t, Reads(t), UNCHANGED <<words, wordlists>>,
         running' \in Seq(Instruction)
  PROVE  TextTyped'
BY Reading, SameTypes DEF TextTyped

\* Running an instruction leaves the text alone.
LEMMA RunTyped ==
  ASSUME TypeOK, UNCHANGED <<words, wordlists, program, pos>>,
         running' \in Seq(Instruction)
  PROVE  TextTyped'
<1>1. program \in Lessons /\ pos \in Nat \ {0}
  BY DEF TypeOK
<1> QED BY <1>1, SameTypes DEF TextTyped

\* [ and ] change the state of the open definition.
LEMMA BracketTypeOK == TypeOK /\ (LeftBracket \/ RightBracket) => TypeOK'
<1> SUFFICES ASSUME TypeOK, LeftBracket \/ RightBracket PROVE TypeOK'
  OBVIOUS
<1>1. /\ UNCHANGED <<orderVars, listVars, wordVars, comp_stack, defs, running>>
      /\ \E s \in {"interpret", "compile"} : compiling' = [compiling EXCEPT !.state = s]
      /\ \E t : Reads(t)
  BY DEF LeftBracket, RightBracket
<1>2. OpenTyped /\ compiling \in ContextType
  BY TypeParts DEF OpenTyped
<1>3. /\ compiling' \in ContextType
      /\ compiling'.noname = compiling.noname /\ compiling'.name = compiling.name
  <2>1. PICK s \in {"interpret", "compile"} : compiling' = [compiling EXCEPT !.state = s]
    BY <1>1
  <2> QED BY <2>1, <1>2 DEF ContextType
<1>4. OpenTyped'
  <2>1. UNCHANGED <<comp_stack, defs, words, wordlists>>
    BY <1>1 DEF listVars, wordVars
  <2>2. ContextType' = ContextType
    BY <2>1, SameTypes
  <2> QED BY <1>2, <1>3, <2>1, <2>2 DEF OpenTyped
<1>5. OrderTyped'
  BY <1>1, SameTypes DEF listVars, wordVars
<1>6. TextTyped'
  <2>1. running' \in Seq(Instruction)
    BY <1>1 DEF TypeOK
  <2> QED BY <1>1, <2>1, ReadTyped DEF listVars, wordVars
<1> QED BY <1>1, <1>4, <1>5, <1>6, QuietTypeOK

\* What a word has for its thread.
LEMMA ThreadTyped ==
  ASSUME TypeOK, NEW w \in 0..Len(words), w # 0
  PROVE  w \in DOMAIN words /\ words[w].thread \in Seq(Instruction)
<1>1. WordsTyped
  BY TypeParts
<1>2. Len(words) \in Nat /\ DOMAIN words = 1..Len(words)
  BY <1>1, WordFacts
<1>3. w \in DOMAIN words
  BY <1>1, <1>2
<1> QED BY <1>1, <1>3, WordFacts

\* A word found in interpretation state runs.
LEMMA ExecuteTypeOK == TypeOK /\ Execute => TypeOK'
<1> SUFFICES ASSUME TypeOK, Execute PROVE TypeOK'
  OBVIOUS
<1>1. PICK n \in Names : /\ Reads(<<"name", n>>) /\ Runnable(Lookup(n))
                         /\ running' = words[Lookup(n)].thread
  BY DEF Execute
<1>2. UNCHANGED <<orderVars, listVars, wordVars, openVars>>
  BY DEF Execute
<1>3. OrderTyped' /\ OpenTyped'
  BY <1>2, SameTypes DEF listVars, wordVars
<1>4. running' \in Seq(Instruction)
  BY <1>1, LookupType, ThreadTyped DEF Runnable
<1>5. TextTyped'
  BY <1>1, <1>2, <1>4, ReadTyped DEF listVars, wordVars
<1> QED BY <1>2, <1>3, <1>5, QuietTypeOK

\* Actions that read a token and add an instruction to the code.
LEMMA ReadEmitTypeOK ==
  ASSUME TypeOK, NEW t, Reads(t), NEW item \in Instruction, Emit(item),
         UNCHANGED <<orderVars, listVars, wordVars, comp_stack, defs, running>>
  PROVE  TypeOK'
<1>1. OpenTyped'
  BY EmitTyped DEF listVars, wordVars
<1>2. OrderTyped'
  BY SameTypes DEF listVars, wordVars
<1>3. running' \in Seq(Instruction)
  BY DEF TypeOK
<1>4. TextTyped'
  BY <1>3, ReadTyped DEF listVars, wordVars
<1> QED BY <1>1, <1>2, <1>4, QuietTypeOK

\* A word that is found is one there is.
LEMMA FoundType ==
  ASSUME TypeOK, NEW n \in Names, Lookup(n) # 0
  PROVE  Lookup(n) \in DOMAIN words
<1>1. WordsTyped
  BY TypeParts
<1>2. Len(words) \in Nat /\ DOMAIN words = 1..Len(words)
  BY <1>1, WordFacts
<1> QED BY <1>2, LookupType

\* A word found in compilation state is compiled, or runs.
LEMMA CompileNameTypeOK == TypeOK /\ CompileName => TypeOK'
<1> SUFFICES ASSUME TypeOK, CompileName PROVE TypeOK'
  OBVIOUS
<1>1. PICK n \in Names :
        /\ Reads(<<"name", n>>)
        /\ Lookup(n) # 0
        /\ \/ /\ Runnable(Lookup(n)) /\ running' = words[Lookup(n)].thread
              /\ UNCHANGED compiling
           \/ Emit(<<"call", Lookup(n)>>) /\ UNCHANGED running
  BY DEF CompileName
<1>2. UNCHANGED <<orderVars, listVars, wordVars, comp_stack, defs>>
  BY DEF CompileName
<1>3. CASE /\ Runnable(Lookup(n)) /\ running' = words[Lookup(n)].thread
           /\ UNCHANGED compiling
  <2>1. OrderTyped' /\ OpenTyped'
    BY <1>2, <1>3, SameTypes DEF listVars, wordVars, openVars
  <2>2. running' \in Seq(Instruction)
    BY <1>3, LookupType, ThreadTyped DEF Runnable
  <2>3. TextTyped'
    BY <1>1, <1>2, <2>2, ReadTyped DEF listVars, wordVars
  <2> QED BY <1>2, <2>1, <2>3, QuietTypeOK
<1>4. CASE Emit(<<"call", Lookup(n)>>) /\ UNCHANGED running
  <2>1. <<"call", Lookup(n)>> \in Instruction
    BY <1>1, FoundType, Instructions
  <2> QED BY <1>1, <1>2, <1>4, <2>1, ReadEmitTypeOK
<1> QED BY <1>1, <1>3, <1>4

\* Literals, defining words and the order words are compiled.
LEMMA CompileItemTypeOK == TypeOK /\ CompileItem => TypeOK'
<1> SUFFICES ASSUME TypeOK, CompileItem PROVE TypeOK'
  OBVIOUS
<1>1. UNCHANGED <<orderVars, listVars, wordVars, comp_stack, defs, running>>
  BY DEF CompileItem
<1>2. \E item \in Instruction : Reads(item) /\ Emit(item)
  <2>1. {<<"number">>, <<"colon">>, <<"noname">>, <<"postpone ;">>, <<"immediate">>}
          \subseteq Instruction
    BY Instructions
  <2>2. OrderWords \subseteq Instruction
    BY Instructions DEF OrderWords
  <2> QED BY <2>1, <2>2 DEF CompileItem
<1> QED BY <1>1, <1>2, ReadEmitTypeOK

\* POSTPONE compiles a word or the compiling of it.
LEMMA PostponeTypeOK == TypeOK /\ Postpone => TypeOK'
<1> SUFFICES ASSUME TypeOK, Postpone PROVE TypeOK'
  OBVIOUS
<1>1. PICK n \in Names :
        /\ Reads(<<"postpone", n>>) /\ Lookup(n) # 0
        /\ Emit(<<IF words[Lookup(n)].immediate THEN "call" ELSE "postpone", Lookup(n)>>)
  BY DEF Postpone
<1>2. <<IF words[Lookup(n)].immediate THEN "call" ELSE "postpone", Lookup(n)>> \in Instruction
  BY <1>1, FoundType, Instructions
<1> QED BY <1>1, <1>2, ReadEmitTypeOK DEF Postpone

\* TO and IS find words of the kind the table is for.
TablesKinds ==
  \A kind \in {"value", "defer"}, n \in Names :
    bound[kind][n] # 0 => words[bound[kind][n]].kind = kind

\* TO and IS, compiled.
LEMMA CompileAssignTypeOK == TypeOK /\ CompileAssign => TypeOK'
<1> SUFFICES ASSUME TypeOK, CompileAssign PROVE TypeOK'
  OBVIOUS
<1>1. PICK t \in {"to", "is"}, n \in Names :
        /\ Reads(<<t, n>>) /\ bound[KindOf(t)][n] # 0
        /\ Emit(<<"store", bound[KindOf(t)][n]>>)
  BY DEF CompileAssign
<1>2. bound[KindOf(t)][n] \in 0..Len(words)
  BY DEF TypeOK, KindOf
<1>3. Len(words) \in Nat /\ DOMAIN words = 1..Len(words)
  BY TypeParts, WordFacts
<1>4. <<"store", bound[KindOf(t)][n]>> \in Instruction
  <2>1. bound[KindOf(t)][n] \in DOMAIN words
    BY <1>1, <1>2, <1>3
  <2> QED BY <2>1, Instructions
<1> QED BY <1>1, <1>4, ReadEmitTypeOK DEF CompileAssign

\* The order stays a sequence of wordlists.
LEMMA OrderAfterTyped ==
  ASSUME TypeOK, NEW op \in Instruction, op[1] \in OrderOps,
         op[1] = "set-order" => op[2] \in Seq(0..(Len(wordlists) - 1))
  PROVE  OrderAfter(op) \in Seq(0..(Len(wordlists) - 1))
<1> DEFINE W == 0..(Len(wordlists) - 1)
<1>1. search_order \in Seq(W) /\ 0 \in W /\ Len(wordlists) \in Nat
  <2>1. current_wl \in W /\ wordlists \in Seq([Names -> 0..Len(words)])
        /\ search_order \in Seq(W)
    BY DEF TypeOK
  <2>2. Len(wordlists) \in Nat
    BY <2>1, LenProperties
  <2> QED BY <2>1, <2>2
<1>2. op[1] = "vocab" => op[2] \in W
  BY Operands
<1>3. op[1] = ">order" /\ op[2] < Len(wordlists) => op[2] \in W
  BY <1>1, Operands
<1>4. op[1] = "set-order" => op[2] \in Seq(W)
  OBVIOUS
<1> HIDE DEF W
<1>5. /\ Len(search_order) \in Nat
      /\ search_order # <<>> => 1 \in 1..Len(search_order)
  BY <1>1, EmptySeq, LenProperties
<1>6. ASSUME NEW wid \in W PROVE <<wid>> \in Seq(W)
  BY <1>6, EmptySeq, AppendProperties
<1>7. ASSUME NEW wid \in W PROVE OnTop(wid) \in Seq(W)
  BY <1>1, <1>5, <1>6, <1>7, ExceptSeq DEF OnTop
<1>8. ASSUME NEW wid \in W PROVE VocabSelect(wid) \in Seq(W)
  BY <1>1, <1>7, <1>8, AppendProperties DEF VocabSelect
<1>9. Also \in Seq(W)
  <2>1. CASE search_order = <<>>
    BY <2>1, <1>1, <1>6 DEF Also
  <2>2. CASE search_order # <<>>
    <3>1. <<Head(search_order)>> \in Seq(W)
      BY <2>2, <1>1, <1>6, HeadTailProperties
    <3> QED BY <3>1, <2>2, <1>1, ConcatProperties DEF Also
  <2> QED BY <2>1, <2>2
<1>10. op[1] = ">order" => ToOrder(op[2]) \in Seq(W)
  BY <1>1, <1>3, <1>6, ConcatProperties DEF ToOrder
<1>11. Previous \in Seq(W)
  <2>1. CASE Len(search_order) > 1
    <3>1. search_order # <<>>
      BY <2>1, EmptySeq
    <3> QED BY <2>1, <3>1, <1>1, HeadTailProperties DEF Previous
  <2>2. CASE ~(Len(search_order) > 1)
    BY <2>2, <1>1 DEF Previous
  <2> QED BY <2>1, <2>2
<1>12. OrderAfter(op) \in Seq(W)
  BY <1>1, <1>2, <1>4, <1>6, <1>7, <1>8, <1>9, <1>10, <1>11 DEF OrderAfter, OrderOps
<1> QED BY <1>12 DEF W

\* The order words name wordlists that exist.
LEMMA ReorderTyped ==
  ASSUME TypeOK, NEW op \in Instruction, Reorder(op) \/ SetCurrent(op),
         UNCHANGED wordVars
  PROVE  OrderTyped' /\ UNCHANGED wordlists
<1>1. OrderTyped /\ ListsTyped
  BY TypeParts
<1>2. CASE Reorder(op)
  <2>1. search_order' \in Seq(0..(Len(wordlists) - 1)) /\ UNCHANGED listVars
    BY <1>2, OrderAfterTyped DEF Reorder
  <2>2. order_is_default' \in BOOLEAN
    BY <1>2 DEF Reorder, IsDefault
  <2>3. kept' \in BOOLEAN
    BY <1>1, <1>2 DEF Reorder, KeptAfter, OrderTyped
  <2> QED BY <1>1, <2>1, <2>2, <2>3 DEF OrderTyped, listVars
<1>3. CASE SetCurrent(op)
  <2>1. current_wl' = NewCurrent(op) /\ UNCHANGED <<wordlists, search_order, kept>>
        /\ order_is_default' \in BOOLEAN /\ op[1] \in CurrentOps
    BY <1>3 DEF SetCurrent, IsDefault
  <2>2. Len(wordlists) \in Nat
    BY <1>1, LenProperties DEF ListsTyped
  <2>3. search_order # <<>> => Head(search_order) \in 0..(Len(wordlists) - 1)
    BY <1>1, HeadTailProperties DEF OrderTyped
  <2>4. NewCurrent(op) \in 0..(Len(wordlists) - 1)
    <3>1. CASE op[1] = "set-current"
      BY <3>1, <1>1, <2>2, Operands DEF NewCurrent, OrderTyped
    <3>2. CASE op[1] = "definitions"
      BY <3>2, <1>1, <2>3 DEF NewCurrent, OrderTyped
    <3> QED BY <3>1, <3>2, <2>1 DEF CurrentOps
  <2> QED BY <1>1, <2>1, <2>4 DEF OrderTyped
<1> QED BY <1>2, <1>3

\* The order words, typed or run.
LEMMA OrderTypeOK == TypeOK /\ (InterpretOrder \/ RunOrder) => TypeOK'
<1> SUFFICES ASSUME TypeOK, InterpretOrder \/ RunOrder PROVE TypeOK'
  OBVIOUS
<1>1. UNCHANGED <<wordVars, openVars>>
  BY DEF InterpretOrder, RunOrder
<1>2. CASE InterpretOrder
  <2>1. PICK op \in OrderWords : Reads(op) /\ (Reorder(op) \/ SetCurrent(op))
    BY <1>2 DEF InterpretOrder
  <2>2. op \in Instruction
    BY Instructions DEF OrderWords
  <2>3. OrderTyped' /\ UNCHANGED wordlists
    BY <1>1, <2>1, <2>2, ReorderTyped
  <2>4. OpenTyped'
    BY <1>1, <2>3, SameTypes DEF wordVars
  <2>5. running' \in Seq(Instruction)
    BY <1>2 DEF InterpretOrder, TypeOK
  <2>6. TextTyped'
    BY <1>1, <2>1, <2>3, <2>5, ReadTyped DEF wordVars
  <2> QED BY <1>1, <2>3, <2>4, <2>6, QuietTypeOK
<1>3. CASE RunOrder
  <2>1. /\ running # <<>> /\ running' = Tail(running) /\ UNCHANGED <<program, pos>>
        /\ Reorder(Head(running)) \/ SetCurrent(Head(running))
    BY <1>3 DEF RunOrder, Runs
  <2>2. Head(running) \in Instruction /\ running' \in Seq(Instruction)
    BY <2>1, RunningType
  <2>3. OrderTyped' /\ UNCHANGED wordlists
    BY <1>1, <2>1, <2>2, ReorderTyped
  <2>4. OpenTyped'
    BY <1>1, <2>3, SameTypes DEF wordVars
  <2>5. TextTyped'
    BY <1>1, <2>1, <2>2, <2>3, RunTyped DEF wordVars
  <2> QED BY <1>1, <2>3, <2>4, <2>5, QuietTypeOK
<1> QED BY <1>2, <1>3

\* An instruction without effect on the dictionary.
LEMMA RunPlainTypeOK == TypeOK /\ RunPlain => TypeOK'
<1> SUFFICES ASSUME TypeOK, RunPlain PROVE TypeOK'
  OBVIOUS
<1>1. /\ running # <<>> /\ running' = Tail(running)
      /\ UNCHANGED <<program, pos, orderVars, listVars, wordVars, openVars>>
  BY DEF RunPlain, Runs
<1>2. OrderTyped' /\ OpenTyped'
  BY <1>1, SameTypes DEF listVars, wordVars
<1>3. TextTyped'
  BY <1>1, RunningType, RunTyped DEF listVars, wordVars
<1> QED BY <1>1, <1>2, <1>3, QuietTypeOK

\* A call, or a deferred word, runs the thread the word has now.
LEMMA RunCallTypeOK == TypeOK /\ RunCall => TypeOK'
<1> SUFFICES ASSUME TypeOK, RunCall PROVE TypeOK'
  OBVIOUS
<1>1. /\ running # <<>>
      /\ UNCHANGED <<program, pos, orderVars, listVars, wordVars, openVars>>
  BY DEF RunCall
<1>2. Head(running) \in Instruction /\ Tail(running) \in Seq(Instruction)
  BY <1>1, RunningType
<1>3. \A w \in DOMAIN words : words[w].thread \in Seq(Instruction)
                              /\ (words[w].kind # "value" => words[w].held \in 0..Len(words))
  BY TypeParts, WordFacts
<1>4. Len(words) \in Nat /\ DOMAIN words = 1..Len(words)
  BY TypeParts, WordFacts
<1>5. running' \in Seq(Instruction)
  <2>1. CASE Head(running)[1] = "call" /\ running' = words[Operand].thread \o Tail(running)
    <3>1. Operand \in DOMAIN words
      BY <2>1, <1>2, Operands DEF Operand
    <3> QED BY <3>1, <2>1, <1>2, <1>3, ConcatProperties
  <2>2. CASE /\ Head(running)[1] = "defer"
             /\ running' = IF words[Operand].held = 0 THEN Tail(running)
                           ELSE words[words[Operand].held].thread \o Tail(running)
    <3>1. Operand \in NotValues
      BY <2>2, <1>2, Operands DEF Operand
    <3>2. words[Operand].held \in 0..Len(words)
      BY <3>1, <1>3 DEF NotValues
    <3>3. CASE words[Operand].held = 0
      BY <3>3, <2>2, <1>2
    <3>4. CASE words[Operand].held # 0
      <4>1. words[Operand].held \in DOMAIN words
        BY <3>2, <3>4, <1>4
      <4> QED BY <4>1, <3>4, <2>2, <1>2, <1>3, ConcatProperties
    <3> QED BY <3>3, <3>4
  <2> QED BY <2>1, <2>2 DEF RunCall
<1>6. OrderTyped' /\ OpenTyped'
  BY <1>1, SameTypes DEF listVars, wordVars
<1>7. TextTyped'
  BY <1>1, <1>5, RunTyped DEF listVars, wordVars
<1> QED BY <1>1, <1>6, <1>7, QuietTypeOK

\* A postponed word is compiled into the open definition.
LEMMA RunPostponeTypeOK == TypeOK /\ RunPostpone => TypeOK'
<1> SUFFICES ASSUME TypeOK, RunPostpone PROVE TypeOK'
  OBVIOUS
<1>1. /\ running # <<>> /\ Head(running)[1] = "postpone" /\ running' = Tail(running)
      /\ UNCHANGED <<program, pos, orderVars, listVars, wordVars, comp_stack, defs>>
      /\ Emit(<<"call", Operand>>)
  BY DEF RunPostpone, Runs
<1>2. Head(running) \in Instruction /\ running' \in Seq(Instruction)
  BY <1>1, RunningType
<1>3. <<"call", Operand>> \in Instruction
  <2>1. Operand \in DOMAIN words
    BY <1>1, <1>2, Operands DEF Operand
  <2> QED BY <2>1, Instructions
<1>4. OpenTyped' /\ OrderTyped'
  BY <1>1, <1>3, EmitTyped, SameTypes DEF listVars, wordVars
<1>5. TextTyped'
  BY <1>1, <1>2, RunTyped DEF listVars, wordVars
<1> QED BY <1>1, <1>4, <1>5, QuietTypeOK

\* A definition opens inside another.
LEMMA NestedTyped ==
  ASSUME TypeOK, UNCHANGED <<words, wordlists>>,
         (\E n \in Names : Nested(n, FALSE)) \/ Nested(Unnamed, TRUE)
  PROVE  OpenTyped'
<1>1. OpenTyped
  BY TypeParts
<1>2. compiling' \in ContextType /\ compiling'.noname = (compiling'.name = Unnamed)
  <2>1. CASE \E n \in Names : Nested(n, FALSE)
    <3>1. PICK n \in Names : compiling' = Context(n, FALSE)
      BY <2>1 DEF Nested
    <3> QED BY <3>1, ContextTyped
  <2>2. CASE Nested(Unnamed, TRUE)
    BY <2>2, ContextTyped DEF Nested
  <2> QED BY <2>1, <2>2
<1>3. comp_stack' = Append(comp_stack, compiling) /\ defs' = defs + 1
  BY DEF Nested
<1>4. /\ comp_stack' \in Seq(ContextType) /\ Len(comp_stack') = Len(comp_stack) + 1
      /\ Len(comp_stack) \in Nat
      /\ \A i \in 1..Len(comp_stack) : comp_stack'[i] = comp_stack[i]
      /\ comp_stack'[Len(comp_stack) + 1] = compiling
      /\ DOMAIN comp_stack = 1..Len(comp_stack) /\ DOMAIN comp_stack' = 1..Len(comp_stack')
  <2>1. compiling \in ContextType /\ comp_stack \in Seq(ContextType)
    BY <1>1 DEF OpenTyped
  <2> QED BY <2>1, <1>3, AppendProperties, LenProperties
<1>5. ASSUME NEW c \in Range(comp_stack') PROVE c \in {compiling} \union Range(comp_stack)
  <2>1. PICK i \in DOMAIN comp_stack' : c = comp_stack'[i]
    BY <1>5 DEF Range
  <2>2. CASE i = Len(comp_stack) + 1
    BY <2>1, <2>2, <1>4
  <2>3. CASE i # Len(comp_stack) + 1
    <3>1. i \in 1..Len(comp_stack)
      BY <2>1, <2>3, <1>4
    <3> QED BY <3>1, <2>1, <1>4 DEF Range
  <2> QED BY <2>2, <2>3
<1>6. \A c \in {compiling'} \union Range(comp_stack') : c.noname = (c.name = Unnamed)
  BY <1>1, <1>2, <1>5 DEF OpenTyped
<1>7. ContextType' = ContextType
  BY SameTypes
<1>8. defs' \in Nat
  BY <1>1, <1>3 DEF OpenTyped
<1> QED BY <1>2, <1>4, <1>6, <1>7, <1>8 DEF OpenTyped

\* A definition begun by a word that runs suspends the open one.
LEMMA RunBeginTypeOK == TypeOK /\ (RunBeginNamed \/ RunBeginNoname) => TypeOK'
<1> SUFFICES ASSUME TypeOK, RunBeginNamed \/ RunBeginNoname PROVE TypeOK'
  OBVIOUS
<1>1. /\ running # <<>> /\ running' = Tail(running)
      /\ UNCHANGED <<program, pos, orderVars, listVars, wordVars>>
  BY DEF RunBeginNamed, RunBeginNoname, Runs
<1>2. (\E n \in Names : Nested(n, FALSE)) \/ Nested(Unnamed, TRUE)
  BY DEF RunBeginNamed, RunBeginNoname
<1>3. OpenTyped' /\ OrderTyped'
  BY <1>1, <1>2, NestedTyped, SameTypes DEF listVars, wordVars
<1>4. TextTyped'
  BY <1>1, RunningType, RunTyped DEF listVars, wordVars
<1> QED BY <1>1, <1>3, <1>4, QuietTypeOK

\* WORDLIST.
LEMMA MakeWordlistTypeOK == TypeOK /\ MakeWordlist => TypeOK'
<1> SUFFICES ASSUME TypeOK, MakeWordlist PROVE TypeOK'
  OBVIOUS
<1> DEFINE L == [Names -> 0..Len(words)]
<1>1. /\ Reads(<<"wordlist">>) /\ wordlists' = Append(wordlists, [n \in Names |-> 0])
      /\ UNCHANGED <<orderVars, current_wl, wordVars, openVars, running>>
  BY DEF MakeWordlist
<1>2. /\ WordsTyped /\ ListsTyped /\ OrderTyped /\ OpenTyped /\ TextTyped
      /\ Len(words) \in Nat
  BY TypeParts, WordFacts
<1>3. [n \in Names |-> 0] \in L
  BY <1>2
<1>4. wordlists \in Seq(L) /\ Len(wordlists) \in Nat
  BY <1>2, LenProperties DEF ListsTyped
<1>5. wordlists' \in Seq(L) /\ Len(wordlists') = Len(wordlists) + 1
  BY <1>1, <1>3, <1>4, AppendProperties
<1>6. Grows /\ Len(wordlists') \in Nat
  BY <1>1, <1>2, <1>4, <1>5 DEF Grows, wordVars
<1>7. /\ Seq(WordType) \subseteq Seq(WordType') /\ Seq(Instruction) \subseteq Seq(Instruction')
  BY <1>1, <1>2, <1>4, <1>6, TypesGrow DEF wordVars
<1>8. WordsTyped'
  BY <1>1, <1>2, <1>7 DEF WordsTyped, NotValues, wordVars
<1>9. ListsTyped'
  BY <1>1, <1>2, <1>5 DEF ListsTyped, wordVars
<1>10. OrderTyped' /\ OpenTyped'
  BY <1>1, <1>2, <1>6, Carried DEF wordVars
<1>11. TextTyped'
  BY <1>1, <1>2, <1>7, Reading DEF TextTyped
<1> QED BY <1>8, <1>9, <1>10, <1>11, TypePartsNext

\* A word enters the compilation wordlist: what types its place in the
\* wordlists and the types of all that it does not change.
LEMMA DefineGrows ==
  ASSUME TypeOK, NEW word, word.name \in Names, Define(word)
  PROVE  /\ Grows /\ Len(words) \in Nat /\ Len(words') = NextWid
         /\ DOMAIN words = 1..Len(words) /\ DOMAIN words' = 1..NextWid
         /\ words'[NextWid] = word
         /\ \A w \in DOMAIN words : words'[w] = words[w]
         /\ Len(wordlists) \in Nat /\ Len(wordlists') = Len(wordlists)
         /\ wordlists' \in Seq([Names -> 0..Len(words')]) /\ last_word' \in 0..Len(words')
<1>1. WordsTyped /\ Len(words) \in Nat /\ NextWid \in Nat
  <2>1. WordsTyped
    BY TypeParts
  <2>2. Len(words) \in Nat
    BY <2>1, WordFacts
  <2> QED BY <2>1, <2>2 DEF NextWid
<1>2. /\ Len(wordlists') = Len(wordlists) /\ Len(wordlists) \in Nat
      /\ wordlists' \in Seq([Names -> 0..Len(words) \union {NextWid}])
  <2>1. Enters(word.name, NextWid)
    BY DEF Enters, Define
  <2> QED BY <1>1, <2>1, Entering
<1>3. /\ Grows /\ Len(words) \in Nat /\ Len(words') = NextWid
      /\ DOMAIN words = 1..Len(words) /\ DOMAIN words' = 1..NextWid
      /\ words'[NextWid] = word
      /\ \A w \in DOMAIN words : words'[w] = words[w]
  <2>1. words' = Append(words, word)
    BY DEF Define
  <2>2. Len(wordlists') \in Nat /\ Len(wordlists) <= Len(wordlists')
    BY <1>2
  <2> QED BY <1>1, <1>2, <2>1, <2>2, WordAppended
<1>4. 0..Len(words) \union {NextWid} \subseteq 0..Len(words')
  BY <1>3 DEF NextWid
<1>5. [Names -> 0..Len(words) \union {NextWid}] \subseteq [Names -> 0..Len(words')]
  BY <1>4
<1>6. wordlists' \in Seq([Names -> 0..Len(words')])
  BY <1>2, <1>5, SeqMonotonic
<1>7. last_word' \in 0..Len(words')
  BY <1>3, <1>4 DEF Define
<1> QED BY <1>2, <1>3, <1>6, <1>7

\* A word defined from well-formed parts is well-formed.
LEMMA DefineTyped ==
  ASSUME TypeOK, NEW n \in Names, NEW kind \in {"colon", "vocabulary", "value", "defer"},
         NEW thread, NEW held \in Values \union {0}, NEW def \in Nat,
         Define(Word(n, kind, thread, held, def)), thread \in Seq(Instruction'),
         kind # "value" => held = 0
  PROVE  WordsTyped'
<1> DEFINE word == Word(n, kind, thread, held, def)
<1>1. /\ word.name = n /\ word.kind = kind /\ word.held = held
  BY DEF Word
<1>2. /\ Len(words) \in Nat /\ Len(words') = Len(words) + 1
      /\ Len(wordlists) \in Nat /\ Len(wordlists') = Len(wordlists)
  BY <1>1, DefineGrows DEF NextWid
<1>3. current_wl \in 0..(Len(wordlists') - 1) /\ held \in Values \union 0..Len(words')
  BY <1>2, SMTT(30) DEF TypeOK
<1>4. word \in WordType'
  <2>1. n \in Names \union {NoName}
    OBVIOUS
  <2>2. 0 \in 0..Len(words')
    BY <1>2
  <2> QED BY <2>1, <2>2, <1>3, Zenon DEF Word, WordType
<1> HIDE DEF word
<1>5. word.kind # "value" => word.held \in 0..Len(words')
  <2>1. 0 \in 0..Len(words')
    BY <1>2
  <2> QED BY <2>1, <1>1
<1>6. words' = Append(words, word)
  BY DEF word, Define
<1>7. WordsTyped
  BY TypeParts
<1> QED BY <1>2, <1>4, <1>5, <1>6, <1>7, WordAdded

\* VALUE and DEFER: a word of one cell enters the wordlist and the table.
CellWord(kind, n, t, op, v) ==
  /\ kind \in {"value", "defer"} /\ v \in Values \union {0} /\ (kind # "value" => v = 0)
  /\ op = "fetch" \/ (op = "defer" /\ kind # "value")
  /\ Reads(t)
  /\ Define(Word(n, kind, <<<<op, NextWid>>, <<"exit">>>>, v, defs + 1))
  /\ Bind(kind, n) /\ defs' = defs + 1
  /\ UNCHANGED <<orderVars, current_wl, compiling, comp_stack, running>>

\* VALUE and DEFER: a word with a cell.
LEMMA CellWordTypeOK ==
  ASSUME TypeOK, NEW kind, NEW n \in Names, NEW t, NEW op, NEW v, CellWord(kind, n, t, op, v)
  PROVE  TypeOK'
<1> USE DEF CellWord
<1> DEFINE code == <<op, NextWid>>
           word == Word(n, kind, <<code, <<"exit">>>>, v, defs + 1)
<1>1. word.name \in Names /\ word.kind = kind /\ Define(word)
  BY DEF Word
<1> HIDE DEF word
<1>2. /\ Grows /\ Len(words') \in Nat /\ Len(wordlists') \in Nat
      /\ NextWid \in DOMAIN words' /\ words'[NextWid] = word
      /\ wordlists' \in Seq([Names -> 0..Len(words')]) /\ last_word' \in 0..Len(words')
      /\ NextWid \in 0..Len(words') /\ 0..Len(words) \subseteq 0..Len(words')
  BY <1>1, DefineGrows DEF NextWid
<1>3. code \in Instruction'
  BY <1>1, <1>2 DEF Instruction, NotValues
<1>4. <<code, <<"exit">>>> \in Seq(Instruction')
  <2>1. <<"exit">> \in Instruction'
    BY DEF Instruction
  <2> HIDE DEF code
  <2> QED BY <1>3, <2>1
<1>5. WordsTyped'
  <2> DEFINE thread == <<code, <<"exit">>>>
  <2>1. defs + 1 \in Nat /\ kind \in {"colon", "vocabulary", "value", "defer"}
    BY DEF TypeOK
  <2>2. Define(Word(n, kind, thread, v, defs + 1)) /\ thread \in Seq(Instruction')
    BY <1>4
  <2> HIDE DEF thread
  <2> QED BY <2>1, <2>2, DefineTyped
<1>6. bound' \in [{"value", "defer"} -> [Names -> 0..Len(words')]]
  <2>1. bound \in [{"value", "defer"} -> [Names -> 0..Len(words')]]
    BY <1>2 DEF TypeOK
  <2>2. bound' = [bound EXCEPT ![kind][n] = NextWid]
    BY DEF Bind
  <2> QED BY <1>2, <2>1, <2>2
<1>7. ListsTyped'
  BY <1>2, <1>6 DEF ListsTyped
<1>8. OrderTyped' /\ Seq(Instruction) \subseteq Seq(Instruction')
       /\ ContextType \subseteq ContextType' /\ Seq(ContextType) \subseteq Seq(ContextType')
  BY <1>2, Carried
<1>9. OpenTyped' /\ TextTyped'
  BY <1>8, TypeParts, Reading DEF OpenTyped, TextTyped
<1> QED BY <1>5, <1>7, <1>8, <1>9, TypePartsNext

\* VALUE and DEFER enter their tables, too.
LEMMA ValueDeferTypeOK == TypeOK /\ (Value \/ Defer) => TypeOK'
<1> SUFFICES ASSUME TypeOK, Value \/ Defer PROVE TypeOK'
  OBVIOUS
<1>1. CASE Value
  <2>1. PICK n \in Names, v \in Values : CellWord("value", n, <<"value", n>>, "fetch", v)
    BY <1>1 DEF Value, CellWord
  <2> QED BY <2>1, CellWordTypeOK
<1>2. CASE Defer
  <2>1. PICK n \in Names : CellWord("defer", n, <<"defer", n>>, "defer", 0)
    BY <1>2 DEF Defer, CellWord
  <2> QED BY <2>1, CellWordTypeOK
<1> QED BY <1>1, <1>2

\* VOCABULARY.
LEMMA VocabularyTypeOK == TypeOK /\ Vocabulary => TypeOK'
<1> SUFFICES ASSUME TypeOK, Vocabulary PROVE TypeOK'
  OBVIOUS
<1> DEFINE code == <<"vocab", Len(wordlists)>>
           empty == [m \in Names |-> 0]
<1>1. PICK n \in Names :
        /\ Reads(<<"vocabulary", n>>)
        /\ words' = Append(words, Word(n, "vocabulary", <<code, <<"exit">>>>, 0, defs + 1))
        /\ wordlists' = Append([wordlists EXCEPT ![current_wl + 1][n] = NextWid], empty)
  BY DEF Vocabulary
<1>2. /\ defs' = defs + 1 /\ last_word' = NextWid
      /\ UNCHANGED <<orderVars, current_wl, bound, compiling, comp_stack, running>>
  BY DEF Vocabulary
<1>3. /\ WordsTyped /\ ListsTyped /\ OrderTyped /\ Len(words) \in Nat /\ NextWid \in Nat
      /\ NextWid = Len(words) + 1 /\ defs + 1 \in Nat
  <2>1. WordsTyped /\ ListsTyped /\ OrderTyped /\ OpenTyped
    BY TypeParts
  <2>2. Len(words) \in Nat
    BY <2>1, WordFacts
  <2> QED BY <2>1, <2>2 DEF NextWid, OpenTyped
<1> DEFINE L == [Names -> 0..NextWid]
           entered == [wordlists EXCEPT ![current_wl + 1][n] = NextWid]
<1>4. /\ entered \in Seq(L) /\ Len(entered) = Len(wordlists) /\ Len(wordlists) \in Nat
  <2> DEFINE S == 0..NextWid
  <2>1. [Names -> 0..Len(words)] \subseteq [Names -> S] /\ NextWid \in S
    BY <1>3
  <2>2. wordlists \in Seq([Names -> S])
    BY <1>3, <2>1, SeqMonotonic DEF ListsTyped
  <2>3. Len(wordlists) \in Nat /\ current_wl + 1 \in 1..Len(wordlists)
    BY <1>3, LenProperties DEF ListsTyped, OrderTyped
  <2> HIDE DEF S
  <2>4. entered \in Seq([Names -> S]) /\ Len(entered) = Len(wordlists)
    BY <2>1, <2>2, <2>3, EnteredIn
  <2> QED BY <2>3, <2>4 DEF S
<1>5. empty \in L
  BY <1>3
<1>6. wordlists' \in Seq(L) /\ Len(wordlists') = Len(wordlists) + 1
  <2>1. wordlists' = Append(entered, empty)
    BY <1>1
  <2> HIDE DEF entered, empty, L
  <2> QED BY <2>1, <1>4, <1>5, AppendProperties
<1> HIDE DEF entered, empty, L
<1> DEFINE word == Word(n, "vocabulary", <<code, <<"exit">>>>, 0, defs + 1)
<1>7. /\ Grows /\ Len(words') = NextWid
  <2>1. words' = Append(words, word)
    BY <1>1
  <2>2. Len(wordlists') \in Nat /\ Len(wordlists) <= Len(wordlists')
    BY <1>4, <1>6
  <2> HIDE DEF word
  <2> QED BY <1>3, <1>4, <2>1, <2>2, WordAppended
<1>8. word \in WordType'
  <2>1. Len(wordlists) \in 0..(Len(wordlists') - 1) /\ current_wl \in 0..(Len(wordlists') - 1)
    BY <1>3, <1>4, <1>6 DEF OrderTyped
  <2>2. code \in Instruction' /\ <<"exit">> \in Instruction'
    BY <2>1 DEF Instruction
  <2> HIDE DEF code
  <2>3. <<code, <<"exit">>>> \in Seq(Instruction')
    BY <2>2
  <2>4. n \in Names \union {NoName}
    OBVIOUS
  <2>5. 0 \in Values \union 0..Len(words') /\ 0 \in 0..Len(words')
    <3>1. 0 \in 0..Len(words')
      BY <1>3, <1>7
    <3> QED BY <3>1
  <2> QED BY <1>3, <2>1, <2>3, <2>4, <2>5, Zenon DEF Word, WordType
<1>9. WordsTyped'
  <2>1. words' = Append(words, word) /\ word.held = 0
    BY <1>1 DEF Word
  <2>2. word.held \in 0..Len(words')
    BY <1>3, <1>7, <2>1
  <2> HIDE DEF word
  <2> QED BY <1>3, <1>4, <1>6, <1>8, <2>1, <2>2, WordAdded
<1>10. ListsTyped'
  <2>1. bound' \in [{"value", "defer"} -> [Names -> 0..Len(words')]]
    BY <1>2, <1>3, <1>4, <1>6, <1>7, Carried
  <2> QED BY <1>2, <1>3, <1>6, <1>7, <2>1 DEF ListsTyped, L
<1>11. OrderTyped' /\ Seq(Instruction) \subseteq Seq(Instruction')
       /\ ContextType \subseteq ContextType' /\ Seq(ContextType) \subseteq Seq(ContextType')
  BY <1>2, <1>3, <1>4, <1>6, <1>7, Carried
<1>12. OpenTyped' /\ TextTyped'
  BY <1>1, <1>2, <1>3, <1>11, TypeParts, Reading DEF OpenTyped, TextTyped
<1> QED BY <1>9, <1>10, <1>11, <1>12, TypePartsNext

\* A word of its type that takes the place of another leaves the types alone.
LEMMA ChangeTypeOK ==
  ASSUME TypeOK, NEW k \in DOMAIN words, NEW word \in WordType,
         words' = [words EXCEPT ![k] = word], word.kind = words[k].kind,
         word.kind # "value" => word.held \in 0..Len(words), UNCHANGED wordlists
  PROVE  /\ WordsTyped' /\ Instruction' = Instruction /\ ContextType' = ContextType
         /\ Len(words') = Len(words) /\ Len(words) \in Nat
         /\ UNCHANGED <<bound, last_word>> => ListsTyped'
         /\ UNCHANGED <<orderVars, current_wl>> => OrderTyped'
         /\ UNCHANGED openVars => OpenTyped'
<1>1. WordsTyped /\ ListsTyped /\ OrderTyped /\ OpenTyped
  BY TypeParts
<1>2. Len(wordlists) \in Nat
  BY <1>1, LenProperties DEF ListsTyped
<1>3. /\ Grows /\ WordsTyped' /\ DOMAIN words' = DOMAIN words
      /\ Len(words) \in Nat /\ Len(words') = Len(words)
  BY <1>1, <1>2, WordChanged
<1>4. \A w \in DOMAIN words : words'[w].kind = words[w].kind
  BY <1>3 DEF Grows
<1>5. NotValues' = NotValues
  BY <1>3, <1>4 DEF NotValues
<1>6. Instruction' = Instruction
  BY <1>3, <1>5 DEF Instruction
<1>7. ContextType' = ContextType
  BY <1>6 DEF ContextType
<1>8. UNCHANGED <<bound, last_word>> => ListsTyped'
  BY <1>1, <1>3 DEF ListsTyped
<1>9. UNCHANGED <<orderVars, current_wl>> => OrderTyped'
  BY <1>1 DEF OrderTyped, orderVars
<1>10. UNCHANGED openVars => OpenTyped'
  BY <1>1, <1>7 DEF OpenTyped, openVars
<1> QED BY <1>3, <1>6, <1>7, <1>8, <1>9, <1>10

\* A store into the cell of a word keeps its kind of content.
LEMMA HeldTypeOK ==
  ASSUME TypeOK, NEW k \in DOMAIN words, NEW v \in Storable(words[k].kind),
         words' = [words EXCEPT ![k].held = v], UNCHANGED wordlists,
         UNCHANGED <<bound, last_word, orderVars, current_wl, openVars>>
  PROVE  /\ WordsTyped' /\ ListsTyped' /\ OrderTyped' /\ OpenTyped'
         /\ Instruction' = Instruction
<1> DEFINE word == [words[k] EXCEPT !.held = v]
<1>1. WordsTyped /\ words[k] \in WordType /\ DOMAIN words = 1..Len(words) /\ Len(words) \in Nat
  BY TypeParts, WordFacts
<1>2. IF words[k].kind = "value" THEN v \in Values ELSE v \in 0..Len(words)
  BY <1>1 DEF Storable
<1>3. word \in WordType /\ word.kind = words[k].kind /\ word.held = v
  BY <1>1, <1>2 DEF WordType
<1>4. words' = [words EXCEPT ![k] = word]
  BY <1>1
<1> HIDE DEF word
<1>5. word.kind # "value" => word.held \in 0..Len(words)
  BY <1>2, <1>3
<1> QED BY <1>3, <1>4, <1>5, ChangeTypeOK

\* TO and IS, interpreted, store into the word the table names.
LEMMA AssignTypeOK == TypeOK /\ TablesKinds /\ Assign => TypeOK'
<1> SUFFICES ASSUME TypeOK, TablesKinds, Assign PROVE TypeOK'
  OBVIOUS
<1>1. PICK t \in {"to", "is"}, n \in Names :
        /\ Reads(<<t, n>>) /\ bound[KindOf(t)][n] # 0
        /\ \E v \in Storable(KindOf(t)) :
              words' = [words EXCEPT ![bound[KindOf(t)][n]].held = v]
  BY DEF Assign
<1> DEFINE k == bound[KindOf(t)][n]
<1>2. UNCHANGED <<orderVars, listVars, last_word, bound, openVars, running>>
  BY DEF Assign
<1>3. KindOf(t) \in {"value", "defer"}
  BY DEF KindOf
<1>4. k \in DOMAIN words /\ words[k].kind = KindOf(t)
  <2>1. k \in 0..Len(words)
    BY <1>3 DEF TypeOK
  <2>2. DOMAIN words = 1..Len(words) /\ Len(words) \in Nat
    BY TypeParts, WordFacts
  <2> QED BY <1>1, <1>3, <2>1, <2>2 DEF TablesKinds
<1> HIDE DEF k
<1>5. PICK v \in Storable(words[k].kind) : words' = [words EXCEPT ![k].held = v]
  BY <1>1, <1>4 DEF k
<1>6. /\ WordsTyped' /\ ListsTyped' /\ OrderTyped' /\ OpenTyped'
      /\ Instruction' = Instruction
  BY <1>2, <1>4, <1>5, HeldTypeOK DEF listVars
<1>7. TextTyped'
  BY <1>1, <1>2, <1>6, TypeParts, Reading DEF TextTyped
<1> QED BY <1>6, <1>7, TypePartsNext

\* The same, compiled.
LEMMA RunStoreTypeOK == TypeOK /\ RunStore => TypeOK'
<1> SUFFICES ASSUME TypeOK, RunStore PROVE TypeOK'
  OBVIOUS
<1>1. /\ running # <<>> /\ Head(running)[1] = "store" /\ running' = Tail(running)
      /\ UNCHANGED <<program, pos, orderVars, listVars, last_word, bound, openVars>>
  BY DEF RunStore, Runs
<1>2. PICK v \in Storable(words[Operand].kind) : words' = [words EXCEPT ![Operand].held = v]
  BY DEF RunStore
<1>3. Head(running) \in Instruction /\ running' \in Seq(Instruction)
  BY <1>1, RunningType
<1>4. Operand \in DOMAIN words
  BY <1>1, <1>3, Operands DEF Operand
<1>5. /\ WordsTyped' /\ ListsTyped' /\ OrderTyped' /\ OpenTyped'
      /\ Instruction' = Instruction
  BY <1>1, <1>2, <1>4, HeldTypeOK DEF listVars
<1>6. TextTyped'
  BY <1>1, <1>3, <1>5, TypeParts DEF TextTyped
<1> QED BY <1>5, <1>6, TypePartsNext

\* IMMEDIATE marks the last word.
LEMMA ImmediateTypeOK == TypeOK /\ (Immediate \/ RunImmediate) => TypeOK'
<1> SUFFICES ASSUME TypeOK, Immediate \/ RunImmediate PROVE TypeOK'
  OBVIOUS
<1> DEFINE word == [words[last_word] EXCEPT !.immediate = TRUE]
<1>1. /\ last_word # 0 /\ words' = [words EXCEPT ![last_word].immediate = TRUE]
      /\ UNCHANGED <<orderVars, listVars, last_word, bound, openVars>>
  BY DEF Immediate, RunImmediate
<1>2. /\ WordsTyped /\ ListsTyped
      /\ last_word \in DOMAIN words
      /\ words[last_word] \in WordType
  <2>1. WordsTyped /\ ListsTyped
    BY TypeParts
  <2>2. DOMAIN words = 1..Len(words) /\ Len(words) \in Nat
    BY <2>1, WordFacts
  <2>3. last_word \in DOMAIN words
    BY <1>1, <2>1, <2>2 DEF ListsTyped
  <2> QED BY <2>1, <2>3, WordFacts
<1>3. /\ word \in WordType /\ word.kind = words[last_word].kind
      /\ word.held = words[last_word].held
  BY <1>2 DEF WordType
<1>4. words' = [words EXCEPT ![last_word] = word]
  BY <1>1
<1> HIDE DEF word
<1>5. word.kind # "value" => word.held \in 0..Len(words)
  BY <1>2, <1>3, WordFacts
<1>6. /\ WordsTyped' /\ ListsTyped' /\ OrderTyped' /\ OpenTyped'
      /\ Instruction' = Instruction
  BY <1>1, <1>2, <1>3, <1>4, <1>5, ChangeTypeOK DEF listVars
<1>7. running' \in Seq(Instruction) /\ pos' \in Nat \ {0} /\ program' \in Lessons
  <2>1. CASE Immediate
    BY <2>1, Reading DEF Immediate, TypeOK
  <2>2. CASE RunImmediate
    <3>1. running # <<>> /\ running' = Tail(running) /\ UNCHANGED <<program, pos>>
      BY <2>2 DEF RunImmediate, Runs
    <3> QED BY <3>1, RunningType DEF TypeOK
  <2> QED BY <2>1, <2>2
<1>8. TextTyped'
  BY <1>6, <1>7 DEF TextTyped
<1> QED BY <1>6, <1>8, TypePartsNext

\* What the words and the wordlists must satisfy after a step that made one.
Made ==
  /\ WordsTyped' /\ wordlists' \in Seq([Names -> 0..Len(words')])
  /\ last_word' \in 0..Len(words') /\ Grows
  /\ Len(words') \in Nat /\ Len(wordlists') \in Nat /\ Len(words) \in Nat

\* The name of a definition in progress that has one.
LEMMA NamedType ==
  ASSUME TypeOK, compiling.name # NoName, ~compiling.noname
  PROVE  compiling.name \in Names
BY DEF TypeOK, ContextType

\* A definition that is new becomes a word.
LEMMA DefineMade ==
  ASSUME TypeOK, NEW n \in Names, NEW thread, NEW def \in Nat,
         Define(Word(n, "colon", thread, 0, def)),
         \A set : Seq(Instruction) \subseteq Seq(set) => thread \in Seq(set)
  PROVE  Made
<1> DEFINE word == Word(n, "colon", thread, 0, def)
<1>1. word.name \in Names /\ Define(word)
  BY DEF Word
<1> HIDE DEF word
<1>2. /\ Grows /\ Len(words') \in Nat /\ Len(wordlists') \in Nat /\ Len(words) \in Nat
      /\ wordlists' \in Seq([Names -> 0..Len(words')]) /\ last_word' \in 0..Len(words')
  BY <1>1, DefineGrows DEF NextWid
<1>3. thread \in Seq(Instruction')
  BY <1>2, Carried
<1>4. WordsTyped'
  <2>1. 0 \in Values \union {0} /\ "colon" \in {"colon", "vocabulary", "value", "defer"}
    OBVIOUS
  <2> QED BY <1>3, <2>1, DefineTyped
<1> QED BY <1>2, <1>4 DEF Made

\* What a new word has.
LEMMA WordFields ==
  ASSUME NEW name, NEW kind, NEW thread, NEW held, NEW def
  PROVE  LET w == Word(name, kind, thread, held, def)
         IN  /\ w.name = name /\ w.kind = kind /\ w.thread = thread /\ w.held = held
             /\ w.def = def /\ w.home = current_wl /\ w.hides = 0
BY DEF Word

\* The word that RECURSIVE and RECURSE enter, which may hide another.
Entry(hidden) == [Word(compiling.name, "colon", <<>>, 0, compiling.def) EXCEPT !.hides = hidden]
LEMMA EntryFields ==
  ASSUME NEW hidden
  PROVE  LET w == Entry(hidden)
         IN  /\ w.name = compiling.name /\ w.kind = "colon" /\ w.thread = <<>> /\ w.held = 0
             /\ w.def = compiling.def /\ w.home = current_wl /\ w.hides = hidden
             /\ w.immediate = FALSE
BY DEF Word, Entry

\* What the current definition has entered is a word.
LEMMA OwnType ==
  ASSUME TypeOK, compiling.name # NoName, ~compiling.noname
  PROVE  /\ Own \in 0..Len(words) /\ (Own # 0 => Own \in DOMAIN words)
         /\ (Own # 0 => compiling.predefined /\ Own = Dict[compiling.name])
         /\ (Own = 0 => ~(compiling.predefined /\ Dict[compiling.name] # 0))
<1>1. compiling.name \in Names
  BY NamedType
<1>2. WordsTyped /\ Dict[compiling.name] \in 0..Len(words)
  BY <1>1, LookupType, TypeParts
<1>3. DOMAIN words = 1..Len(words) /\ Len(words) \in Nat
  BY <1>2, WordFacts
<1> QED BY <1>2, <1>3 DEF Own

\* It enters the wordlist.
LEMMA PredefineMade ==
  ASSUME TypeOK, compiling.name # NoName, ~compiling.noname,
         NEW hidden \in 0..Len(words), Predefine(hidden)
  PROVE  Made /\ words' = Append(words, Entry(hidden)) /\ NextWid \in DOMAIN words'
<1> DEFINE word == Entry(hidden)
<1>1. /\ word.name = compiling.name /\ word.kind = "colon" /\ word.held = 0
      /\ compiling.name \in Names /\ compiling.def \in Nat
  BY EntryFields, NamedType DEF TypeOK, ContextType
<1>2. Define(word)
  BY DEF Predefine, Entry
<1> HIDE DEF word
<1>3. /\ Grows /\ Len(words) \in Nat /\ Len(words') = Len(words) + 1
      /\ Len(wordlists) \in Nat /\ Len(wordlists') = Len(wordlists)
      /\ wordlists' \in Seq([Names -> 0..Len(words')]) /\ last_word' \in 0..Len(words')
      /\ NextWid \in DOMAIN words'
  BY <1>1, <1>2, DefineGrows DEF NextWid
<1>4. /\ current_wl \in 0..(Len(wordlists') - 1) /\ hidden \in 0..Len(words')
      /\ 0 \in 0..Len(words')
  BY <1>3, SMTT(30) DEF TypeOK
<1>5. word \in WordType'
  <2>1. <<>> \in Seq(Instruction') /\ FALSE \in BOOLEAN
    BY EmptySeq
  <2>2. 0 \in Values \union 0..Len(words')
    BY <1>4
  <2>3. compiling.name \in Names \union {NoName}
    BY <1>1
  <2>4. "colon" \in {"colon", "vocabulary", "value", "defer"}
    OBVIOUS
  <2> DEFINE plain == Word(compiling.name, "colon", <<>>, 0, compiling.def)
  <2>5. plain \in WordType'
    BY <1>1, <1>4, <2>1, <2>2, <2>3, <2>4, Zenon DEF Word, WordType
  <2>6. word = [plain EXCEPT !.hides = hidden]
    BY DEF word, Entry
  <2> HIDE DEF plain
  <2> QED BY <1>4, <2>5, <2>6 DEF WordType
<1>6. words' = Append(words, word) /\ WordsTyped
  BY <1>2, TypeParts DEF Define
<1>7. WordsTyped'
  BY <1>1, <1>3, <1>4, <1>5, <1>6, WordAdded
<1> QED BY <1>3, <1>6, <1>7 DEF Made, word

\* The word of a nameless definition.
LEMMA NamelessTyped ==
  ASSUME NEW thread \in Seq(Instruction'), NEW def \in Nat, Len(words') \in Nat,
         current_wl \in 0..(Len(wordlists') - 1)
  PROVE  Word(NoName, "colon", thread, 0, def) \in WordType'
<1>1. 0 \in Values \union 0..Len(words') /\ 0 \in 0..Len(words')
  <2>1. 0 \in 0..Len(words')
    OBVIOUS
  <2> QED BY <2>1
<1>2. NoName \in Names \union {NoName} /\ "colon" \in {"colon", "vocabulary", "value", "defer"}
  OBVIOUS
<1> QED BY <1>1, <1>2, Zenon DEF Word, WordType

\* The three ways in which a definition becomes a word.
Nameless(word, thread, def) == word = Word(NoName, "colon", thread, 0, def)

\* One without a name becomes a word in no wordlist.
LEMMA NonameMade ==
  ASSUME TypeOK, NEW thread \in Seq(Instruction), NEW def \in Nat, NEW word,
         Nameless(word, thread, def), words' = Append(words, word),
         wordlists' = wordlists, last_word' = last_word
  PROVE  Made
<1>1. WordsTyped /\ ListsTyped
  BY TypeParts
<1>2. Len(words) \in Nat /\ Len(wordlists) \in Nat
  BY <1>1, WordFacts, LenProperties DEF ListsTyped
<1>3. word.kind = "colon" /\ word.held = 0
  BY WordFields DEF Nameless
<1>4. Len(wordlists') = Len(wordlists)
  OBVIOUS
<1>5. Grows /\ Len(words') = Len(words) + 1
  <2>1. Len(wordlists') \in Nat /\ Len(wordlists) <= Len(wordlists')
    BY <1>2, <1>4
  <2> QED BY <1>1, <1>2, <2>1, WordAppended DEF NextWid
<1>6. /\ Seq(Instruction) \subseteq Seq(Instruction')
      /\ wordlists' \in Seq([Names -> 0..Len(words')])
      /\ last_word' \in 0..Len(words')
  BY <1>2, <1>4, <1>5, Carried
<1>7. word \in WordType'
  <2>1. current_wl \in 0..(Len(wordlists') - 1)
    BY <1>4 DEF TypeOK
  <2>2. thread \in Seq(Instruction') /\ Len(words') \in Nat
    BY <1>2, <1>5, <1>6
  <2> QED BY <2>1, <2>2, NamelessTyped DEF Nameless
<1>8. word.held \in 0..Len(words')
  BY <1>2, <1>3, <1>5
<1>9. WordsTyped'
  BY <1>1, <1>2, <1>4, <1>7, <1>8, WordAdded
<1> QED BY <1>2, <1>4, <1>5, <1>6, <1>9 DEF Made

\* One entered early by RECURSIVE gets its thread.
LEMMA FilledMade ==
  ASSUME TypeOK, NEW thread \in Seq(Instruction), NEW own \in DOMAIN words,
         words' = [words EXCEPT ![own].thread = thread], last_word' = own,
         UNCHANGED wordlists
  PROVE  Made
<1> DEFINE word == [words[own] EXCEPT !.thread = thread]
<1>1. /\ WordsTyped /\ ListsTyped /\ words[own] \in WordType
      /\ DOMAIN words = 1..Len(words) /\ Len(words) \in Nat
  BY TypeParts, WordFacts
<1>2. Len(wordlists) \in Nat
  BY <1>1, LenProperties DEF ListsTyped
<1>3. word \in WordType /\ word.kind = words[own].kind /\ word.held = words[own].held
  BY <1>1 DEF WordType
<1>4. words' = [words EXCEPT ![own] = word]
  OBVIOUS
<1> HIDE DEF word
<1>5. word.kind # "value" => word.held \in 0..Len(words)
  BY <1>1, <1>3, WordFacts
<1>6. WordsTyped' /\ Len(words') = Len(words) /\ Grows
  BY <1>1, <1>2, <1>3, <1>4, <1>5, WordChanged
<1> QED BY <1>1, <1>2, <1>6 DEF Made, ListsTyped

\* Whichever of the three, ; makes it well-formed.
LEMMA FinalizeMade ==
  ASSUME TypeOK, compiling.name # NoName, Finalize
  PROVE  Made
<1> DEFINE thread == Append(compiling.code, <<"exit">>)
<1>1. compiling.def \in Nat /\ compiling.code \in Seq(Instruction)
  BY DEF TypeOK, ContextType
<1>2. thread \in Seq(Instruction)
  <2>1. <<"exit">> \in Instruction
    BY Instructions
  <2> QED BY <1>1, <2>1, AppendProperties
<1> HIDE DEF thread
<1>3. CASE /\ words' = Append(words, Word(NoName, "colon", thread, 0, compiling.def))
           /\ UNCHANGED <<wordlists, last_word>>
  <2> DEFINE word == Word(NoName, "colon", thread, 0, compiling.def)
  <2>1. words' = Append(words, word) /\ wordlists' = wordlists /\ last_word' = last_word
    BY <1>3
  <2>2. Nameless(word, thread, compiling.def)
    BY DEF Nameless
  <2> HIDE DEF word
  <2> QED BY <1>1, <1>2, <2>1, <2>2, NonameMade
<1>4. CASE /\ ~compiling.noname /\ Own # 0
           /\ words' = [words EXCEPT ![Own].thread = thread]
           /\ last_word' = Own /\ UNCHANGED wordlists
  <2>1. Own \in DOMAIN words
    BY <1>4, OwnType
  <2> QED BY <1>2, <1>4, <2>1, FilledMade
<1>5. CASE ~compiling.noname /\ Define(Word(compiling.name, "colon", thread, 0, compiling.def))
  <2>1. compiling.name \in Names
    BY <1>5, NamedType
  <2>2. \A set : Seq(Instruction) \subseteq Seq(set) => thread \in Seq(set)
    BY <1>2
  <2> QED BY <1>1, <1>5, <2>1, <2>2, DefineMade
<1> QED BY <1>3, <1>4, <1>5 DEF Finalize, thread

\* What a definition that ends leaves: its context emptied, or the one around it.
LEMMA ClosedTyped ==
  ASSUME TypeOK, Made, UNCHANGED defs,
         \/ compiling' = Finished /\ UNCHANGED comp_stack
         \/ comp_stack # <<>> /\ compiling' = Last(comp_stack) /\ comp_stack' = Front(comp_stack)
  PROVE  OpenTyped'
<1>1. OpenTyped /\ compiling \in ContextType /\ comp_stack \in Seq(ContextType)
  BY TypeParts DEF OpenTyped
<1>2. ContextType \subseteq ContextType' /\ Seq(ContextType) \subseteq Seq(ContextType')
  BY Carried DEF Made
<1>3. CASE compiling' = Finished /\ UNCHANGED comp_stack
  <2>1. <<>> \in Seq(Instruction)
    BY EmptySeq
  <2>2. Finished \in ContextType /\ Finished.noname = FALSE /\ Finished.name = NoName
    BY <1>1, <2>1 DEF Finished, ContextType
  <2>3. NoName # Unnamed
    BY DEF NoName, Unnamed
  <2> QED BY <1>1, <1>2, <1>3, <2>2, <2>3 DEF OpenTyped
<1>4. CASE comp_stack # <<>> /\ compiling' = Last(comp_stack) /\ comp_stack' = Front(comp_stack)
  <2>1. /\ Len(comp_stack) \in Nat \ {0} /\ DOMAIN comp_stack = 1..Len(comp_stack)
        /\ \A i \in 1..Len(comp_stack) : comp_stack[i] \in ContextType
    BY <1>1, <1>4, EmptySeq, LenProperties, ElementOfSeq
  <2>2. compiling' \in ContextType /\ compiling' \in Range(comp_stack)
    BY <1>4, <2>1 DEF Last, Range
  <2>3. /\ comp_stack' \in Seq(ContextType) /\ Len(comp_stack') = Len(comp_stack) - 1
        /\ \A i \in 1..(Len(comp_stack) - 1) : comp_stack'[i] = comp_stack[i]
    <3> DEFINE m == Len(comp_stack) - 1
    <3>1. m \in Int /\ \A i \in 1..m : comp_stack[i] \in ContextType
      BY <2>1
    <3>2. comp_stack' = SubSeq(comp_stack, 1, m)
      BY <1>4 DEF Front
    <3> HIDE DEF m
    <3>3. /\ comp_stack' \in Seq(ContextType)
          /\ Len(comp_stack') = IF 1 <= m THEN m - 1 + 1 ELSE 0
          /\ \A i \in 1..(m - 1 + 1) : comp_stack'[i] = comp_stack[1 + i - 1]
      BY <3>1, <3>2, SubSeqProperties
    <3>4. m \in Nat
      BY <2>1 DEF m
    <3>5. Len(comp_stack') = m /\ \A i \in 1..m : comp_stack'[i] = comp_stack[i]
      BY <3>3, <3>4
    <3> QED BY <3>3, <3>5 DEF m
  <2>4. Range(comp_stack') \subseteq Range(comp_stack)
    <3>1. DOMAIN comp_stack' = 1..(Len(comp_stack) - 1)
      BY <2>3, LenProperties
    <3> QED BY <2>1, <2>3, <3>1 DEF Range
  <2> QED BY <1>1, <1>2, <2>2, <2>3, <2>4 DEF OpenTyped
<1> QED BY <1>3, <1>4

\* ; and the end of a definition that a word has begun.
LEMMA EndTypeOK == TypeOK /\ (Semicolon \/ RunEndDefinition) => TypeOK'
<1> SUFFICES ASSUME TypeOK, Semicolon \/ RunEndDefinition PROVE TypeOK'
  OBVIOUS
<1>1. Finalize /\ compiling.name # NoName /\ UNCHANGED <<orderVars, current_wl, bound, defs>>
  BY DEF Semicolon, RunEndDefinition
<1>2. Made
  BY <1>1, FinalizeMade
<1>3. OpenTyped'
  <2>1. \/ compiling' = Finished /\ UNCHANGED comp_stack
        \/ comp_stack # <<>> /\ compiling' = Last(comp_stack) /\ comp_stack' = Front(comp_stack)
    BY DEF Semicolon, RunEndDefinition
  <2> QED BY <1>1, <1>2, <2>1, ClosedTyped
<1>4. bound' \in [{"value", "defer"} -> [Names -> 0..Len(words')]] /\ OrderTyped'
      /\ Seq(Instruction) \subseteq Seq(Instruction')
  BY <1>1, <1>2, Carried DEF Made
<1>5. running' \in Seq(Instruction) /\ pos' \in Nat \ {0} /\ program' \in Lessons
  <2>1. CASE Semicolon
    BY <2>1, Reading DEF Semicolon, TypeOK
  <2>2. CASE RunEndDefinition
    <3>1. running # <<>> /\ running' = Tail(running) /\ UNCHANGED <<program, pos>>
      BY <2>2 DEF RunEndDefinition, Runs
    <3> QED BY <3>1, RunningType DEF TypeOK
  <2> QED BY <2>1, <2>2
<1> QED BY <1>2, <1>3, <1>4, <1>5, TypePartsNext DEF Made, ListsTyped, TextTyped

\* The definition in progress goes on under its name.
LEMMA OpenChanged ==
  ASSUME OpenTyped, compiling' \in ContextType', UNCHANGED <<comp_stack, defs>>,
         compiling'.noname = compiling.noname, compiling'.name = compiling.name,
         Seq(ContextType) \subseteq Seq(ContextType')
  PROVE  OpenTyped'
BY DEF OpenTyped

\* The definition in progress goes on, with its word entered and perhaps an
\* instruction more.
LEMMA PredefinedTyped ==
  ASSUME TypeOK, Made, NEW code \in Seq(Instruction'), UNCHANGED <<comp_stack, defs>>,
         compiling' = [compiling EXCEPT !.predefined = TRUE, !.code = code]
  PROVE  OpenTyped'
<1>1. OpenTyped /\ compiling \in ContextType
  BY TypeParts DEF OpenTyped
<1>2. ContextType \subseteq ContextType' /\ Seq(ContextType) \subseteq Seq(ContextType')
  BY Carried DEF Made
<1>3. /\ compiling' \in ContextType'
      /\ compiling'.noname = compiling.noname /\ compiling'.name = compiling.name
  <2>1. compiling \in ContextType'
    BY <1>1, <1>2
  <2> QED BY <2>1 DEF ContextType
<1> QED BY <1>1, <1>2, <1>3, OpenChanged

\* RECURSIVE and a RECURSE that enters the word.
LEMMA PredefineTypeOK ==
  ASSUME TypeOK, NEW t, Reads(t), compiling.name # NoName, ~compiling.noname,
         NEW hidden \in 0..Len(words), Predefine(hidden), NEW code \in Seq(Instruction'),
         compiling' = [compiling EXCEPT !.predefined = TRUE, !.code = code],
         UNCHANGED <<orderVars, current_wl, bound, comp_stack, defs, running>>
  PROVE  TypeOK'
<1>2. Made
  BY PredefineMade
<1>3. OpenTyped'
  BY <1>2, PredefinedTyped
<1>4. bound' \in [{"value", "defer"} -> [Names -> 0..Len(words')]] /\ OrderTyped'
      /\ Seq(Instruction) \subseteq Seq(Instruction')
  BY <1>2, Carried DEF Made
<1>5. running' \in Seq(Instruction) /\ pos' \in Nat \ {0} /\ program' \in Lessons
  BY Reading DEF TypeOK
<1> QED BY <1>2, <1>3, <1>4, <1>5, TypePartsNext DEF Made, ListsTyped, TextTyped

\* RECURSIVE enters the open definition with no thread.
LEMMA RecursiveTypeOK == TypeOK /\ Recursive => TypeOK'
<1> SUFFICES ASSUME TypeOK, Recursive PROVE TypeOK'
  OBVIOUS
<1> DEFINE code == compiling.code
<1>1. code \in Seq(Instruction) /\ compiling.def \in Nat /\ compiling \in ContextType
  BY DEF TypeOK, ContextType
<1>2. compiling' = [compiling EXCEPT !.predefined = TRUE, !.code = code]
  BY <1>1 DEF Recursive, ContextType
<1> HIDE DEF code
<1>3. compiling.name # NoName /\ ~compiling.noname /\ Predefine(Own)
      /\ Reads(<<"recursive">>)
      /\ UNCHANGED <<orderVars, current_wl, bound, comp_stack, defs, running>>
  BY DEF Recursive
<1>4. Own \in 0..Len(words)
  BY <1>3, OwnType
<1>5. code \in Seq(Instruction')
  <2>1. Made
    BY <1>3, <1>4, PredefineMade
  <2> QED BY <1>1, <2>1, Carried DEF Made
<1> QED BY <1>2, <1>3, <1>4, <1>5, PredefineTypeOK

\* RECURSE does the same when it has to.
LEMMA RecurseTypeOK == TypeOK /\ Recurse => TypeOK'
<1> SUFFICES ASSUME TypeOK, Recurse PROVE TypeOK'
  OBVIOUS
<1>1. compiling.code \in Seq(Instruction) /\ compiling.def \in Nat /\ compiling \in ContextType
  BY DEF TypeOK, ContextType
<1>2. compiling.name # NoName /\ ~compiling.noname /\ Reads(<<"recurse">>)
      /\ UNCHANGED <<orderVars, current_wl, bound, comp_stack, defs, running>>
  BY DEF Recurse
<1>4. CASE /\ Own # 0 /\ Emit(<<"call", Own>>)
           /\ UNCHANGED <<words, wordlists, last_word>>
  <2>1. Own \in DOMAIN words
    BY <1>2, <1>4, OwnType
  <2>2. <<"call", Own>> \in Instruction
    BY <2>1, Instructions
  <2> QED BY <1>2, <1>4, <2>2, ReadEmitTypeOK DEF listVars, wordVars
<1>5. CASE /\ Predefine(0)
           /\ compiling' = [compiling EXCEPT !.predefined = TRUE,
                              !.code = Append(@, <<"call", NextWid>>)]
  <2> DEFINE code == Append(compiling.code, <<"call", NextWid>>)
  <2>1. 0 \in 0..Len(words)
    <3>1. Len(words) \in Nat
      BY TypeParts, WordFacts
    <3> QED BY <3>1
  <2>3. Made /\ NextWid \in DOMAIN words'
    BY <1>2, <1>5, <2>1, PredefineMade
  <2>2. compiling.code \in Seq(Instruction')
    BY <1>1, <2>3, Carried DEF Made
  <2>4. <<"call", NextWid>> \in Instruction'
    BY <2>3 DEF Instruction
  <2>5. code \in Seq(Instruction')
    BY <2>2, <2>4, AppendProperties
  <2>6. compiling' = [compiling EXCEPT !.predefined = TRUE, !.code = code]
    BY <1>5
  <2> HIDE DEF code
  <2> QED BY <1>2, <1>5, <2>1, <2>5, <2>6, PredefineTypeOK
<1> QED BY <1>4, <1>5 DEF Recurse, RecurseWord

\* The built-in words and the two first wordlists.
LEMMA InitTypeOK == Init => TypeOK
<1> SUFFICES ASSUME Init PROVE TypeOK
  OBVIOUS
<1>1. words = <<>> /\ wordlists = <<[n \in Names |-> 0]>>
  BY DEF Init
<1>2. words \in Seq(WordType) /\ Len(words) = 0 /\ NotValues = {}
  BY <1>1, EmptySeq DEF NotValues
<1>3. WordsTyped
  BY <1>2 DEF WordsTyped
<1>4. Len(wordlists) = 1 /\ wordlists \in Seq([Names -> 0..Len(words)])
  BY <1>1, <1>2
<1>5. ListsTyped
  BY <1>2, <1>4 DEF Init, ListsTyped
<1>6. OrderTyped
  BY <1>4 DEF Init, OrderTyped
<1>7. OpenTyped
  <2>1. <<>> \in Seq(Instruction) /\ <<>> \in Seq(ContextType)
    BY EmptySeq
  <2>2. compiling \in ContextType /\ compiling.noname = (compiling.name = Unnamed)
    <3>1. NoName # Unnamed
      BY DEF NoName, Unnamed
    <3> QED BY <2>1, <3>1 DEF Init, ContextType
  <2>3. comp_stack = <<>> /\ defs = 0 /\ Range(comp_stack) = {}
    BY DEF Init, Range
  <2> QED BY <2>1, <2>2, <2>3 DEF OpenTyped
<1>8. TextTyped
  BY EmptySeq DEF Init, TextTyped
<1> QED BY <1>3, <1>5, <1>6, <1>7, <1>8, TypeParts

-----------------------------------------------------------------------------
(* The inductive invariants                                                *)

\* The fast path is taken for what the search order is now.
DefaultTracked == order_is_default = IsDefault(search_order, current_wl)

\* Wordlist 0 is not only in the order, it is its last.
CoreIsLast == kept => search_order # <<>> /\ Last(search_order) = 0

\* A word without a thread that none hides is the one its open definition entered
\* last, and still the word of its name.
Named(c) == c.name # NoName /\ ~c.noname
Entered ==
    \A w \in DOMAIN words : words[w].thread = <<>> /\ w \notin Hidden =>
        \E c \in Opened :
            /\ Named(c) /\ c.predefined /\ c.def = words[w].def
            /\ Dict[c.name] = w
\* The definitions in progress that have names have different ones.
NamesApart ==
    /\ \A i \in DOMAIN comp_stack :
          Named(comp_stack[i]) /\ Named(compiling) => comp_stack[i].name # compiling.name
    /\ \A i, j \in DOMAIN comp_stack :
          i # j /\ Named(comp_stack[i]) /\ Named(comp_stack[j])
            => comp_stack[i].name # comp_stack[j].name

\* A table has, and a wordlist finds, the newest word of the name that is of
\* the table's kind or was entered in the wordlist.
WordsOfKind(kind, n) == {w \in DOMAIN words : words[w].name = n /\ words[w].kind = kind}
WordsOfHome(wid, n) == {w \in DOMAIN words : words[w].name = n /\ words[w].home = wid}
Newest(w, set) == w \in set /\ \A v \in set : v <= w
TablesNewest ==
    \A kind \in {"value", "defer"}, n \in Names :
        \/ bound[kind][n] = 0 /\ WordsOfKind(kind, n) = {}
        \/ Newest(bound[kind][n], WordsOfKind(kind, n))
WordlistsNewest ==
    \A l \in DOMAIN wordlists, n \in Names :
        wordlists[l][n] # 0 => Newest(wordlists[l][n], WordsOfHome(l - 1, n))
-----------------------------------------------------------------------------
(* What a step does to the words, the wordlists and the tables             *)

\* No word is added, and all keep what they are found by.
SameWords ==
  /\ DOMAIN words' = DOMAIN words
  /\ \A w \in DOMAIN words :
       /\ words'[w].name = words[w].name /\ words'[w].kind = words[w].kind
       /\ words'[w].home = words[w].home /\ words'[w].def = words[w].def
       /\ words'[w].hides = words[w].hides
\* A word is added at the end.
Added(word) ==
  /\ Len(words) \in Nat /\ DOMAIN words = 1..Len(words) /\ DOMAIN words' = 1..NextWid
  /\ words'[NextWid] = word
  /\ \A w \in DOMAIN words : words'[w] = words[w]
\* The wordlists are as they were, and new ones empty.
SameLists ==
  /\ DOMAIN wordlists \subseteq DOMAIN wordlists'
  /\ \A l \in DOMAIN wordlists', n \in Names :
       wordlists'[l][n] = IF l \in DOMAIN wordlists THEN wordlists[l][n] ELSE 0
\* The newest word is entered in the compilation wordlist.
EntersList(name) ==
  /\ DOMAIN wordlists \subseteq DOMAIN wordlists' /\ current_wl + 1 \in DOMAIN wordlists
  /\ \A l \in DOMAIN wordlists', n \in Names :
       wordlists'[l][n] =
         IF l = current_wl + 1 /\ n = name THEN NextWid
         ELSE IF l \in DOMAIN wordlists THEN wordlists[l][n] ELSE 0
\* It is entered in the table of its kind.
EntersTable(kind, name) ==
  IF kind \in {"value", "defer"}
  THEN bound' = [bound EXCEPT ![kind][name] = NextWid]
  ELSE bound' = bound

QuietStep == SameWords /\ SameLists /\ bound' = bound
NamelessStep(word) == Added(word) /\ word.name = NoName /\ SameLists /\ bound' = bound
NamedStep(word) ==
  /\ Added(word) /\ word.name \in Names /\ word.home = current_wl
  /\ EntersList(word.name) /\ EntersTable(word.kind, word.name)

\* Wordlists that do not change, and one that is added.
LEMMA SameListsBy ==
  ASSUME TypeOK,
         \/ wordlists' = wordlists
         \/ wordlists' = Append(wordlists, [n \in Names |-> 0])
  PROVE  SameLists
<1> DEFINE L == [Names -> 0..Len(words)]
           empty == [n \in Names |-> 0]
<1>1. wordlists \in Seq(L) /\ Len(words) \in Nat
  BY TypeParts, WordFacts DEF ListsTyped
<1>2. DOMAIN wordlists = 1..Len(wordlists) /\ Len(wordlists) \in Nat
  BY <1>1, LenProperties
<1>3. empty \in L
  BY <1>1
<1>4. CASE wordlists' = wordlists
  BY <1>4 DEF SameLists
<1>5. CASE wordlists' = Append(wordlists, empty)
  <2>1. \A n \in Names : empty[n] = 0
    OBVIOUS
  <2> HIDE DEF L, empty
  <2>2. /\ wordlists' \in Seq(L) /\ Len(wordlists') = Len(wordlists) + 1
        /\ \A l \in 1..Len(wordlists) : wordlists'[l] = wordlists[l]
        /\ wordlists'[Len(wordlists) + 1] = empty
    BY <1>1, <1>3, <1>5, AppendProperties
  <2>3. DOMAIN wordlists' = 1..(Len(wordlists) + 1)
    BY <2>2, LenProperties
  <2>4. ASSUME NEW l \in DOMAIN wordlists', NEW n \in Names
        PROVE  wordlists'[l][n] = IF l \in DOMAIN wordlists THEN wordlists[l][n] ELSE 0
    BY <1>2, <2>1, <2>2, <2>3
  <2>5. DOMAIN wordlists \subseteq DOMAIN wordlists'
    BY <1>2, <2>3
  <2> QED BY <2>4, <2>5 DEF SameLists
<1> QED BY <1>4, <1>5

\* One field of one word changes.
LEMMA SameWordsBy ==
  ASSUME TypeOK, NEW k, NEW v,
         \/ words' = [words EXCEPT ![k].held = v]
         \/ words' = [words EXCEPT ![k].immediate = v]
         \/ words' = [words EXCEPT ![k].thread = v]
  PROVE  SameWords
<1>1. DOMAIN words' = DOMAIN words
  OBVIOUS
<1>2. ASSUME NEW w \in DOMAIN words
      PROVE  /\ words'[w].name = words[w].name /\ words'[w].kind = words[w].kind
             /\ words'[w].home = words[w].home /\ words'[w].def = words[w].def
             /\ words'[w].hides = words[w].hides
  <2>1. words[w] \in WordType
    BY TypeParts, WordFacts
  <2>2. CASE w = k
    <3>1. \/ words'[w] = [words[w] EXCEPT !.held = v]
          \/ words'[w] = [words[w] EXCEPT !.immediate = v]
          \/ words'[w] = [words[w] EXCEPT !.thread = v]
      BY <2>2
    <3> QED BY <2>1, <3>1 DEF WordType
  <2>3. CASE w # k
    <3>1. words'[w] = words[w]
      BY <2>3
    <3> QED BY <3>1
  <2> QED BY <2>2, <2>3
<1> QED BY <1>1, <1>2 DEF SameWords

\* A word is appended.
LEMMA AddedBy ==
  ASSUME TypeOK, NEW word, words' = Append(words, word)
  PROVE  Added(word)
<1> DEFINE T == WordType \union {word}
<1>1. Len(words) \in Nat /\ DOMAIN words = 1..Len(words) /\ words \in Seq(T) /\ word \in T
  BY TypeParts, WordFacts, SeqMonotonic DEF WordsTyped
<1> HIDE DEF T
<1>2. /\ words' \in Seq(T) /\ Len(words') = Len(words) + 1
      /\ \A w \in 1..Len(words) : words'[w] = words[w]
      /\ words'[Len(words) + 1] = word
  BY <1>1, AppendProperties
<1>3. DOMAIN words' = 1..NextWid
  BY <1>2, LenProperties DEF NextWid
<1> QED BY <1>1, <1>2, <1>3 DEF Added, NextWid

\* A word of the compilation wordlist is defined.
LEMMA DefineAdds ==
  ASSUME TypeOK, NEW word, word.name \in Names, word.home = current_wl, Define(word)
  PROVE  Added(word) /\ EntersList(word.name)
<1>1. Added(word)
  BY AddedBy DEF Define
<1>2. NextWid \in Nat
  BY <1>1 DEF Added, NextWid
<1>3. /\ DOMAIN wordlists' = DOMAIN wordlists /\ DOMAIN wordlists = 1..Len(wordlists)
      /\ Len(wordlists) \in Nat
      /\ \A l \in DOMAIN wordlists, m \in Names :
           wordlists'[l][m] = IF l = current_wl + 1 /\ m = word.name THEN NextWid
                              ELSE wordlists[l][m]
  <2>1. Enters(word.name, NextWid)
    BY DEF Enters, Define
  <2> QED BY <1>2, <2>1, Entering
<1>4. current_wl + 1 \in DOMAIN wordlists
  BY <1>3, SMTT(30) DEF TypeOK
<1> QED BY <1>1, <1>3, <1>4 DEF EntersList

\* The words, the wordlists and the tables stay what they are.
LEMMA StillStep == TypeOK /\ UNCHANGED <<words, wordlists, bound>> => QuietStep
<1> SUFFICES ASSUME TypeOK, UNCHANGED <<words, wordlists, bound>> PROVE QuietStep
  OBVIOUS
<1>1. SameLists
  BY SameListsBy
<1> QED BY <1>1 DEF QuietStep, SameWords

\* A definition that is entered or ends adds a word or fills one.
LEMMA FinalizeStep ==
  ASSUME TypeOK, compiling.name # NoName, Finalize, bound' = bound
  PROVE  QuietStep \/ (\E word : NamelessStep(word)) \/ (\E word : NamedStep(word))
<1> DEFINE thread == Append(compiling.code, <<"exit">>)
           nameless == Word(NoName, "colon", thread, 0, compiling.def)
           named == Word(compiling.name, "colon", thread, 0, compiling.def)
<1>1. CASE words' = Append(words, nameless) /\ wordlists' = wordlists
  <2>1. nameless.name = NoName
    BY WordFields
  <2> HIDE DEF nameless
  <2>2. Added(nameless) /\ SameLists
    BY <1>1, AddedBy, SameListsBy
  <2> QED BY <2>1, <2>2 DEF NamelessStep
<1>2. CASE words' = [words EXCEPT ![Own].thread = thread] /\ wordlists' = wordlists
  <2> HIDE DEF thread
  <2>1. SameWords /\ SameLists
    BY <1>2, SameWordsBy, SameListsBy
  <2> QED BY <2>1 DEF QuietStep
<1>3. CASE ~compiling.noname /\ Define(named)
  <2>1. named.name = compiling.name /\ named.kind = "colon" /\ named.home = current_wl
    BY WordFields
  <2>2. compiling.name \in Names
    BY <1>3, NamedType
  <2> HIDE DEF named
  <2>3. Added(named) /\ EntersList(named.name)
    BY <1>3, <2>1, <2>2, DefineAdds
  <2>4. EntersTable(named.kind, named.name)
    BY <2>1 DEF EntersTable
  <2> QED BY <2>1, <2>2, <2>3, <2>4 DEF NamedStep
<1> QED BY <1>1, <1>2, <1>3 DEF Finalize

\* RECURSIVE and RECURSE enter the open definition into the wordlist.
LEMMA PredefineStep ==
  ASSUME TypeOK, compiling.name # NoName, ~compiling.noname, NEW hidden, Predefine(hidden),
         bound' = bound
  PROVE  \E word : NamedStep(word)
<1> DEFINE word == Entry(hidden)
<1>1. word.name = compiling.name /\ word.kind = "colon" /\ word.home = current_wl
  BY EntryFields
<1>2. compiling.name \in Names /\ Define(word)
  BY NamedType DEF Predefine, Entry
<1> HIDE DEF word
<1>3. Added(word) /\ EntersList(word.name)
  BY <1>1, <1>2, DefineAdds
<1>4. EntersTable(word.kind, word.name)
  BY <1>1 DEF EntersTable
<1> QED BY <1>1, <1>2, <1>3, <1>4 DEF NamedStep

\* VALUE and DEFER.
LEMMA CellStep == TypeOK /\ (Value \/ Defer) => \E word : NamedStep(word)
<1> SUFFICES ASSUME TypeOK, Value \/ Defer PROVE \E word : NamedStep(word)
  OBVIOUS
<1>1. \E kind \in {"value", "defer"}, n \in Names : \E thread, v :
         Define(Word(n, kind, thread, v, defs + 1)) /\ Bind(kind, n)
  <2>1. CASE Value
    <3>1. PICK n \in Names, v \in Values :
             /\ Define(Word(n, "value", <<<<"fetch", NextWid>>, <<"exit">>>>, v, defs + 1))
             /\ Bind("value", n)
      BY <2>1 DEF Value
    <3> QED BY <3>1
  <2>2. CASE Defer
    <3>1. PICK n \in Names :
             /\ Define(Word(n, "defer", <<<<"defer", NextWid>>, <<"exit">>>>, 0, defs + 1))
             /\ Bind("defer", n)
      BY <2>2 DEF Defer
    <3> QED BY <3>1
  <2> QED BY <2>1, <2>2
<1>2. PICK kind \in {"value", "defer"}, n \in Names :
         \E thread, v : Define(Word(n, kind, thread, v, defs + 1)) /\ Bind(kind, n)
  BY <1>1
<1>3. PICK thread, v : Define(Word(n, kind, thread, v, defs + 1)) /\ Bind(kind, n)
  BY <1>2
<1> DEFINE word == Word(n, kind, thread, v, defs + 1)
<1>4. word.name = n /\ word.kind = kind /\ word.home = current_wl
  BY WordFields
<1>5. Define(word)
  BY <1>3
<1> HIDE DEF word
<1>6. Added(word) /\ EntersList(word.name)
  BY <1>4, <1>5, DefineAdds
<1>7. EntersTable(word.kind, word.name)
  BY <1>3, <1>4 DEF EntersTable, Bind
<1> QED BY <1>4, <1>6, <1>7 DEF NamedStep

\* VOCABULARY enters a word that names a new wordlist.
LEMMA VocabularyStep == TypeOK /\ Vocabulary => \E word : NamedStep(word)
<1> SUFFICES ASSUME TypeOK, Vocabulary PROVE \E word : NamedStep(word)
  OBVIOUS
<1> DEFINE empty == [m \in Names |-> 0]
<1> DEFINE thread == <<<<"vocab", Len(wordlists)>>, <<"exit">>>>
<1>1. \E n \in Names :
        /\ words' = Append(words, Word(n, "vocabulary", thread, 0, defs + 1))
        /\ wordlists' = Append([wordlists EXCEPT ![current_wl + 1][n] = NextWid], empty)
  BY DEF Vocabulary
<1>2. PICK n \in Names :
        /\ words' = Append(words, Word(n, "vocabulary", thread, 0, defs + 1))
        /\ wordlists' = Append([wordlists EXCEPT ![current_wl + 1][n] = NextWid], empty)
  BY <1>1
<1> DEFINE word == Word(n, "vocabulary", thread, 0, defs + 1)
           L == [Names -> 0..NextWid]
           entered == [wordlists EXCEPT ![current_wl + 1][n] = NextWid]
<1>3. word.name = n /\ word.kind = "vocabulary" /\ word.home = current_wl
  BY WordFields
<1>4. words' = Append(words, word) /\ wordlists' = Append(entered, empty)
  BY <1>2
<1> HIDE DEF word
<1>5. Added(word)
  BY <1>4, AddedBy
<1>6. Len(words) \in Nat /\ NextWid = Len(words) + 1
  BY <1>5 DEF Added, NextWid
<1>7. /\ entered \in Seq(L) /\ Len(entered) = Len(wordlists) /\ Len(wordlists) \in Nat
      /\ current_wl + 1 \in 1..Len(wordlists)
      /\ \A l \in 1..Len(wordlists), m \in Names :
           entered[l][m] = IF l = current_wl + 1 /\ m = n THEN NextWid ELSE wordlists[l][m]
  <2> DEFINE S == 0..NextWid
  <2>1. [Names -> 0..Len(words)] \subseteq [Names -> S] /\ NextWid \in S
    BY <1>6
  <2>2. ListsTyped /\ OrderTyped
    BY TypeParts
  <2>3. wordlists \in Seq([Names -> S])
    BY <2>1, <2>2, SeqMonotonic DEF ListsTyped
  <2>4. Len(wordlists) \in Nat /\ current_wl + 1 \in 1..Len(wordlists)
    BY <2>2, LenProperties DEF ListsTyped, OrderTyped
  <2> HIDE DEF S
  <2>5. /\ entered \in Seq([Names -> S]) /\ Len(entered) = Len(wordlists)
        /\ \A l \in 1..Len(wordlists), m \in Names :
             entered[l][m] = IF l = current_wl + 1 /\ m = n THEN NextWid ELSE wordlists[l][m]
    BY <2>1, <2>3, <2>4, EnteredIn
  <2> QED BY <2>4, <2>5 DEF S
<1>8. empty \in L /\ \A m \in Names : empty[m] = 0
  BY <1>6
<1> HIDE DEF entered, empty, L
<1>9. /\ wordlists' \in Seq(L) /\ Len(wordlists') = Len(wordlists) + 1
      /\ \A l \in 1..Len(wordlists) : wordlists'[l] = entered[l]
      /\ wordlists'[Len(wordlists) + 1] = empty
  BY <1>4, <1>7, <1>8, AppendProperties
<1>10. /\ DOMAIN wordlists' = 1..(Len(wordlists) + 1)
       /\ DOMAIN wordlists = 1..Len(wordlists)
  <2>1. wordlists \in Seq([Names -> 0..Len(words)])
    BY DEF TypeOK
  <2> QED BY <1>9, <2>1, LenProperties
<1>11. EntersList(n)
  BY <1>7, <1>8, <1>9, <1>10 DEF EntersList
<1>12. EntersTable(word.kind, word.name)
  BY <1>3 DEF EntersTable, Vocabulary
<1> QED BY <1>3, <1>5, <1>11, <1>12 DEF NamedStep

\* WORDLIST adds a wordlist and touches no word.
LEMMA MakeWordlistStep == TypeOK /\ MakeWordlist => QuietStep
<1> SUFFICES ASSUME TypeOK, MakeWordlist PROVE QuietStep
  OBVIOUS
<1>1. /\ wordlists' = Append(wordlists, [n \in Names |-> 0])
      /\ words' = words /\ bound' = bound
  BY DEF MakeWordlist, wordVars
<1>2. SameLists
  BY <1>1, SameListsBy
<1> QED BY <1>1, <1>2 DEF QuietStep, SameWords

\* A held value or a mark of a word changes.
LEMMA ChangeStep ==
  TypeOK /\ (Assign \/ Immediate \/ RunStore \/ RunImmediate) => QuietStep
<1> SUFFICES ASSUME TypeOK, Assign \/ Immediate \/ RunStore \/ RunImmediate PROVE QuietStep
  OBVIOUS
<1>1. wordlists' = wordlists /\ bound' = bound
  BY DEF Assign, Immediate, RunStore, RunImmediate, listVars
<1>2. \E k, v : \/ words' = [words EXCEPT ![k].held = v]
                \/ words' = [words EXCEPT ![k].immediate = v]
  <2>1. CASE Assign
    BY <2>1, Zenon DEF Assign
  <2>2. CASE Immediate \/ RunImmediate
    BY <2>2, Zenon DEF Immediate, RunImmediate
  <2>3. CASE RunStore
    BY <2>3, Zenon DEF RunStore
  <2> QED BY <2>1, <2>2, <2>3
<1>3. SameWords
  BY <1>2, SameWordsBy
<1>4. SameLists
  BY <1>1, SameListsBy
<1> QED BY <1>1, <1>3, <1>4 DEF QuietStep

\* Every step is of one of the three kinds.
LEMMA StepKinds ==
  ASSUME TypeOK, [Next]_vars
  PROVE  QuietStep \/ (\E word : NamelessStep(word)) \/ (\E word : NamedStep(word))
<1>1. CASE UNCHANGED vars
  BY <1>1, StillStep DEF vars, listVars, wordVars
<1>2. CASE \/ Colon \/ ColonNoname \/ RightBracket \/ Execute \/ CompileName \/ CompileItem
           \/ Postpone \/ CompileAssign \/ LeftBracket \/ RunPlain \/ RunCall \/ RunPostpone
           \/ RunBeginNamed \/ RunBeginNoname
  BY <1>2, StillStep DEF Colon, ColonNoname, RightBracket, Execute, CompileName, CompileItem,
     Postpone, CompileAssign, LeftBracket, RunPlain, RunCall, RunPostpone, RunBeginNamed,
     RunBeginNoname, listVars, wordVars
<1>3. CASE InterpretOrder \/ RunOrder
  <2>1. UNCHANGED <<words, wordlists, bound>>
    BY <1>3 DEF InterpretOrder, RunOrder, Reorder, SetCurrent, listVars, wordVars
  <2> QED BY <2>1, StillStep
<1>4. CASE MakeWordlist
  BY <1>4, MakeWordlistStep
<1>5. CASE Assign \/ Immediate \/ RunStore \/ RunImmediate
  BY <1>5, ChangeStep
<1>6. CASE Value \/ Defer \/ Vocabulary
  BY <1>6, CellStep, VocabularyStep
<1>7. CASE Recursive
  BY <1>7, PredefineStep DEF Recursive
<1>8. CASE Recurse
  <2>1. CASE UNCHANGED <<words, wordlists>>
    BY <1>8, <2>1, StillStep DEF Recurse
  <2>2. CASE Predefine(0)
    BY <1>8, <2>2, PredefineStep DEF Recurse
  <2> QED BY <1>8, <2>1, <2>2 DEF Recurse, RecurseWord
<1>9. CASE Semicolon \/ RunEndDefinition
  BY <1>9, FinalizeStep DEF Semicolon, RunEndDefinition
<1> QED BY <1>1, <1>2, <1>3, <1>4, <1>5, <1>6, <1>7, <1>8, <1>9 DEF Next
-----------------------------------------------------------------------------
(* The newest words                                                        *)

\* Every step keeps the types, as long as the tables have words of their kind.
LEMMA TypeNext == TypeOK /\ TablesNewest /\ [Next]_vars => TypeOK'
<1> SUFFICES ASSUME TypeOK, TablesNewest, [Next]_vars PROVE TypeOK'
  OBVIOUS
<1>1. TablesKinds
  BY DEF TablesNewest, TablesKinds, Newest, WordsOfKind
<1>2. CASE UNCHANGED vars
  <2>1. WordsTyped' /\ ListsTyped' /\ OrderTyped' /\ OpenTyped' /\ Instruction' = Instruction
    BY <1>2, SameTypes DEF vars, listVars, wordVars
  <2>2. TextTyped'
    BY <1>2, <2>1, TypeParts DEF TextTyped, vars, textVars
  <2> QED BY <2>1, <2>2, TypePartsNext
<1> QED BY <1>1, <1>2, ColonTypeOK, MakeWordlistTypeOK, VocabularyTypeOK, ValueDeferTypeOK,
       AssignTypeOK, ImmediateTypeOK, OrderTypeOK, BracketTypeOK, ExecuteTypeOK,
       CompileNameTypeOK, CompileItemTypeOK, PostponeTypeOK, CompileAssignTypeOK,
       RecursiveTypeOK, RecurseTypeOK, EndTypeOK, RunPlainTypeOK, RunCallTypeOK,
       RunStoreTypeOK, RunPostponeTypeOK, RunBeginTypeOK DEF Next

\* The sets of words after a step.
LEMMA SameSets ==
  ASSUME SameWords, NEW kind, NEW wid, NEW n
  PROVE  WordsOfKind(kind, n)' = WordsOfKind(kind, n) /\ WordsOfHome(wid, n)' = WordsOfHome(wid, n)
BY DEF SameWords, WordsOfKind, WordsOfHome

\* A new word joins the words of its own name and kind, and no others.
LEMMA AddedSets ==
  ASSUME NEW word, Added(word), NEW kind, NEW wid, NEW n
  PROVE  /\ WordsOfKind(kind, n)' =
              IF word.name = n /\ word.kind = kind
              THEN WordsOfKind(kind, n) \union {NextWid} ELSE WordsOfKind(kind, n)
         /\ WordsOfHome(wid, n)' =
              IF word.name = n /\ word.home = wid
              THEN WordsOfHome(wid, n) \union {NextWid} ELSE WordsOfHome(wid, n)
<1>1. /\ DOMAIN words' = DOMAIN words \union {NextWid} /\ NextWid \notin DOMAIN words
      /\ words'[NextWid] = word /\ \A w \in DOMAIN words : words'[w] = words[w]
  BY DEF Added, NextWid
<1>2. WordsOfKind(kind, n)' =
        IF word.name = n /\ word.kind = kind
        THEN WordsOfKind(kind, n) \union {NextWid} ELSE WordsOfKind(kind, n)
  BY <1>1 DEF WordsOfKind
<1>3. WordsOfHome(wid, n)' =
        IF word.name = n /\ word.home = wid
        THEN WordsOfHome(wid, n) \union {NextWid} ELSE WordsOfHome(wid, n)
  BY <1>1 DEF WordsOfHome
<1> QED BY <1>2, <1>3

\* The word added is the newest of any set it is added to.
LEMMA NewestAdded ==
  ASSUME NEW word, Added(word), NEW S, S \subseteq DOMAIN words
  PROVE  Newest(NextWid, S \union {NextWid}) /\ NextWid # 0
<1>1. NextWid \in Nat /\ NextWid # 0 /\ \A w \in DOMAIN words : w <= NextWid
  BY DEF Added, NextWid
<1> QED BY <1>1 DEF Newest

\* No step makes a table name a word that is not the newest of its kind.
LEMMA TablesNewestKept ==
  ASSUME TypeOK, TablesNewest, [Next]_vars
  PROVE  TablesNewest'
<1> SUFFICES ASSUME NEW kind \in {"value", "defer"}, NEW n \in Names
             PROVE  \/ bound'[kind][n] = 0 /\ WordsOfKind(kind, n)' = {}
                    \/ Newest(bound'[kind][n], WordsOfKind(kind, n)')
  BY DEF TablesNewest, Newest
<1>1. \/ bound[kind][n] = 0 /\ WordsOfKind(kind, n) = {}
      \/ Newest(bound[kind][n], WordsOfKind(kind, n))
  BY DEF TablesNewest
<1>2. CASE QuietStep
  BY <1>1, <1>2, SameSets DEF QuietStep
<1>3. ASSUME NEW word, NamelessStep(word)
      PROVE  \/ bound'[kind][n] = 0 /\ WordsOfKind(kind, n)' = {}
             \/ Newest(bound'[kind][n], WordsOfKind(kind, n)')
  <2>1. word.name # n
    BY <1>3, NamesAssumption DEF NamelessStep
  <2>2. WordsOfKind(kind, n)' = WordsOfKind(kind, n)
    BY <1>3, <2>1, AddedSets DEF NamelessStep
  <2> QED BY <1>1, <1>3, <2>2 DEF NamelessStep
<1>4. ASSUME NEW word, NamedStep(word)
      PROVE  \/ bound'[kind][n] = 0 /\ WordsOfKind(kind, n)' = {}
             \/ Newest(bound'[kind][n], WordsOfKind(kind, n)')
  <2>1. bound \in [{"value", "defer"} -> [Names -> 0..Len(words)]]
    BY DEF TypeOK
  <2>2. Added(word) /\ EntersTable(word.kind, word.name) /\ word.name \in Names
    BY <1>4 DEF NamedStep
  <2>3. CASE word.name = n /\ word.kind = kind
    <3>1. bound'[kind][n] = NextWid
      BY <2>1, <2>2, <2>3 DEF EntersTable
    <3>2. WordsOfKind(kind, n)' = WordsOfKind(kind, n) \union {NextWid}
      BY <2>2, <2>3, AddedSets
    <3>3. WordsOfKind(kind, n) \subseteq DOMAIN words
      BY DEF WordsOfKind
    <3> QED BY <2>2, <3>1, <3>2, <3>3, NewestAdded
  <2>4. CASE ~(word.name = n /\ word.kind = kind)
    <3>1. bound'[kind][n] = bound[kind][n]
      BY <2>1, <2>2, <2>4 DEF EntersTable
    <3>2. WordsOfKind(kind, n)' = WordsOfKind(kind, n)
      BY <2>2, <2>4, AddedSets
    <3> QED BY <1>1, <3>1, <3>2
  <2> QED BY <2>3, <2>4
<1> QED BY <1>2, <1>3, <1>4, StepKinds

\* No step makes a wordlist name a word that is not the newest of its own.
LEMMA WordlistsNewestKept ==
  ASSUME TypeOK, TablesNewest, WordlistsNewest, [Next]_vars
  PROVE  WordlistsNewest'
<1> SUFFICES ASSUME NEW l \in DOMAIN wordlists', NEW n \in Names, wordlists'[l][n] # 0
             PROVE  Newest(wordlists'[l][n], WordsOfHome(l - 1, n)')
  BY DEF WordlistsNewest, Newest
<1>1. l \in DOMAIN wordlists /\ wordlists[l][n] # 0
        => Newest(wordlists[l][n], WordsOfHome(l - 1, n))
  BY DEF WordlistsNewest
<1>2. CASE QuietStep
  <2>1. l \in DOMAIN wordlists /\ wordlists'[l][n] = wordlists[l][n]
    BY <1>2 DEF QuietStep, SameLists
  <2> QED BY <1>1, <1>2, <2>1, SameSets DEF QuietStep
<1>3. ASSUME NEW word, NamelessStep(word)
      PROVE  Newest(wordlists'[l][n], WordsOfHome(l - 1, n)')
  <2>1. l \in DOMAIN wordlists /\ wordlists'[l][n] = wordlists[l][n]
    BY <1>3 DEF NamelessStep, SameLists
  <2>2. word.name # n
    BY <1>3, NamesAssumption DEF NamelessStep
  <2>3. WordsOfHome(l - 1, n)' = WordsOfHome(l - 1, n)
    BY <1>3, <2>2, AddedSets DEF NamelessStep
  <2> QED BY <1>1, <2>1, <2>3
<1>4. ASSUME NEW word, NamedStep(word)
      PROVE  Newest(wordlists'[l][n], WordsOfHome(l - 1, n)')
  <2>1. /\ Added(word) /\ EntersList(word.name) /\ word.home = current_wl
    BY <1>4 DEF NamedStep
  <2>2. current_wl \in Nat /\ l \in Nat
    <3>1. TypeOK'
      BY TypeNext
    <3>2. wordlists' \in Seq([Names -> 0..Len(words')]) /\ current_wl \in Nat
      BY <3>1 DEF TypeOK
    <3> QED BY <3>2, LenProperties
  <2>3. CASE l = current_wl + 1 /\ word.name = n
    <3>1. wordlists'[l][n] = NextWid /\ l - 1 = current_wl
      BY <2>1, <2>2, <2>3 DEF EntersList
    <3>2. WordsOfHome(l - 1, n)' = WordsOfHome(l - 1, n) \union {NextWid}
      BY <2>1, <2>3, <3>1, AddedSets
    <3>3. WordsOfHome(l - 1, n) \subseteq DOMAIN words
      BY DEF WordsOfHome
    <3> QED BY <2>1, <3>1, <3>2, <3>3, NewestAdded
  <2>4. CASE ~(l = current_wl + 1 /\ word.name = n)
    <3>1. l \in DOMAIN wordlists /\ wordlists'[l][n] = wordlists[l][n]
      BY <2>1, <2>4 DEF EntersList
    <3>2. l - 1 # current_wl \/ word.name # n
      BY <2>2, <2>4
    <3>3. ~(word.name = n /\ word.home = l - 1)
      BY <2>1, <3>2
    <3>4. WordsOfHome(l - 1, n)' = WordsOfHome(l - 1, n)
      BY <2>1, <3>3, AddedSets
    <3> QED BY <1>1, <3>1, <3>4
  <2> QED BY <2>3, <2>4
<1> QED BY <1>2, <1>3, <1>4, StepKinds

\* Types and newest words, together: the types of TO and IS rest on the tables.
Found == TypeOK /\ TablesNewest /\ WordlistsNewest

\* The built-in words are where a search finds them.
LEMMA InitFound == Init => Found
<1> SUFFICES ASSUME Init PROVE Found
  OBVIOUS
<1>1. DOMAIN words = {}
  BY DEF Init
<1>2. TablesNewest
  BY <1>1 DEF Init, TablesNewest, WordsOfKind
<1>3. WordlistsNewest
  BY DEF Init, WordlistsNewest
<1> QED BY <1>2, <1>3, InitTypeOK DEF Found

\* Every reachable dictionary finds what a search of its wordlists finds.
LEMMA FoundInvariant == Spec => []Found
<1>1. Init => Found
  BY InitFound
<1>2. Found /\ [Next]_vars => Found'
  BY TypeNext, TablesNewestKept, WordlistsNewestKept DEF Found
<1> QED BY <1>1, <1>2, PTL DEF Spec

\* Every wid in a wordlist, in the search order, in a thread, in a DEFER or in
\* a table is one that exists, whatever a program defines, nests and stores.
THEOREM Typed == Spec => []TypeOK
<1>1. Found => TypeOK
  BY DEF Found
<1> QED BY <1>1, FoundInvariant, PTL
-----------------------------------------------------------------------------
(* The search order                                                        *)

\* Only the order words change the order and the compilation wordlist.
LEMMA OrderSteps ==
  ASSUME [Next]_vars
  PROVE  \/ UNCHANGED <<orderVars, current_wl>>
         \/ \E op : Reorder(op)
         \/ \E op : SetCurrent(op)
<1>1. CASE UNCHANGED vars
  BY <1>1 DEF vars, listVars
<1>2. CASE InterpretOrder \/ RunOrder
  BY <1>2 DEF InterpretOrder, RunOrder
<1>3. CASE \/ Colon \/ ColonNoname \/ RightBracket \/ Execute \/ CompileName \/ CompileItem
           \/ Postpone \/ CompileAssign \/ LeftBracket \/ RunPlain \/ RunCall \/ RunPostpone
           \/ RunBeginNamed \/ RunBeginNoname \/ Assign \/ Immediate \/ RunStore
           \/ RunImmediate
  BY <1>3 DEF Colon, ColonNoname, RightBracket, Execute, CompileName, CompileItem, Postpone,
     CompileAssign, LeftBracket, RunPlain, RunCall, RunPostpone, RunBeginNamed,
     RunBeginNoname, Assign, Immediate, RunStore, RunImmediate, listVars
<1>4. CASE MakeWordlist \/ Vocabulary \/ Value \/ Defer \/ Recursive \/ Recurse
           \/ Semicolon \/ RunEndDefinition
  BY <1>4 DEF MakeWordlist, Vocabulary, Value, Defer, Recursive, Recurse, Semicolon,
     RunEndDefinition
<1> QED BY <1>1, <1>2, <1>3, <1>4 DEF Next

\* The fast path looks into wordlist 0, which is all of the order.
LEMMA FastPath == TypeOK /\ DefaultTracked => LookupIsSearch
<1> SUFFICES ASSUME TypeOK, DefaultTracked, NEW n \in Names PROVE Lookup(n) = Search(n)
  BY DEF LookupIsSearch
<1>1. CASE ~order_is_default
  BY <1>1 DEF Lookup
<1>2. CASE order_is_default
  <2>1. search_order = <<0>> /\ current_wl = 0
    BY <1>2 DEF DefaultTracked, IsDefault
  <2>2. Lookup(n) = Wordlist(0)[n]
    BY <1>2, <2>1 DEF Lookup, Dict
  <2>3. DOMAIN search_order = {1} /\ search_order[1] = 0
    BY <2>1
  <2>4. Hits(n) = IF Wordlist(0)[n] # 0 THEN {1} ELSE {}
    BY <2>3 DEF Hits
  <2>5. CASE Wordlist(0)[n] = 0
    BY <2>2, <2>4, <2>5 DEF Search
  <2>6. CASE Wordlist(0)[n] # 0
    <3>1. Hits(n) = {1}
      BY <2>4, <2>6
    <3>2. Min(Hits(n)) = 1
      <4>1. Min({1}) \in {1}
        BY MinType
      <4> QED BY <3>1, <4>1
    <3> QED BY <2>2, <2>3, <3>1, <3>2 DEF Search
  <2> QED BY <2>5, <2>6
<1> QED BY <1>1, <1>2

\* The flag of the fast path is up only for the default order.
LEMMA DefaultTrackedInvariant == Spec => []DefaultTracked
<1>1. Init => DefaultTracked
  BY DEF Init, DefaultTracked, IsDefault
<1>2. DefaultTracked /\ [Next]_vars => DefaultTracked'
  <2> SUFFICES ASSUME DefaultTracked, [Next]_vars PROVE DefaultTracked'
    OBVIOUS
  <2>1. CASE UNCHANGED <<orderVars, current_wl>>
    BY <2>1 DEF DefaultTracked, IsDefault, orderVars
  <2>2. CASE \E op : Reorder(op)
    BY <2>2 DEF Reorder, DefaultTracked, IsDefault, listVars
  <2>3. CASE \E op : SetCurrent(op)
    BY <2>3 DEF SetCurrent, DefaultTracked, IsDefault
  <2> QED BY <2>1, <2>2, <2>3, OrderSteps
<1> QED BY <1>1, <1>2, PTL DEF Spec

\* The fast path of _lookup and of the main loop, which looks only into the
\* compilation wordlist, always finds what the search order finds.
THEOREM FastPathFinds == Spec => []LookupIsSearch
BY FastPath, Typed, DefaultTrackedInvariant, PTL

\* A word that changes the order leaves wordlist 0 last, or gives up the claim.
LEMMA ReorderKeepsLast ==
  ASSUME TypeOK, CoreIsLast, NEW op, Reorder(op)
  PROVE  CoreIsLast'
<1> SUFFICES ASSUME kept' PROVE search_order' # <<>> /\ Last(search_order') = 0
  BY DEF CoreIsLast
<1> DEFINE s == search_order
           S == 0..(Len(wordlists) - 1) \union Nat
           Ends(q) == q # <<>> /\ Last(q) = 0
<1>1. s \in Seq(S)
  <2>1. s \in Seq(0..(Len(wordlists) - 1))
    BY DEF TypeOK
  <2> QED BY <2>1, SeqMonotonic
<1>2. Len(s) \in Nat /\ DOMAIN s = 1..Len(s) /\ (s # <<>> => Len(s) # 0)
  BY <1>1, LenProperties, EmptySeq
<1>3. search_order' = OrderAfter(op) /\ kept' = KeptAfter(op) /\ op[1] \in OrderOps
  BY DEF Reorder
<1>4. CASE op[1] = "only"
  <2>1. search_order' = <<0>>
    BY <1>3, <1>4 DEF OrderAfter
  <2> QED BY <2>1 DEF Last
<1>5. CASE op[1] = "set-order"
  BY <1>3, <1>5 DEF OrderAfter, KeptAfter
<1>6. ASSUME op[1] \notin {"only", "set-order"}
      PROVE  Ends(s) /\ Len(s) \in Nat \ {0} /\ s[Len(s)] = 0
  <2>1. kept
    BY <1>3, <1>6 DEF KeptAfter
  <2> QED BY <1>2, <2>1 DEF CoreIsLast, Last
<1> HIDE DEF S
<1>7. ASSUME NEW wid \in S, op[1] \notin {"only", "set-order"}
      PROVE  /\ OnTop(wid) \in Seq(S) /\ Len(OnTop(wid)) = Len(s) /\ OnTop(wid)[1] = wid
             /\ Len(s) > 1 => OnTop(wid)[Len(s)] = 0
             /\ DOMAIN OnTop(wid) = 1..Len(s)
  <2>1. OnTop(wid) = [s EXCEPT ![1] = wid] /\ 1 \in 1..Len(s)
    BY <1>6, <1>7, EmptySeq DEF OnTop
  <2>2. /\ OnTop(wid) \in Seq(S) /\ Len(OnTop(wid)) = Len(s)
        /\ \A j \in 1..Len(s) : OnTop(wid)[j] = IF j = 1 THEN wid ELSE s[j]
    BY <1>1, <1>7, <2>1, ExceptSeq
  <2> QED BY <1>6, <1>7, <2>1, <2>2, LenProperties
<1>8. CASE op[1] = "forth"
  <2>1. 0 \in S
    BY DEF S
  <2>2. search_order' = OnTop(0)
    BY <1>3, <1>8 DEF OrderAfter
  <2>3. /\ OnTop(0) \in Seq(S) /\ Len(OnTop(0)) = Len(s) /\ OnTop(0)[1] = 0
        /\ Len(s) > 1 => OnTop(0)[Len(s)] = 0
    BY <1>7, <1>8, <2>1
  <2>4. OnTop(0)[Len(s)] = 0 /\ Len(OnTop(0)) # 0
    BY <1>6, <1>8, <2>3
  <2> QED BY <2>2, <2>3, <2>4, EmptySeq DEF Last
<1>9. ASSUME NEW wid \in S, op[1] \notin {"only", "set-order"}
      PROVE  Ends(<<wid>> \o s)
  <2>1. /\ Len(<<wid>> \o s) = 1 + Len(s) /\ <<wid>> \o s \in Seq(S)
        /\ \A i \in 1..(1 + Len(s)) : (<<wid>> \o s)[i] = IF i <= 1 THEN <<wid>>[i] ELSE s[i - 1]
    <3>1. <<wid>> \in Seq(S) /\ Len(<<wid>>) = 1
      OBVIOUS
    <3> QED BY <1>1, <3>1, ConcatProperties
  <2>2. Len(<<wid>> \o s) # 0 /\ (<<wid>> \o s)[1 + Len(s)] = 0
    BY <1>6, <1>9, <2>1
  <2> QED BY <2>1, <2>2, EmptySeq DEF Last
<1>10. CASE op[1] = "also"
  <2>1. Head(s) \in S
    BY <1>1, <1>6, <1>10, HeadTailProperties
  <2>2. search_order' = <<Head(s)>> \o s
    BY <1>3, <1>6, <1>10 DEF OrderAfter, Also
  <2> QED BY <1>9, <1>10, <2>1, <2>2
<1>11. CASE op[1] = ">order"
  <2>1. CASE search_order' = s
    BY <1>6, <1>11, <2>1
  <2>2. CASE search_order' = <<op[2]>> \o s
    <3>1. Last(<<op[2]>> \o s) = 0 /\ <<op[2]>> \o s # <<>>
      <4> DEFINE T == S \union {op[2]}
      <4>1. <<op[2]>> \in Seq(T) /\ s \in Seq(T) /\ Len(<<op[2]>>) = 1
        BY <1>1, SeqMonotonic
      <4> HIDE DEF T
      <4>2. /\ Len(<<op[2]>> \o s) = 1 + Len(s)
            /\ \A i \in 1..(1 + Len(s)) :
                 (<<op[2]>> \o s)[i] = IF i <= 1 THEN <<op[2]>>[i] ELSE s[i - 1]
        BY <4>1, ConcatProperties
      <4>3. Len(<<op[2]>> \o s) # 0 /\ (<<op[2]>> \o s)[1 + Len(s)] = 0
        BY <1>6, <1>11, <4>2
      <4> QED BY <4>2, <4>3, EmptySeq DEF Last
    <3> QED BY <2>2, <3>1
  <2> QED BY <1>3, <1>11, <2>1, <2>2 DEF OrderAfter, ToOrder
<1>12. CASE op[1] = "previous"
  <2>1. CASE search_order' = s
    BY <1>6, <1>12, <2>1
  <2>2. CASE search_order' = Tail(s) /\ Len(s) > 1
    <3>1. /\ Tail(s) \in Seq(S) /\ Len(Tail(s)) = Len(s) - 1
          /\ \A i \in 1..(Len(s) - 1) : Tail(s)[i] = s[i + 1]
      BY <1>1, <1>6, <1>12, HeadTailProperties
    <3>2. Len(Tail(s)) # 0 /\ Tail(s)[Len(s) - 1] = 0
      BY <1>2, <1>6, <1>12, <2>2, <3>1
    <3> QED BY <2>2, <3>1, <3>2, EmptySeq DEF Last
  <2> QED BY <1>3, <1>12, <2>1, <2>2 DEF OrderAfter, Previous
<1>13. CASE op[1] = "vocab"
  <2> DEFINE wid == op[2]
             T == S \union {wid}
  <2>1. search_order' = VocabSelect(wid)
    BY <1>3, <1>13 DEF OrderAfter
  <2>2. OnTop(wid) = [s EXCEPT ![1] = wid] /\ 1 \in 1..Len(s)
    BY <1>6, <1>13 DEF OnTop
  <2>3. s \in Seq(T) /\ wid \in T /\ 0 \in T
    BY <1>1, SeqMonotonic DEF S
  <2> HIDE DEF T, wid
  <2>4. /\ OnTop(wid) \in Seq(T) /\ Len(OnTop(wid)) = Len(s)
        /\ \A j \in 1..Len(s) : OnTop(wid)[j] = IF j = 1 THEN wid ELSE s[j]
    BY <2>2, <2>3, ExceptSeq
  <2>5. CASE 0 \in Range(OnTop(wid))
    <3>1. PICK j \in 1..Len(s) : OnTop(wid)[j] = 0
      <4>1. DOMAIN OnTop(wid) = 1..Len(s)
        BY <2>4, LenProperties
      <4> QED BY <2>5, <4>1 DEF Range
    <3>2. OnTop(wid)[Len(s)] = 0 /\ Len(OnTop(wid)) # 0
      BY <1>6, <1>13, <2>4, <3>1
    <3> QED BY <2>1, <2>4, <2>5, <3>2, EmptySeq DEF VocabSelect, Last
  <2>6. CASE 0 \notin Range(OnTop(wid))
    <3>1. search_order' = Append(OnTop(wid), 0)
      BY <2>1, <2>6 DEF VocabSelect
    <3>2. /\ Append(OnTop(wid), 0) # <<>> /\ Len(Append(OnTop(wid), 0)) = Len(s) + 1
          /\ Append(OnTop(wid), 0)[Len(s) + 1] = 0
      BY <2>3, <2>4, AppendProperties
    <3> QED BY <3>1, <3>2 DEF Last
  <2> QED BY <2>5, <2>6
<1> QED BY <1>3, <1>4, <1>5, <1>8, <1>10, <1>11, <1>12, <1>13 DEF OrderOps

\* FORTH-WORDLIST is searched last whatever the order words have done.
LEMMA CoreIsLastInvariant == Spec => []CoreIsLast
<1>1. Init => CoreIsLast
  BY DEF Init, CoreIsLast, Last
<1>2. TypeOK /\ CoreIsLast /\ [Next]_vars => CoreIsLast'
  <2> SUFFICES ASSUME TypeOK, CoreIsLast, [Next]_vars PROVE CoreIsLast'
    OBVIOUS
  <2>1. CASE UNCHANGED <<orderVars, current_wl>>
    BY <2>1 DEF CoreIsLast, orderVars
  <2>2. CASE \E op : Reorder(op)
    BY <2>2, ReorderKeepsLast
  <2>3. CASE \E op : SetCurrent(op)
    BY <2>3 DEF SetCurrent, CoreIsLast
  <2> QED BY <2>1, <2>2, <2>3, OrderSteps
<1> QED BY <1>1, <1>2, Typed, PTL DEF Spec

\* "selecting a vocab never hides core words": however the order is changed,
\* wordlist 0 stays in it, unless SET-ORDER was given an order without it last.
THEOREM CoreStaysReachable == Spec => []CoreWordsReachable
<1>1. TypeOK /\ CoreIsLast => CoreWordsReachable
  <2> SUFFICES ASSUME TypeOK, CoreIsLast, kept PROVE 0 \in Range(search_order)
    BY DEF CoreWordsReachable
  <2>1. search_order # <<>> /\ search_order[Len(search_order)] = 0
    BY DEF CoreIsLast, Last
  <2>2. Len(search_order) \in DOMAIN search_order
    <3>1. search_order \in Seq(0..(Len(wordlists) - 1))
      BY DEF TypeOK
    <3> QED BY <2>1, <3>1, LenProperties, EmptySeq
  <2> QED BY <2>1, <2>2 DEF Range
<1> QED BY <1>1, Typed, CoreIsLastInvariant, PTL
-----------------------------------------------------------------------------
(* The definitions in progress and the words they have entered             *)

\* Each definition in progress stays in progress, whatever is compiled to it.
SameOpen ==
  \A c \in Opened : \E d \in Opened' :
    d.name = c.name /\ d.noname = c.noname /\ d.predefined = c.predefined /\ d.def = c.def
SameThreads ==
  /\ DOMAIN words' = DOMAIN words
  /\ \A w \in DOMAIN words :
       /\ words'[w].thread = words[w].thread /\ words'[w].def = words[w].def
       /\ words'[w].hides = words[w].hides
SameDict == \A n \in Names : Dict'[n] = Dict[n]

\* The definitions in progress, of their type and, when named, with a name.
LEMMA OpenFacts ==
  ASSUME TypeOK
  PROVE  /\ comp_stack \in Seq(ContextType) /\ compiling \in ContextType
         /\ Len(comp_stack) \in Nat /\ DOMAIN comp_stack = 1..Len(comp_stack)
         /\ \A i \in DOMAIN comp_stack :
              comp_stack[i] \in ContextType /\ comp_stack[i] \in Range(comp_stack)
         /\ \A c \in {compiling} \union Range(comp_stack) :
              c \in ContextType /\ (Named(c) => c \in Opened /\ c.name \in Names)
<1>1. /\ comp_stack \in Seq(ContextType) /\ compiling \in ContextType
      /\ \A c \in {compiling} \union Range(comp_stack) : c.noname = (c.name = Unnamed)
  BY DEF TypeOK
<1>2. Len(comp_stack) \in Nat /\ DOMAIN comp_stack = 1..Len(comp_stack)
  BY <1>1, LenProperties
<1>3. \A i \in DOMAIN comp_stack :
        comp_stack[i] \in ContextType /\ comp_stack[i] \in Range(comp_stack)
  BY <1>1, <1>2, ElementOfSeq DEF Range
<1>4. ASSUME NEW c \in {compiling} \union Range(comp_stack)
      PROVE  c \in ContextType /\ (Named(c) => c \in Opened /\ c.name \in Names)
  <2>1. c \in ContextType
    BY <1>1, <1>3 DEF Range
  <2>2. c.name \in Names \union {NoName, Unnamed}
    BY <2>1 DEF ContextType
  <2>3. c.name = Unnamed => c.noname
    BY <1>1
  <2> QED BY <2>1, <2>2, <2>3 DEF Named, Opened
<1> QED BY <1>1, <1>2, <1>3, <1>4

\* What the stack of contexts has after the last is taken off.
LEMMA Popped ==
  ASSUME TypeOK, comp_stack # <<>>
  PROVE  /\ Last(comp_stack) = comp_stack[Len(comp_stack)] /\ Len(comp_stack) \in DOMAIN comp_stack
         /\ DOMAIN Front(comp_stack) = 1..(Len(comp_stack) - 1)
         /\ \A i \in DOMAIN Front(comp_stack) : Front(comp_stack)[i] = comp_stack[i]
         /\ Range(comp_stack) = Range(Front(comp_stack)) \union {Last(comp_stack)}
<1> DEFINE m == Len(comp_stack) - 1
<1>1. /\ comp_stack \in Seq(ContextType) /\ Len(comp_stack) \in Nat
      /\ DOMAIN comp_stack = 1..Len(comp_stack) /\ Len(comp_stack) # 0
      /\ \A i \in 1..Len(comp_stack) : comp_stack[i] \in ContextType
  BY OpenFacts, EmptySeq
<1>2. m \in Int /\ m \in Nat /\ \A i \in 1..m : comp_stack[i] \in ContextType
  BY <1>1
<1>3. Front(comp_stack) = SubSeq(comp_stack, 1, m)
  BY DEF Front
<1> HIDE DEF m
<1>4. /\ Front(comp_stack) \in Seq(ContextType)
      /\ Len(Front(comp_stack)) = IF 1 <= m THEN m - 1 + 1 ELSE 0
      /\ \A i \in 1..(m - 1 + 1) : Front(comp_stack)[i] = comp_stack[1 + i - 1]
  BY <1>2, <1>3, SubSeqProperties
<1>5. DOMAIN Front(comp_stack) = 1..m /\ \A i \in 1..m : Front(comp_stack)[i] = comp_stack[i]
  BY <1>2, <1>4, LenProperties
<1>6. Last(comp_stack) = comp_stack[Len(comp_stack)]
  BY DEF Last
<1>7. 1..Len(comp_stack) = 1..m \union {Len(comp_stack)} /\ Len(comp_stack) \in 1..Len(comp_stack)
  BY <1>1 DEF m
<1>8. Range(comp_stack) = Range(Front(comp_stack)) \union {Last(comp_stack)}
  BY <1>1, <1>5, <1>6, <1>7 DEF Range
<1> QED BY <1>1, <1>5, <1>6, <1>7, <1>8 DEF m

\* What the compilation wordlist finds after a step.
LEMMA DictAfter ==
  ASSUME TypeOK, current_wl' = current_wl
  PROVE  /\ SameLists => SameDict
         /\ \A m \in Names, n \in Names :
              EntersList(m) => Dict'[n] = IF n = m THEN NextWid ELSE Dict[n]
<1>1. Len(wordlists) \in Nat /\ DOMAIN wordlists = 1..Len(wordlists)
  <2>1. wordlists \in Seq([Names -> 0..Len(words)])
    BY DEF TypeOK
  <2> QED BY <2>1, LenProperties
<1>2. current_wl + 1 \in DOMAIN wordlists
  BY <1>1 DEF TypeOK
<1>3. SameLists => SameDict
  BY <1>2 DEF SameLists, SameDict, Dict, Wordlist
<1>4. ASSUME NEW m \in Names, NEW n \in Names, EntersList(m)
      PROVE  Dict'[n] = IF n = m THEN NextWid ELSE Dict[n]
  BY <1>2, <1>4 DEF EntersList, Dict, Wordlist
<1> QED BY <1>3, <1>4

\* A word that is hidden stays hidden.
LEMMA HiddenStays ==
  ASSUME DOMAIN words \subseteq DOMAIN words',
         \A w \in DOMAIN words : words'[w].hides = words[w].hides
  PROVE  Hidden \subseteq Hidden'
BY DEF Hidden, Range

\* A step that enters nothing keeps the entered words entered.
LEMMA EnteredStays ==
  ASSUME TypeOK, Entered, SameThreads, SameOpen, SameDict
  PROVE  Entered'
<1> SUFFICES ASSUME NEW w \in DOMAIN words', words'[w].thread = <<>>, w \notin Hidden'
             PROVE  \E d \in Opened' : /\ Named(d) /\ d.predefined /\ d.def = words'[w].def
                                       /\ Dict'[d.name] = w
  BY DEF Entered, Named
<1>0. w \notin Hidden
  BY HiddenStays DEF SameThreads
<1>1. PICK c \in Opened : /\ Named(c) /\ c.predefined /\ c.def = words[w].def
                          /\ Dict[c.name] = w
  BY <1>0 DEF Entered, SameThreads
<1>2. PICK d \in Opened' : /\ d.name = c.name /\ d.noname = c.noname
                           /\ d.predefined = c.predefined /\ d.def = c.def
  BY DEF SameOpen
<1>3. c.name \in Names
  BY <1>1, OpenFacts DEF Opened
<1> QED BY <1>1, <1>2, <1>3 DEF Named, SameThreads, SameDict

\* When nothing is in progress every word that none hides has its thread.
LEMMA NoneEmpty ==
  Entered /\ Opened = {} => \A w \in DOMAIN words : words[w].thread # <<>> \/ w \in Hidden
BY DEF Entered

\* The definition in progress is compiled to, put away or begun.
LEMMA SameOpenBy ==
  ASSUME TypeOK,
         \/ /\ comp_stack' = comp_stack
            /\ compiling'.name = compiling.name /\ compiling'.noname = compiling.noname
            /\ compiling'.predefined = compiling.predefined /\ compiling'.def = compiling.def
         \/ comp_stack' = Append(comp_stack, compiling)
         \/ Opened = {}
  PROVE  SameOpen
<1>1. CASE /\ comp_stack' = comp_stack
           /\ compiling'.name = compiling.name /\ compiling'.noname = compiling.noname
           /\ compiling'.predefined = compiling.predefined /\ compiling'.def = compiling.def
  BY <1>1 DEF SameOpen, Opened
<1>2. CASE comp_stack' = Append(comp_stack, compiling)
  <2>1. /\ \A i \in 1..Len(comp_stack) : comp_stack'[i] = comp_stack[i]
        /\ comp_stack'[Len(comp_stack) + 1] = compiling
        /\ Len(comp_stack') = Len(comp_stack) + 1 /\ comp_stack' \in Seq(ContextType)
    BY <1>2, OpenFacts, AppendProperties
  <2>2. /\ DOMAIN comp_stack = 1..Len(comp_stack) /\ Len(comp_stack) \in Nat
        /\ DOMAIN comp_stack' = 1..(Len(comp_stack) + 1)
    BY <2>1, OpenFacts, LenProperties
  <2>3. {compiling} \union Range(comp_stack) \subseteq Range(comp_stack')
    <3>1. compiling \in Range(comp_stack')
      BY <2>1, <2>2 DEF Range
    <3>2. ASSUME NEW i \in DOMAIN comp_stack PROVE comp_stack[i] \in Range(comp_stack')
      <4>1. i \in DOMAIN comp_stack' /\ comp_stack'[i] = comp_stack[i]
        BY <2>1, <2>2
      <4> QED BY <4>1 DEF Range
    <3> QED BY <3>1, <3>2 DEF Range
  <2>4. Opened \subseteq Opened'
    BY <2>3 DEF Opened
  <2> QED BY <2>4 DEF SameOpen
<1>3. CASE Opened = {}
  BY <1>3 DEF SameOpen
<1> QED BY <1>1, <1>2, <1>3

\* A step that changes neither words nor wordlists, but perhaps the contexts.
LEMMA EnteredQuiet ==
  ASSUME TypeOK, Entered, UNCHANGED <<words, wordlists, current_wl>>, SameOpen
  PROVE  Entered'
<1>1. SameDict
  BY DEF SameDict, Dict, Wordlist
<1>2. SameThreads
  BY DEF SameThreads
<1> QED BY <1>1, <1>2, EnteredStays

\* A word is defined while nothing is in progress.
LEMMA EnteredOutside ==
  ASSUME Entered, Opened = {}, NEW word, Added(word), word.thread # <<>>
  PROVE  Entered'
<1> SUFFICES ASSUME NEW w \in DOMAIN words' PROVE words'[w].thread # <<>> \/ w \in Hidden'
  BY DEF Entered
<1>0. Hidden \subseteq Hidden'
  <2>1. DOMAIN words \subseteq DOMAIN words'
    BY DEF Added, NextWid
  <2> QED BY <2>1, HiddenStays DEF Added
<1>1. w \in DOMAIN words \/ w = NextWid
  BY DEF Added, NextWid
<1>2. CASE w = NextWid
  BY <1>2 DEF Added
<1>3. CASE w \in DOMAIN words
  <2>1. words'[w] = words[w]
    BY <1>3 DEF Added
  <2> QED BY <1>0, <1>3, <2>1, NoneEmpty
<1> QED BY <1>1, <1>2, <1>3

\* The definition in progress enters its word, which hides the one it had.
LEMMA EnteredNew ==
  ASSUME TypeOK, Entered, NamesApart, compiling.name # NoName, ~compiling.noname,
         Predefine(Own), current_wl' = current_wl, comp_stack' = comp_stack,
         compiling'.name = compiling.name, compiling'.noname = compiling.noname,
         compiling'.def = compiling.def, compiling'.predefined
  PROVE  Entered'
<1> DEFINE word == Entry(Own)
<1>1. /\ word.name = compiling.name /\ word.thread = <<>> /\ word.def = compiling.def
      /\ word.home = current_wl /\ word.hides = Own
  BY EntryFields
<1>2. compiling.name \in Names /\ Define(word)
  BY NamedType DEF Predefine, Entry
<1> HIDE DEF word
<1>3. Added(word) /\ EntersList(compiling.name)
  BY <1>1, <1>2, DefineAdds
<1>4. \A n \in Names : Dict'[n] = IF n = compiling.name THEN NextWid ELSE Dict[n]
  BY <1>2, <1>3, DictAfter
<1> SUFFICES ASSUME NEW w \in DOMAIN words', words'[w].thread = <<>>, w \notin Hidden'
             PROVE  \E d \in Opened' : /\ Named(d) /\ d.predefined /\ d.def = words'[w].def
                                       /\ Dict'[d.name] = w
  BY DEF Entered, Named
<1>5. CASE w = NextWid
  <2>1. words'[w].def = compiling.def /\ Dict'[compiling.name] = w
    BY <1>1, <1>2, <1>3, <1>4, <1>5 DEF Added
  <2>2. compiling' \in Opened' /\ Named(compiling')
    BY DEF Opened, Named
  <2> QED BY <2>1, <2>2
<1>6. CASE w # NextWid
  <2>1. w \in DOMAIN words /\ words'[w] = words[w] /\ w # 0
    BY <1>3, <1>6 DEF Added, NextWid
  <2>2. PICK c \in Opened : /\ Named(c) /\ c.predefined /\ c.def = words[w].def
                            /\ Dict[c.name] = w
    <3>1. DOMAIN words \subseteq DOMAIN words'
      BY <1>3 DEF Added, NextWid
    <3>2. w \notin Hidden
      BY <1>3, <3>1, HiddenStays DEF Added
    <3> QED BY <2>1, <3>2 DEF Entered
  <2>3. c \in Range(comp_stack)
    <3>1. ASSUME c = compiling PROVE FALSE
      <4>1. Own = w
        BY <2>2, <3>1 DEF Own
      <4>2. NextWid \in DOMAIN words' /\ words'[NextWid].hides = w
        BY <1>1, <1>3, <4>1 DEF Added, NextWid
      <4> QED BY <2>1, <4>2 DEF Hidden, Range
    <3> QED BY <2>2, <3>1 DEF Opened
  <2>4. c.name # compiling.name
    BY <2>2, <2>3 DEF NamesApart, Named, Range
  <2>5. c.name \in Names
    BY <2>2, <2>3, OpenFacts
  <2>6. Dict'[c.name] = w
    BY <1>4, <2>2, <2>4, <2>5
  <2>7. c \in Opened'
    BY <2>2, <2>3 DEF Opened, Named
  <2> QED BY <2>1, <2>2, <2>6, <2>7
<1> QED BY <1>5, <1>6

\* The definition in progress ends: its word has its thread, and those of the
\* definitions put away are found as before.
LEMMA EnteredEnds ==
  ASSUME TypeOK, Entered, NamesApart, compiling.name # NoName, Finalize,
         current_wl' = current_wl,
         Range(comp_stack) \subseteq {compiling'} \union Range(comp_stack')
  PROVE  Entered'
<1> DEFINE thread == Append(compiling.code, <<"exit">>)
           nameless == Word(NoName, "colon", thread, 0, compiling.def)
           named == Word(compiling.name, "colon", thread, 0, compiling.def)
<1>1. thread # <<>>
  <2>1. compiling.code \in Seq(Instruction) /\ <<"exit">> \in Instruction
    BY Instructions DEF TypeOK, ContextType
  <2> QED BY <2>1, AppendProperties
<1> HIDE DEF thread
<1>2. \A c \in Range(comp_stack) : Named(c) => c \in Opened' /\ c.name \in Names
  BY OpenFacts DEF Opened, Named
<1> SUFFICES ASSUME NEW w \in DOMAIN words', words'[w].thread = <<>>, w \notin Hidden'
             PROVE  \E d \in Opened' : /\ Named(d) /\ d.predefined /\ d.def = words'[w].def
                                       /\ Dict'[d.name] = w
  BY DEF Entered, Named
<1>3. ASSUME w \in DOMAIN words, words[w].thread = <<>>, words'[w].def = words[w].def,
             \A v \in DOMAIN words : v \in DOMAIN words' /\ words'[v].hides = words[v].hides,
             ~Named(compiling) \/ Own # w, w # 0,
             \A n \in Names : (n # compiling.name \/ ~Named(compiling)) => Dict'[n] = Dict[n]
      PROVE  \E d \in Opened' : /\ Named(d) /\ d.predefined /\ d.def = words'[w].def
                                /\ Dict'[d.name] = w
  <2>1. PICK c \in Opened : /\ Named(c) /\ c.predefined /\ c.def = words[w].def
                            /\ Dict[c.name] = w
    <3>1. w \notin Hidden
      BY <1>3, HiddenStays
    <3> QED BY <1>3, <3>1 DEF Entered
  <2>2. c \in Range(comp_stack)
    BY <1>3, <2>1 DEF Opened, Own
  <2>3. c.name # compiling.name \/ ~Named(compiling)
    BY <2>1, <2>2 DEF NamesApart, Range
  <2> QED BY <1>2, <1>3, <2>1, <2>2, <2>3
<1>4. CASE compiling.noname /\ words' = Append(words, nameless) /\ wordlists' = wordlists
  <2>1. nameless.thread # <<>>
    BY <1>1, WordFields
  <2> HIDE DEF nameless
  <2>2. Added(nameless) /\ SameLists
    BY <1>4, AddedBy, SameListsBy
  <2>3. /\ w \in DOMAIN words /\ words'[w] = words[w] /\ w # 0
        /\ \A v \in DOMAIN words : v \in DOMAIN words' /\ words'[v].hides = words[v].hides
    BY <2>1, <2>2 DEF Added, NextWid
  <2>4. \A n \in Names : Dict'[n] = Dict[n]
    BY <2>2, DictAfter DEF SameDict
  <2> QED BY <1>3, <1>4, <2>3, <2>4 DEF Named
<1>5. CASE /\ ~compiling.noname /\ wordlists' = wordlists /\ Own # 0
           /\ words' = [words EXCEPT ![Own].thread = thread]
  <2>1. \A n \in Names : Dict'[n] = Dict[n]
    BY <1>5 DEF Dict, Wordlist
  <2>2. SameWords
    BY <1>5, SameWordsBy
  <2>3. /\ w \in DOMAIN words /\ words'[w].def = words[w].def /\ words[w] \in WordType
        /\ w # 0
        /\ \A v \in DOMAIN words : v \in DOMAIN words' /\ words'[v].hides = words[v].hides
    BY <2>2, TypeParts, WordFacts DEF SameWords
  <2>4. CASE w = Own
    <3>1. words'[w] = [words[w] EXCEPT !.thread = thread]
      BY <1>5, <2>3, <2>4
    <3>2. words'[w].thread = thread
      BY <2>3, <3>1 DEF WordType
    <3> QED BY <1>1, <3>2
  <2>5. CASE w # Own
    <3>1. words'[w] = words[w]
      BY <1>5, <2>3, <2>5
    <3> QED BY <1>3, <2>1, <2>3, <2>5, <3>1
  <2> QED BY <2>4, <2>5
<1>6. CASE ~compiling.noname /\ Own = 0 /\ Define(named)
  <2>1. /\ named.name = compiling.name /\ named.thread # <<>> /\ named.home = current_wl
    BY <1>1, WordFields
  <2>2. compiling.name \in Names
    BY <1>6, NamedType
  <2> HIDE DEF named
  <2>3. Added(named) /\ EntersList(compiling.name)
    BY <1>6, <2>1, <2>2, DefineAdds
  <2>4. /\ w \in DOMAIN words /\ words'[w] = words[w] /\ w # 0
        /\ \A v \in DOMAIN words : v \in DOMAIN words' /\ words'[v].hides = words[v].hides
    BY <2>1, <2>3 DEF Added, NextWid
  <2>5. \A n \in Names : n # compiling.name => Dict'[n] = Dict[n]
    BY <2>2, <2>3, DictAfter
  <2>6. Named(compiling)
    BY <1>6 DEF Named
  <2> QED BY <1>3, <1>6, <2>4, <2>5, <2>6
<1> QED BY <1>4, <1>5, <1>6 DEF Finalize, thread

\* Definitions of different names stay so when the innermost keeps its name,
\* when it is put away for one of a new name, and when one ends.
LEMMA NamesApartStays ==
  ASSUME TypeOK, NamesApart,
         \/ comp_stack' = comp_stack /\ (Named(compiling') => compiling'.name = compiling.name
                                                              /\ Named(compiling))
         \/ Opened = {} /\ comp_stack' = comp_stack
         \/ /\ comp_stack' = Append(comp_stack, compiling)
            /\ Named(compiling') => compiling'.name \notin OpenNames
         \/ /\ comp_stack # <<>> /\ compiling' = Last(comp_stack)
            /\ comp_stack' = Front(comp_stack)
  PROVE  NamesApart'
<1>1. CASE comp_stack' = comp_stack /\ (Named(compiling') => compiling'.name = compiling.name
                                                             /\ Named(compiling))
  BY <1>1 DEF NamesApart
<1>2. CASE Opened = {} /\ comp_stack' = comp_stack
  <2>1. \A i \in DOMAIN comp_stack : ~Named(comp_stack[i])
    BY <1>2, OpenFacts
  <2> QED BY <1>2, <2>1 DEF NamesApart
<1>3. CASE /\ comp_stack' = Append(comp_stack, compiling)
           /\ Named(compiling') => compiling'.name \notin OpenNames
  <2>1. /\ \A i \in 1..Len(comp_stack) : comp_stack'[i] = comp_stack[i]
        /\ comp_stack'[Len(comp_stack) + 1] = compiling
        /\ Len(comp_stack') = Len(comp_stack) + 1 /\ comp_stack' \in Seq(ContextType)
    <3>1. comp_stack \in Seq(ContextType) /\ compiling \in ContextType
      BY OpenFacts
    <3> QED BY <1>3, <3>1, AppendProperties
  <2>2. /\ DOMAIN comp_stack = 1..Len(comp_stack) /\ Len(comp_stack) \in Nat
        /\ DOMAIN comp_stack' = 1..(Len(comp_stack) + 1)
    BY <2>1, OpenFacts, LenProperties
  <2>3. \A i \in DOMAIN comp_stack' :
          \/ i \in DOMAIN comp_stack /\ comp_stack'[i] = comp_stack[i]
          \/ i = Len(comp_stack) + 1 /\ i \notin DOMAIN comp_stack /\ comp_stack'[i] = compiling
    BY <2>1, <2>2
  <2>4. \A i \in DOMAIN comp_stack' : Named(comp_stack'[i]) => comp_stack'[i].name \in OpenNames
    BY <2>3, OpenFacts DEF OpenNames
  <2>5. ASSUME NEW i \in DOMAIN comp_stack', NEW j \in DOMAIN comp_stack', i # j,
               Named(comp_stack'[i]), Named(comp_stack'[j])
        PROVE  comp_stack'[i].name # comp_stack'[j].name
    BY <2>3, <2>5 DEF NamesApart
  <2>6. ASSUME NEW i \in DOMAIN comp_stack', Named(comp_stack'[i]), Named(compiling')
        PROVE  comp_stack'[i].name # compiling'.name
    BY <1>3, <2>4, <2>6
  <2> QED BY <2>5, <2>6 DEF NamesApart, Named
<1>4. CASE /\ comp_stack # <<>> /\ compiling' = Last(comp_stack)
           /\ comp_stack' = Front(comp_stack)
  <2>1. /\ compiling' = comp_stack[Len(comp_stack)] /\ Len(comp_stack) \in DOMAIN comp_stack
        /\ DOMAIN comp_stack' = 1..(Len(comp_stack) - 1)
        /\ \A i \in DOMAIN comp_stack' : comp_stack'[i] = comp_stack[i]
    BY <1>4, Popped
  <2>2. \A i \in DOMAIN comp_stack' : i \in DOMAIN comp_stack /\ i # Len(comp_stack)
    <3>1. DOMAIN comp_stack = 1..Len(comp_stack) /\ Len(comp_stack) \in Nat
      BY OpenFacts
    <3>2. \A m \in Nat : \A i \in 1..(m - 1) : i \in 1..m /\ i # m
      OBVIOUS
    <3>3. \A i \in DOMAIN comp_stack' : i \in 1..Len(comp_stack) /\ i # Len(comp_stack)
      BY <2>1, <3>1, <3>2
    <3> QED BY <3>1, <3>3
  <2> QED BY <2>1, <2>2 DEF NamesApart
<1> QED BY <1>1, <1>2, <1>3, <1>4

\* The invariant of the definitions in progress.
Progress == Entered /\ NamesApart

\* Steps that leave the words, and the compilation wordlist, alone.
LEMMA ProgressQuiet ==
  ASSUME TypeOK, Progress, UNCHANGED <<words, wordlists, current_wl>>,
         \/ /\ comp_stack' = comp_stack
            /\ compiling'.name = compiling.name /\ compiling'.noname = compiling.noname
            /\ compiling'.predefined = compiling.predefined /\ compiling'.def = compiling.def
         \/ /\ comp_stack' = Append(comp_stack, compiling)
            /\ Named(compiling') => compiling'.name \notin OpenNames
         \/ Opened = {} /\ comp_stack' = comp_stack
  PROVE  Progress'
<1>1. SameOpen
  BY SameOpenBy
<1>2. Entered'
  BY <1>1, EnteredQuiet DEF Progress
<1>3. NamesApart'
  BY NamesApartStays DEF Progress, Named
<1> QED BY <1>2, <1>3 DEF Progress

\* Text, calls and order words; and the definitions that begin.
LEMMA ProgressText ==
  ASSUME TypeOK, Progress,
         \/ UNCHANGED vars
         \/ Colon \/ ColonNoname \/ RightBracket \/ LeftBracket \/ Execute
         \/ CompileName \/ CompileItem \/ Postpone \/ CompileAssign
         \/ RunPlain \/ RunCall \/ RunPostpone
  PROVE  Progress'
<1>1. UNCHANGED <<words, wordlists, current_wl>> /\ comp_stack' = comp_stack
  BY DEF vars, Colon, ColonNoname, RightBracket, LeftBracket, Execute, CompileName,
     CompileItem, Postpone, CompileAssign, RunPlain, RunCall, RunPostpone, listVars, wordVars,
     openVars
<1>2. CASE Colon \/ ColonNoname
  <2>1. Opened = {}
    BY <1>2 DEF Colon, ColonNoname
  <2> QED BY <1>1, <2>1, ProgressQuiet
<1>3. CASE compiling' = compiling
  BY <1>1, <1>3, ProgressQuiet
<1>4. CASE (\E item : Emit(item)) \/ (\E s : compiling' = [compiling EXCEPT !.state = s])
  <2>1. compiling \in ContextType
    BY DEF TypeOK
  <2>2. /\ compiling'.name = compiling.name /\ compiling'.noname = compiling.noname
        /\ compiling'.predefined = compiling.predefined /\ compiling'.def = compiling.def
    BY <1>4, <2>1 DEF Emit, ContextType
  <2> QED BY <1>1, <2>2, ProgressQuiet
<1>5. \/ Colon \/ ColonNoname \/ compiling' = compiling
      \/ (\E item : Emit(item)) \/ (\E s : compiling' = [compiling EXCEPT !.state = s])
  <2>1. CASE UNCHANGED vars \/ Execute \/ RunPlain \/ RunCall
    BY <2>1 DEF vars, Execute, RunPlain, RunCall, openVars
  <2>2. CASE RightBracket \/ LeftBracket
    BY <2>2 DEF RightBracket, LeftBracket
  <2>3. CASE CompileName
    BY <2>3, Zenon DEF CompileName
  <2>4. CASE CompileItem
    BY <2>4, Zenon DEF CompileItem
  <2>5. CASE Postpone \/ CompileAssign \/ RunPostpone
    BY <2>5, Zenon DEF Postpone, CompileAssign, RunPostpone
  <2>6. CASE Colon \/ ColonNoname
    BY <2>6
  <2> QED BY <2>1, <2>2, <2>3, <2>4, <2>5, <2>6
<1> QED BY <1>2, <1>3, <1>4, <1>5

\* The order words open and fill nothing.
LEMMA ProgressOrder == TypeOK /\ Progress /\ (InterpretOrder \/ RunOrder) => Progress'
<1> SUFFICES ASSUME TypeOK, Progress, InterpretOrder \/ RunOrder PROVE Progress'
  OBVIOUS
<1>1. UNCHANGED <<words, compiling, comp_stack>>
  BY DEF InterpretOrder, RunOrder, wordVars, openVars
<1>2. CASE \E op : Reorder(op)
  <2>1. UNCHANGED <<wordlists, current_wl>>
    BY <1>2 DEF Reorder, listVars
  <2> QED BY <1>1, <2>1, ProgressQuiet
<1>3. CASE \E op : SetCurrent(op)
  <2>1. Opened = {}
    BY <1>3 DEF SetCurrent
  <2>2. \A w \in DOMAIN words : words[w].thread # <<>> \/ w \in Hidden
    BY <2>1, NoneEmpty DEF Progress
  <2>3. Hidden' = Hidden
    BY <1>1 DEF Hidden
  <2> QED BY <1>1, <2>2, <2>3 DEF Progress, Entered, NamesApart
<1> QED BY <1>2, <1>3 DEF InterpretOrder, RunOrder

\* A definition begun by a word that runs is suspended with its owner.
LEMMA ProgressBegin == TypeOK /\ Progress /\ (RunBeginNamed \/ RunBeginNoname) => Progress'
<1> SUFFICES ASSUME TypeOK, Progress, RunBeginNamed \/ RunBeginNoname PROVE Progress'
  OBVIOUS
<1>1. UNCHANGED <<words, wordlists, current_wl>>
  BY DEF RunBeginNamed, RunBeginNoname, listVars, wordVars
<1>2. /\ comp_stack' = Append(comp_stack, compiling)
      /\ Named(compiling') => compiling'.name \notin OpenNames
  <2>1. CASE RunBeginNamed
    <3>1. PICK n \in Names \ OpenNames : Nested(n, FALSE)
      BY <2>1 DEF RunBeginNamed
    <3> QED BY <3>1 DEF Nested, Context
  <2>2. CASE RunBeginNoname
    BY <2>2 DEF RunBeginNoname, Nested, Context, Named
  <2> QED BY <2>1, <2>2
<1> QED BY <1>1, <1>2, ProgressQuiet

\* Words are made, or changed, and no definition is touched.
LEMMA ProgressMake ==
  TypeOK /\ Progress /\ (MakeWordlist \/ Vocabulary \/ Value \/ Defer) => Progress'
<1> SUFFICES ASSUME TypeOK, Progress, MakeWordlist \/ Vocabulary \/ Value \/ Defer
             PROVE Progress'
  OBVIOUS
<1>1. UNCHANGED <<compiling, comp_stack, current_wl>>
  BY DEF MakeWordlist, Vocabulary, Value, Defer, openVars
<1>2. NamesApart'
  BY <1>1 DEF NamesApart, Progress
<1>3. CASE MakeWordlist
  <2>1. words' = words /\ SameLists
    BY <1>3, SameListsBy DEF MakeWordlist, wordVars
  <2>2. SameDict
    BY <1>1, <2>1, DictAfter
  <2>3. SameThreads /\ SameOpen
    BY <1>1, <2>1, SameOpenBy DEF SameThreads
  <2> QED BY <1>2, <2>2, <2>3, EnteredStays DEF Progress
<1>4. CASE Vocabulary \/ Value \/ Defer
  <2>1. \E n, kind, held, item :
          words' = Append(words, Word(n, kind, <<item, <<"exit">>>>, held, defs + 1))
    <3>1. CASE Vocabulary
      BY <3>1, Zenon DEF Vocabulary
    <3>2. CASE Value
      BY <3>2, Zenon DEF Value, Define
    <3>3. CASE Defer
      BY <3>3, Zenon DEF Defer, Define
    <3> QED BY <1>4, <3>1, <3>2, <3>3
  <2>2. PICK n, kind, held, item :
          words' = Append(words, Word(n, kind, <<item, <<"exit">>>>, held, defs + 1))
    BY <2>1
  <2> DEFINE word == Word(n, kind, <<item, <<"exit">>>>, held, defs + 1)
  <2>3. word.thread # <<>>
    <3>1. word.thread = <<item, <<"exit">>>>
      BY WordFields
    <3> HIDE DEF word
    <3> QED BY <3>1
  <2>4. words' = Append(words, word)
    BY <2>2
  <2> HIDE DEF word
  <2>5. Added(word) /\ Opened = {}
    BY <1>4, <2>4, AddedBy DEF Vocabulary, Value, Defer
  <2> QED BY <1>2, <2>3, <2>5, EnteredOutside DEF Progress
<1> QED BY <1>3, <1>4

\* TO, IS, IMMEDIATE and the stores change a word that is there, not its thread.
LEMMA ChangeThreads ==
  TypeOK /\ (Assign \/ Immediate \/ RunStore \/ RunImmediate) => SameThreads
<1> SUFFICES ASSUME TypeOK, Assign \/ Immediate \/ RunStore \/ RunImmediate
             PROVE  SameThreads
  OBVIOUS
<1>1. \E k, v : \/ words' = [words EXCEPT ![k].held = v]
                \/ words' = [words EXCEPT ![k].immediate = v]
  <2>1. CASE Assign
    BY <2>1, Zenon DEF Assign
  <2>2. CASE Immediate \/ RunImmediate
    BY <2>2, Zenon DEF Immediate, RunImmediate
  <2>3. CASE RunStore
    BY <2>3, Zenon DEF RunStore
  <2> QED BY <2>1, <2>2, <2>3
<1>2. PICK k, v : \/ words' = [words EXCEPT ![k].held = v]
                  \/ words' = [words EXCEPT ![k].immediate = v]
  BY <1>1
<1>3. DOMAIN words' = DOMAIN words
  BY <1>2
<1>4. ASSUME NEW w \in DOMAIN words
      PROVE  /\ words'[w].thread = words[w].thread /\ words'[w].def = words[w].def
             /\ words'[w].hides = words[w].hides
  <2>1. words[w] \in WordType
    BY TypeParts, WordFacts
  <2>2. CASE w # k
    <3>1. words'[w] = words[w]
      BY <1>2, <2>2
    <3> QED BY <3>1
  <2>3. CASE w = k
    <3>1. \/ words'[w] = [words[w] EXCEPT !.held = v]
          \/ words'[w] = [words[w] EXCEPT !.immediate = v]
      BY <1>2, <2>3
    <3> QED BY <2>1, <3>1 DEF WordType
  <2> QED BY <2>2, <2>3
<1> QED BY <1>3, <1>4 DEF SameThreads

\* So they leave the words that are entered alone.
LEMMA ProgressChange ==
  TypeOK /\ Progress /\ (Assign \/ Immediate \/ RunStore \/ RunImmediate) => Progress'
<1> SUFFICES ASSUME TypeOK, Progress, Assign \/ Immediate \/ RunStore \/ RunImmediate
             PROVE Progress'
  OBVIOUS
<1>1. UNCHANGED <<wordlists, current_wl, compiling, comp_stack>>
  BY DEF Assign, Immediate, RunStore, RunImmediate, listVars, openVars
<1>2. SameThreads
  BY ChangeThreads
<1>3. SameDict /\ SameOpen
  BY <1>1, SameOpenBy DEF SameDict, Dict, Wordlist
<1>4. NamesApart'
  BY <1>1 DEF NamesApart, Progress
<1> QED BY <1>2, <1>3, <1>4, EnteredStays DEF Progress

\* RECURSIVE and RECURSE leave one unfilled word that none hides, which the
\* definition owns.
LEMMA ProgressRecurse == TypeOK /\ Progress /\ (Recursive \/ Recurse) => Progress'
<1> SUFFICES ASSUME TypeOK, Progress, Recursive \/ Recurse PROVE Progress'
  OBVIOUS
<1>1. /\ compiling.name # NoName /\ ~compiling.noname /\ compiling \in ContextType
      /\ UNCHANGED <<current_wl, comp_stack>>
  BY DEF Recursive, Recurse, TypeOK
<1>2. CASE (\E item : Emit(item)) /\ UNCHANGED <<words, wordlists>>
  <2>1. /\ compiling'.name = compiling.name /\ compiling'.noname = compiling.noname
        /\ compiling'.predefined = compiling.predefined /\ compiling'.def = compiling.def
    BY <1>1, <1>2 DEF Emit, ContextType
  <2> QED BY <1>1, <1>2, <2>1, ProgressQuiet
<1>3. CASE /\ Predefine(Own)
           /\ \E code : compiling' = [compiling EXCEPT !.predefined = TRUE, !.code = code]
  <2>1. /\ compiling'.name = compiling.name /\ compiling'.noname = compiling.noname
        /\ compiling'.def = compiling.def /\ compiling'.predefined
    BY <1>1, <1>3 DEF ContextType
  <2>2. Entered'
    BY <1>1, <1>3, <2>1, EnteredNew DEF Progress
  <2>3. NamesApart'
    BY <1>1, <2>1, NamesApartStays DEF Progress, Named
  <2> QED BY <2>2, <2>3 DEF Progress
<1>4. CASE Recursive
  <2>1. compiling' = [compiling EXCEPT !.predefined = TRUE, !.code = compiling.code]
    BY <1>1, <1>4 DEF Recursive, ContextType
  <2>2. Predefine(Own)
    BY <1>4 DEF Recursive
  <2> QED BY <1>3, <2>1, <2>2
<1>5. CASE Recurse
  <2>1. RecurseWord
    BY <1>5 DEF Recurse
  <2> QED BY <1>2, <1>3, <2>1 DEF RecurseWord
<1> QED BY <1>4, <1>5

\* The end of a definition fills the word it has entered.
LEMMA ProgressEnd == TypeOK /\ Progress /\ (Semicolon \/ RunEndDefinition) => Progress'
<1> SUFFICES ASSUME TypeOK, Progress, Semicolon \/ RunEndDefinition PROVE Progress'
  OBVIOUS
<1>1. compiling.name # NoName /\ Finalize /\ current_wl' = current_wl
      /\ compiling \in ContextType
  BY DEF Semicolon, RunEndDefinition, TypeOK
<1>2. \/ compiling' = Finished /\ comp_stack' = comp_stack
      \/ /\ comp_stack # <<>> /\ compiling' = Last(comp_stack)
         /\ comp_stack' = Front(comp_stack)
  BY DEF Semicolon, RunEndDefinition
<1>3. NamesApart'
  <2>1. compiling' = Finished => ~Named(compiling')
    BY <1>1 DEF Finished, Named, ContextType
  <2> QED BY <1>2, <2>1, NamesApartStays DEF Progress
<1>4. Range(comp_stack) \subseteq {compiling'} \union Range(comp_stack')
  BY <1>2, Popped
<1>5. Entered'
  BY <1>1, <1>4, EnteredEnds DEF Progress
<1> QED BY <1>3, <1>5 DEF Progress

\* Every unfilled word belongs to a definition still being compiled.
LEMMA ProgressInvariant == Spec => []Progress
<1>1. Init => Progress
  BY DEF Init, Progress, Entered, NamesApart
<1>2. TypeOK /\ Progress /\ [Next]_vars => Progress'
  BY ProgressText, ProgressOrder, ProgressBegin, ProgressMake, ProgressChange,
     ProgressRecurse, ProgressEnd DEF Next
<1> QED BY <1>1, <1>2, Typed, PTL DEF Spec

\* A word without a thread is that of a definition in progress, or a RECURSIVE
\* later in its definition has hidden it: `;' fills the newest that RECURSE and
\* RECURSIVE have entered, whatever is opened, closed and named in between.
THEOREM WordsAreFilled == Spec => []WordsFilled
<1>1. Entered => WordsFilled
  BY DEF Entered, WordsFilled, OpenDefs, Range
<1> QED BY <1>1, ProgressInvariant, PTL DEF Progress
-----------------------------------------------------------------------------
(* The tables of TO and IS                                                 *)

\* What the search order finds is the newest word of a wordlist.
LEMMA SearchNewest ==
  ASSUME Found, NEW n \in Names, Search(n) # 0
  PROVE  \E wid \in Nat : Newest(Search(n), WordsOfHome(wid, n))
<1>1. /\ TypeOK /\ wordlists \in Seq([Names -> 0..Len(words)])
      /\ search_order \in Seq(0..(Len(wordlists) - 1))
  BY DEF Found, TypeOK
<1>2. /\ DOMAIN wordlists = 1..Len(wordlists) /\ Len(wordlists) \in Nat
      /\ DOMAIN search_order \subseteq Nat
      /\ \A k \in DOMAIN search_order : search_order[k] \in 0..(Len(wordlists) - 1)
  BY <1>1, LenProperties, ElementOfSeq
<1>3. Hits(n) # {} /\ Search(n) = Wordlist(search_order[Min(Hits(n))])[n]
  BY DEF Search
<1>4. Min(Hits(n)) \in Hits(n)
  <2>1. Hits(n) \subseteq Nat
    BY <1>2 DEF Hits
  <2> QED BY <1>3, <2>1, MinType
<1> DEFINE wid == search_order[Min(Hits(n))]
<1>5. wid \in 0..(Len(wordlists) - 1)
  BY <1>2, <1>4 DEF Hits
<1> HIDE DEF wid
<1>6. wid + 1 \in DOMAIN wordlists /\ wid + 1 - 1 = wid /\ wid \in Nat
  BY <1>2, <1>5
<1>7. Search(n) = wordlists[wid + 1][n]
  BY <1>3 DEF wid, Wordlist
<1>8. Newest(wordlists[wid + 1][n], WordsOfHome(wid + 1 - 1, n))
  BY <1>6, <1>7 DEF Found, WordlistsNewest
<1> QED BY <1>6, <1>7, <1>8

\* Words of one name and kind lie in one wordlist when that is all their homes.
LEMMA OneHome ==
  ASSUME TypeOK, NEW kind, NEW n, Cardinality(Homes(kind, n)) = 1,
         NEW v \in WordsOfKind(kind, n), NEW w \in WordsOfKind(kind, n)
  PROVE  words[v].home = words[w].home
<1>1. words[v].home \in Homes(kind, n) /\ words[w].home \in Homes(kind, n)
  BY DEF Homes, WordsOfKind, Range
<1>2. IsFiniteSet(Homes(kind, n))
  <2>1. Len(wordlists) \in Nat
    <3>1. wordlists \in Seq([Names -> 0..Len(words)])
      BY DEF TypeOK
    <3> QED BY <3>1, LenProperties
  <2>2. \A u \in DOMAIN words : words[u] \in WordType
    BY TypeParts, WordFacts
  <2>3. Homes(kind, n) \subseteq 0..(Len(wordlists) - 1)
    BY <2>2 DEF Homes, Range, WordType
  <2>4. 0 \in Int /\ Len(wordlists) - 1 \in Int
    BY <2>1
  <2>5. IsFiniteSet(0..(Len(wordlists) - 1))
    BY <2>4, FS_Interval
  <2> QED BY <2>3, <2>5, FS_Subset
<1>3. \E x : Homes(kind, n) = {x}
  BY <1>2, FS_Singleton
<1> QED BY <1>1, <1>3

\* TO and IS reach the word the dictionary finds, when it is a VALUE or a DEFER
\* and all those of its name lie in one wordlist.
THEOREM TablesReachWords == Spec => []TablesFindWords
<1>1. Found => TablesFindWords
  <2> SUFFICES ASSUME Found, NEW kind \in {"value", "defer"}, NEW n \in Names,
                      Search(n) # 0, words[Search(n)].kind = kind,
                      Cardinality(Homes(kind, n)) = 1
               PROVE  bound[kind][n] = Search(n)
    BY DEF TablesFindWords
  <2> DEFINE w == Search(n)
             b == bound[kind][n]
  <2>1. PICK wid \in Nat : Newest(w, WordsOfHome(wid, n))
    BY SearchNewest
  <2>2. w \in WordsOfKind(kind, n) /\ words[w].home = wid
    BY <2>1 DEF Newest, WordsOfHome, WordsOfKind
  <2>3. Newest(b, WordsOfKind(kind, n))
    BY <2>2 DEF Found, TablesNewest
  <2>4. words[b].home = wid
    BY <2>2, <2>3, OneHome DEF Found, Newest
  <2>5. b \in WordsOfHome(wid, n)
    BY <2>3, <2>4 DEF Newest, WordsOfHome, WordsOfKind
  <2>6. w <= b /\ b <= w
    BY <2>1, <2>2, <2>3, <2>5 DEF Newest
  <2>7. w \in Nat /\ b \in Nat
    <3>1. DOMAIN words \subseteq Nat
      BY TypeParts, WordFacts DEF Found
    <3> QED BY <2>2, <2>3, <3>1 DEF Newest, WordsOfKind
  <2> QED BY <2>6, <2>7
<1> QED BY <1>1, FoundInvariant, PTL
-----------------------------------------------------------------------------
(* The texts of definitions: the code of the contexts, row by row.         *)

RowOf(c) == [id |-> c.def, name |-> c.name, text |-> c.code]
Rows(v, m) == [k \in 1..(Len(v) - m) |-> RowOf(v[m + k])]

\* Exactly the m lowest contexts are of no definition.
IdleBelow(v, m) ==
  /\ m \in 0..Len(v)
  /\ \A k \in 1..m : v[k].name = NoName
  /\ \A k \in (m + 1)..Len(v) : v[k].name # NoName

\* Idle counts them.
LEMMA IdleIs ==
  ASSUME NEW v, Len(v) \in Nat, DOMAIN v = 1..Len(v), NEW m, IdleBelow(v, m)
  PROVE  Idle(v) = m
<1> DEFINE named == {k \in DOMAIN v : v[k].name # NoName}
<1>1. m \in Nat /\ m <= Len(v)
  BY DEF IdleBelow
<1>2. named = (m + 1)..Len(v)
  <2>1. ASSUME NEW k \in DOMAIN v PROVE k \in named <=> k \in (m + 1)..Len(v)
    <3>1. k \in 1..m \/ k \in (m + 1)..Len(v)
      BY <1>1
    <3>2. k \in 1..m => ~ (k \in (m + 1)..Len(v))
      BY <1>1
    <3> QED BY <3>1, <3>2 DEF IdleBelow
  <2>2. (m + 1)..Len(v) \subseteq DOMAIN v /\ named \subseteq DOMAIN v
    BY <1>1
  <2> HIDE DEF named
  <2> QED BY <2>1, <2>2
<1>3. CASE named = {}
  <2>1. ~ (m + 1 <= Len(v))
    <3>1. m + 1 <= Len(v) => m + 1 \in (m + 1)..Len(v)
      BY <1>1
    <3> QED BY <1>2, <1>3, <3>1
  <2>2. m = Len(v)
    <3>1. \A a, b \in Nat : a <= b /\ ~ (a + 1 <= b) => a = b
      OBVIOUS
    <3> QED BY <1>1, <2>1, <3>1
  <2> QED BY <1>3, <2>2 DEF Idle
<1>4. CASE named # {}
  <2>1. named \in SUBSET Nat
    BY <1>1, <1>2
  <2> HIDE DEF named
  <2>2. Min(named) \in named /\ \A k \in named : Min(named) <= k
    BY <1>4, <2>1, MinType
  <2>3. m + 1 \in named
    BY <1>1, <1>2, <1>4
  <2>4. Min(named) = m + 1
    BY <1>1, <1>2, <2>2, <2>3
  <2>5. Min(named) - 1 = m
    BY <1>1, <2>4
  <2> QED BY <1>4, <2>5 DEF Idle, named
<1> QED BY <1>3, <1>4

\* The open definitions are the rows above the idle contexts.
LEMMA OpenTextsIs ==
  ASSUME NEW m
  PROVE  Idle(Contexts) = m => OpenTexts = Rows(Contexts, m)
BY DEF OpenTexts, Rows, RowOf

\* And those of the next state.
LEMMA OpenTextsNext ==
  ASSUME NEW m
  PROVE  Idle(Contexts') = m => OpenTexts' = Rows(Contexts', m)
BY DEF OpenTexts, Rows, RowOf, Contexts

\* No word is taken away or given to another definition.
DefsKept == \A w \in DOMAIN words : w \in DOMAIN words' /\ words'[w].def = words[w].def
-----------------------------------------------------------------------------
(* Rows of texts                                                           *)

\* How long the rows are and what is in them.
LEMMA RowsSeq ==
  ASSUME NEW v, Len(v) \in Nat, NEW m \in 0..Len(v)
  PROVE  /\ Rows(v, m) \in Seq(Range(Rows(v, m)))
         /\ Len(Rows(v, m)) = Len(v) - m /\ Len(v) - m \in Nat
         /\ \A k \in 1..(Len(v) - m) : Rows(v, m)[k] = RowOf(v[m + k])
<1> DEFINE n == Len(v) - m
           e(k) == RowOf(v[m + k])
           r == Rows(v, m)
           T == Range(r)
<1>1. n \in Nat
  OBVIOUS
<1>2. r = [k \in 1..n |-> e(k)]
  BY DEF Rows
<1> HIDE DEF n, e, r
<1>3. \A k \in 1..n : e(k) \in T /\ r[k] = e(k)
  BY <1>2 DEF Range
<1> HIDE DEF T
<1>4. [k \in 1..n |-> e(k)] \in Seq(T)
  BY <1>1, <1>3, IsASeq
<1>5. r \in Seq(T)
  BY <1>2, <1>4
<1>6. DOMAIN r = 1..n /\ DOMAIN r = 1..Len(r) /\ Len(r) \in Nat
  BY <1>2, <1>5, LenProperties
<1>7. Len(r) = n
  BY <1>1, <1>6
<1> QED BY <1>1, <1>3, <1>5, <1>7 DEF n, e, r, T

\* A row with one element more, with one less, and with another last.
LEMMA MoreIs ==
  ASSUME NEW S, NEW T, NEW o \in Seq(S), NEW p \in Seq(T), Len(p) = Len(o) + 1,
         \A k \in 1..Len(o) : p[k] = o[k]
  PROVE  /\ p = Append(o, p[Len(p)]) /\ Last(p) = p[Len(p)] /\ p # <<>>
         /\ o = Front(p)
<1> DEFINE U == S \union T
           n == Len(o)
<1>1. n \in Nat /\ o \in Seq(U) /\ p \in Seq(U) /\ Len(p) = n + 1
  BY LenProperties, SeqMonotonic
<1>2. \A k \in 1..n : p[k] = o[k]
  OBVIOUS
<1> HIDE DEF n, U
<1>3. n + 1 \in 1..(n + 1) /\ n \in Int /\ \A k \in 1..n : k \in 1..(n + 1)
  BY <1>1
<1>4. \A k \in 1..(n + 1) : p[k] \in U
  BY <1>1, ElementOfSeq
<1> DEFINE a == Append(o, p[n + 1])
<1>5. /\ a \in Seq(U) /\ Len(a) = Len(o) + 1 /\ a[Len(o) + 1] = p[n + 1]
      /\ \A k \in 1..Len(o) : a[k] = o[k]
  BY <1>1, <1>3, <1>4, AppendProperties
<1> HIDE DEF a
<1>6. \A k \in 1..(n + 1) : a[k] = p[k]
  BY <1>1, <1>2, <1>5 DEF n
<1>7. a = p
  BY <1>1, <1>5, <1>6, SeqEqual DEF n
<1>8. Front(p) = SubSeq(p, 1, n)
  <2>1. Len(p) - 1 = n
    BY <1>1
  <2> QED BY <2>1 DEF Front
<1> DEFINE f == SubSeq(p, 1, n)
<1>9. /\ f \in Seq(U) /\ Len(f) = IF 1 <= n THEN n - 1 + 1 ELSE 0
      /\ \A k \in 1..(n - 1 + 1) : f[k] = p[1 + k - 1]
  BY <1>3, <1>4, SubSeqProperties
<1> HIDE DEF f
<1>10. Len(f) = n /\ \A k \in 1..n : f[k] = p[k]
  BY <1>1, <1>9
<1>11. o = f
  BY <1>1, <1>2, <1>9, <1>10, SeqEqual DEF n
<1>12. p # <<>>
  BY <1>1, EmptySeq
<1> QED BY <1>1, <1>7, <1>8, <1>11, <1>12 DEF a, n, f, Last

\* Two of one length that differ in the last alone.
LEMMA FrontsAgree ==
  ASSUME NEW S, NEW T, NEW o \in Seq(S), NEW p \in Seq(T), Len(p) = Len(o), o # <<>>,
         \A k \in 1..Len(o) : k # Len(o) => p[k] = o[k]
  PROVE  /\ Front(p) = Front(o) /\ Last(o) = o[Len(o)] /\ Last(p) = p[Len(o)]
<1> DEFINE n == Len(o) - 1
<1>1. Len(o) \in Nat \ {0}
  BY EmptySeq, LenProperties
<1>2. n \in Nat /\ n \in Int /\ Len(o) = n + 1 /\ Len(p) = n + 1
  BY <1>1
<1>3. Front(o) = SubSeq(o, 1, n) /\ Front(p) = SubSeq(p, 1, n)
  BY <1>2 DEF Front
<1> HIDE DEF n
<1>4. \A k \in 1..n : k \in 1..Len(o) /\ k \in 1..Len(p) /\ k # Len(o)
  BY <1>2
<1>5. \A k \in 1..n : o[k] \in S \union T /\ p[k] \in S \union T /\ o[k] = p[k]
  BY <1>4, ElementOfSeq
<1>6. /\ SubSeq(o, 1, n) \in Seq(S \union T) /\ SubSeq(p, 1, n) \in Seq(S \union T)
      /\ Len(SubSeq(o, 1, n)) = IF 1 <= n THEN n - 1 + 1 ELSE 0
      /\ Len(SubSeq(p, 1, n)) = IF 1 <= n THEN n - 1 + 1 ELSE 0
      /\ \A k \in 1..(n - 1 + 1) : SubSeq(o, 1, n)[k] = o[1 + k - 1]
      /\ \A k \in 1..(n - 1 + 1) : SubSeq(p, 1, n)[k] = p[1 + k - 1]
  BY <1>2, <1>5, SubSeqProperties
<1> DEFINE f == SubSeq(o, 1, n)
           g == SubSeq(p, 1, n)
<1> HIDE DEF f, g
<1>7. Len(f) = n /\ Len(g) = n /\ \A k \in 1..n : f[k] = o[k] /\ g[k] = p[k]
  BY <1>2, <1>6 DEF f, g
<1>8. f = g
  BY <1>5, <1>6, <1>7, SeqEqual DEF f, g
<1> QED BY <1>3, <1>8 DEF f, g, Last
-----------------------------------------------------------------------------
(* The contexts of a state, and of the next                                *)

\* Contexts put away, and the one in progress on top of them.
LEMMA StackFacts ==
  ASSUME NEW S, NEW stack \in Seq(S), NEW top \in S
  PROVE  LET v == Append(stack, top)
         IN  /\ v \in Seq(S) /\ Len(v) = Len(stack) + 1 /\ Len(v) \in Nat
             /\ DOMAIN v = 1..Len(v) /\ v[Len(v)] = top /\ Len(v) \in DOMAIN v
             /\ \A k \in 1..Len(stack) : v[k] = stack[k]
             /\ {top} \union Range(stack) = {v[k] : k \in DOMAIN v}
<1> DEFINE v == Append(stack, top)
           n == Len(stack)
<1>1. n \in Nat /\ DOMAIN stack = 1..n
  BY LenProperties
<1>2. /\ v \in Seq(S) /\ Len(v) = n + 1 /\ v[n + 1] = top
      /\ \A k \in 1..n : v[k] = stack[k]
  BY AppendProperties
<1>3. DOMAIN v = 1..(n + 1)
  BY <1>2, LenProperties
<1> HIDE DEF v, n
<1>4. 1..(n + 1) = 1..n \union {n + 1} /\ n + 1 \in Nat /\ n + 1 \in 1..(n + 1)
  BY <1>1
<1>5. {top} \union Range(stack) = {v[k] : k \in DOMAIN v}
  BY <1>1, <1>2, <1>3, <1>4 DEF Range
<1> QED BY <1>2, <1>3, <1>4, <1>5 DEF v, n

\* What the contexts are now.
LEMMA ContextsFacts ==
  ASSUME TypeOK
  PROVE  /\ Contexts \in Seq(ContextType) /\ Len(Contexts) = Len(comp_stack) + 1
         /\ Len(Contexts) \in Nat /\ DOMAIN Contexts = 1..Len(Contexts)
         /\ Contexts[Len(Contexts)] = compiling /\ Len(Contexts) \in DOMAIN Contexts
         /\ \A k \in 1..Len(comp_stack) : Contexts[k] = comp_stack[k]
         /\ {compiling} \union Range(comp_stack) = {Contexts[k] : k \in DOMAIN Contexts}
         /\ \A k \in DOMAIN Contexts :
              /\ Contexts[k] \in ContextType /\ Contexts[k].code \in Seq(Instruction)
              /\ Contexts[k].def \in Nat
              /\ Named(Contexts[k]) => Contexts[k].name \in Names
<1>1. comp_stack \in Seq(ContextType) /\ compiling \in ContextType
  BY OpenFacts
<1>2. /\ Contexts \in Seq(ContextType) /\ Len(Contexts) = Len(comp_stack) + 1
      /\ Len(Contexts) \in Nat /\ DOMAIN Contexts = 1..Len(Contexts)
      /\ Contexts[Len(Contexts)] = compiling /\ Len(Contexts) \in DOMAIN Contexts
      /\ \A k \in 1..Len(comp_stack) : Contexts[k] = comp_stack[k]
      /\ {compiling} \union Range(comp_stack) = {Contexts[k] : k \in DOMAIN Contexts}
  BY <1>1, StackFacts DEF Contexts
<1>3. ASSUME NEW k \in DOMAIN Contexts
      PROVE  /\ Contexts[k] \in ContextType /\ Contexts[k].code \in Seq(Instruction)
             /\ Contexts[k].def \in Nat
             /\ Named(Contexts[k]) => Contexts[k].name \in Names
  <2>1. Contexts[k] \in ContextType /\ (Named(Contexts[k]) => Contexts[k].name \in Names)
    BY <1>2, OpenFacts
  <2> QED BY <2>1 DEF ContextType
<1> QED BY <1>2, <1>3

\* The definitions that are open in a row of contexts; those of a list of words.
OpenOf(v) == {v[k].def : k \in {j \in DOMAIN v : v[j].name # NoName}}
DefsOf(ws) == {ws[w].def : w \in DOMAIN ws}

\* The definitions that have become words: they have one and are not open.
LEMMA MadeDefsIs == TypeOK => MadeDefs = DefsOf(words) \ OpenOf(Contexts)
<1> SUFFICES ASSUME TypeOK PROVE MadeDefs = DefsOf(words) \ OpenOf(Contexts)
  OBVIOUS
<1>1. Opened = {Contexts[k] : k \in {j \in DOMAIN Contexts : Contexts[j].name # NoName}}
  BY ContextsFacts DEF Opened
<1>2. OpenDefs = OpenOf(Contexts)
  BY <1>1 DEF OpenDefs, OpenOf
<1> QED BY <1>2 DEF MadeDefs, DefsOf, Range

\* And in the next state.
LEMMA MadeDefsNext ==
  ASSUME NEW S, comp_stack' \in Seq(S), compiling' \in S
  PROVE  MadeDefs' = DefsOf(words') \ OpenOf(Contexts')
<1>1. {compiling'} \union Range(comp_stack') = {Contexts'[k] : k \in DOMAIN Contexts'}
  <2> DEFINE v == Append(comp_stack', compiling')
  <2>1. {compiling'} \union Range(comp_stack') = {v[k] : k \in DOMAIN v}
    BY StackFacts
  <2> QED BY <2>1 DEF Contexts
<1>2. Opened' = {Contexts'[k] : k \in {j \in DOMAIN Contexts' : Contexts'[j].name # NoName}}
  BY <1>1 DEF Opened
<1>3. OpenDefs' = OpenOf(Contexts')
  BY <1>2 DEF OpenDefs, OpenOf
<1> QED BY <1>3 DEF MadeDefs, DefsOf, Range

\* How a step moves the contexts: the innermost changes, one is put upon it,
\* or it is taken off.
Topped ==
  /\ Len(Contexts') = Len(Contexts)
  /\ \A k \in 1..Len(Contexts) : k # Len(Contexts) => Contexts'[k] = Contexts[k]
Pushed ==
  /\ Len(Contexts') = Len(Contexts) + 1
  /\ \A k \in 1..Len(Contexts) : Contexts'[k] = Contexts[k]
Shortened ==
  /\ Len(Contexts') = Len(Contexts) - 1 /\ Len(Contexts') >= 1
  /\ \A k \in 1..Len(Contexts') : Contexts'[k] = Contexts[k]

\* The last of the next contexts, and where they are.
NextContexts ==
  /\ Len(Contexts') \in Nat /\ DOMAIN Contexts' = 1..Len(Contexts')
  /\ Contexts'[Len(Contexts')] = compiling' /\ Len(Contexts') \in DOMAIN Contexts'
  /\ MadeDefs' = DefsOf(words') \ OpenOf(Contexts')

\* No context is put away or taken back.
LEMMA ToppedBy == TypeOK /\ comp_stack' = comp_stack => Topped /\ NextContexts
<1> SUFFICES ASSUME TypeOK, comp_stack' = comp_stack PROVE Topped /\ NextContexts
  OBVIOUS
<1> DEFINE S == ContextType \union {compiling'}
           v == Append(comp_stack', compiling')
<1>1. comp_stack' \in Seq(S) /\ compiling' \in S
  BY OpenFacts, SeqMonotonic
<1>2. MadeDefs' = DefsOf(words') \ OpenOf(Contexts')
  BY <1>1, MadeDefsNext
<1> HIDE DEF S
<1>3. /\ Len(v) = Len(comp_stack') + 1 /\ Len(v) \in Nat
      /\ DOMAIN v = 1..Len(v) /\ v[Len(v)] = compiling' /\ Len(v) \in DOMAIN v
      /\ \A k \in 1..Len(comp_stack') : v[k] = comp_stack'[k]
  BY <1>1, StackFacts
<1>4. Contexts' = v
  BY DEF Contexts
<1> HIDE DEF v
<1>5. NextContexts
  BY <1>2, <1>3, <1>4 DEF NextContexts
<1>6. /\ Len(Contexts) = Len(comp_stack) + 1 /\ Len(comp_stack) \in Nat
      /\ \A k \in 1..Len(comp_stack) : Contexts[k] = comp_stack[k]
  BY ContextsFacts, OpenFacts
<1>7. \A k \in 1..Len(Contexts) : k # Len(Contexts) => k \in 1..Len(comp_stack)
  BY <1>6
<1> QED BY <1>3, <1>4, <1>5, <1>6, <1>7 DEF Topped

\* The one in progress is put away.
LEMMA PushedBy == TypeOK /\ comp_stack' = Append(comp_stack, compiling) => Pushed /\ NextContexts
<1> SUFFICES ASSUME TypeOK, comp_stack' = Append(comp_stack, compiling)
             PROVE  Pushed /\ NextContexts
  OBVIOUS
<1> DEFINE S == ContextType \union {compiling'}
           v == Append(comp_stack', compiling')
<1>1. comp_stack' = Contexts
  BY DEF Contexts
<1>2. comp_stack' \in Seq(S) /\ compiling' \in S
  BY <1>1, ContextsFacts, SeqMonotonic
<1>3. MadeDefs' = DefsOf(words') \ OpenOf(Contexts')
  BY <1>2, MadeDefsNext
<1> HIDE DEF S
<1>4. /\ Len(v) = Len(comp_stack') + 1 /\ Len(v) \in Nat
      /\ DOMAIN v = 1..Len(v) /\ v[Len(v)] = compiling' /\ Len(v) \in DOMAIN v
      /\ \A k \in 1..Len(comp_stack') : v[k] = comp_stack'[k]
  BY <1>2, StackFacts
<1>5. Contexts' = v
  BY DEF Contexts
<1> HIDE DEF v
<1> QED BY <1>1, <1>3, <1>4, <1>5 DEF NextContexts, Pushed

\* The last that was put away goes on.
LEMMA ShortenedBy ==
  TypeOK /\ comp_stack # <<>> /\ compiling' = Last(comp_stack) /\ comp_stack' = Front(comp_stack)
    => Shortened /\ NextContexts
<1> SUFFICES ASSUME TypeOK, comp_stack # <<>>, compiling' = Last(comp_stack),
                    comp_stack' = Front(comp_stack)
             PROVE  Shortened /\ NextContexts
  OBVIOUS
<1> DEFINE n == Len(comp_stack) - 1
           v == Append(comp_stack', compiling')
<1>1. /\ comp_stack \in Seq(ContextType) /\ Len(comp_stack) \in Nat \ {0}
      /\ \A i \in 1..Len(comp_stack) : comp_stack[i] \in ContextType
  BY OpenFacts, EmptySeq
<1>2. n \in Nat /\ n \in Int /\ Len(comp_stack) = n + 1 /\ n + 1 \in 1..(n + 1)
  BY <1>1
<1>3. compiling' = comp_stack[n + 1] /\ compiling' \in ContextType
  BY <1>1, <1>2 DEF Last
<1>4. comp_stack' = SubSeq(comp_stack, 1, n)
  BY <1>2 DEF Front
<1> HIDE DEF n
<1>5. \A i \in 1..n : comp_stack[i] \in ContextType
  BY <1>1, <1>2
<1>6. /\ comp_stack' \in Seq(ContextType)
      /\ Len(comp_stack') = IF 1 <= n THEN n - 1 + 1 ELSE 0
      /\ \A i \in 1..(n - 1 + 1) : comp_stack'[i] = comp_stack[1 + i - 1]
  BY <1>2, <1>4, <1>5, SubSeqProperties
<1>7. Len(comp_stack') = n /\ \A i \in 1..n : comp_stack'[i] = comp_stack[i]
  BY <1>2, <1>6
<1>8. MadeDefs' = DefsOf(words') \ OpenOf(Contexts')
  BY <1>3, <1>6, MadeDefsNext
<1>9. /\ Len(v) = Len(comp_stack') + 1 /\ Len(v) \in Nat
      /\ DOMAIN v = 1..Len(v) /\ v[Len(v)] = compiling' /\ Len(v) \in DOMAIN v
      /\ \A k \in 1..Len(comp_stack') : v[k] = comp_stack'[k]
  BY <1>3, <1>6, StackFacts
<1>10. Contexts' = v
  BY DEF Contexts
<1> HIDE DEF v
<1>11. NextContexts
  BY <1>8, <1>9, <1>10 DEF NextContexts
<1>12. /\ Len(Contexts) = n + 1 + 1
       /\ \A k \in 1..(n + 1) : Contexts[k] = comp_stack[k]
  BY <1>2, ContextsFacts
<1>13. Len(Contexts') = n + 1
  BY <1>7, <1>9, <1>10
<1>14. \A k \in 1..(n + 1) : Contexts'[k] = comp_stack[k]
  <2>1. \A k \in 1..(n + 1) : k \in 1..n \/ k = n + 1
    BY <1>2
  <2> QED BY <1>3, <1>7, <1>9, <1>10, <1>13, <2>1
<1>15. Len(Contexts') = Len(Contexts) - 1 /\ Len(Contexts') >= 1
  BY <1>2, <1>12, <1>13
<1> QED BY <1>11, <1>12, <1>13, <1>14, <1>15 DEF Shortened
-----------------------------------------------------------------------------
(* Definitions have numbers of their own                                   *)

\* A definition has at most one word with a thread, however many RECURSIVE has
\* entered for it.
Distinct(ws) ==
  \A u, w \in DOMAIN ws :
    ws[u].def = ws[w].def /\ ws[u].thread # <<>> /\ ws[w].thread # <<>> => u = w

\* A word and a definition are told by their numbers, which only grow.
Numbered ==
  /\ Distinct(words)
  /\ \A w \in DOMAIN words : words[w].def <= defs
  /\ \A k \in DOMAIN Contexts : Contexts[k].def <= defs
  /\ \A j, k \in DOMAIN Contexts :
       j # k /\ Contexts[j].name # NoName /\ Contexts[k].name # NoName
         => Contexts[j].def # Contexts[k].def

\* A definition in progress has words only when RECURSE or RECURSIVE has entered
\* them, and then they are empty and the compilation wordlist finds one of them.
OwnsWord(ws, dict, c) ==
  /\ \A w \in DOMAIN ws : ws[w].def = c.def => Named(c) /\ c.predefined /\ ws[w].thread = <<>>
  /\ Named(c) /\ c.predefined =>
       dict[c.name] \in DOMAIN ws /\ ws[dict[c.name]].def = c.def
Owned ==
  \A k \in DOMAIN Contexts : Contexts[k].name # NoName => OwnsWord(words, Dict, Contexts[k])

\* The contexts of no definition lie below the others.
Settled == \E m : IdleBelow(Contexts, m)

\* A definition that has words and is in progress no more has one with a thread.
FilledOf(ws) == DefsOf([w \in {u \in DOMAIN ws : ws[u].thread # <<>>} |-> ws[w]])
Became == DefsOf(words) \subseteq OpenOf(Contexts) \union FilledOf(words)
Nestled == Numbered /\ Owned /\ Settled /\ Became

\* What the definitions with a full word are.
LEMMA FilledIs ==
  ASSUME NEW ws, NEW d
  PROVE  d \in FilledOf(ws) <=> \E w \in DOMAIN ws : ws[w].thread # <<>> /\ ws[w].def = d
BY DEF FilledOf, DefsOf

\* It has it still.
LEMMA BecameStays ==
  ASSUME Became, NEW set,
         DefsOf(words') \subseteq DefsOf(words) \union set,
         OpenOf(Contexts) \subseteq OpenOf(Contexts') \union set,
         set \subseteq OpenOf(Contexts') \union FilledOf(words'),
         FilledOf(words) \subseteq FilledOf(words')
  PROVE  Became'
BY DEF Became

\* A definition owns its word, or none, while others come and go.
LEMMA OwnsKept ==
  ASSUME NEW ws, NEW us, NEW dict, NEW book, NEW c, NEW d, OwnsWord(ws, dict, c),
         d.name = c.name, d.noname = c.noname, d.predefined = c.predefined, d.def = c.def,
         \A w \in DOMAIN ws : w \in DOMAIN us /\ us[w].def = ws[w].def,
         \A w \in DOMAIN ws : ws[w].def = c.def => us[w].thread = ws[w].thread,
         \A w \in DOMAIN us : w \notin DOMAIN ws => us[w].def # c.def,
         Named(c) => book[c.name] = dict[c.name]
  PROVE  OwnsWord(us, book, d)
<1>1. Named(d) <=> Named(c)
  BY DEF Named
<1>2. ASSUME NEW w \in DOMAIN us, us[w].def = d.def
      PROVE  Named(d) /\ d.predefined /\ us[w].thread = <<>>
  BY <1>1, <1>2 DEF OwnsWord
<1>3. ASSUME Named(d), d.predefined
      PROVE  book[d.name] \in DOMAIN us /\ us[book[d.name]].def = d.def
  BY <1>1, <1>3 DEF OwnsWord
<1> QED BY <1>2, <1>3 DEF OwnsWord

\* Contexts that are idle as before.
LEMMA IdleStays ==
  ASSUME NEW v, NEW w, NEW m, Len(v) \in Nat \ {0}, IdleBelow(v, m), Len(w) = Len(v),
         \A k \in 1..Len(v) : k # Len(v) => w[k] = v[k],
         w[Len(v)].name = NoName <=> v[Len(v)].name = NoName
  PROVE  IdleBelow(w, m)
<1>1. \A k \in 1..Len(v) : w[k].name = NoName <=> v[k].name = NoName
  OBVIOUS
<1>2. m \in 0..Len(v)
  BY DEF IdleBelow
<1>3. (\A k \in 1..m : k \in 1..Len(v)) /\ (\A k \in (m + 1)..Len(v) : k \in 1..Len(v))
  BY <1>2
<1> QED BY <1>1, <1>2, <1>3 DEF IdleBelow

\* The innermost definition is compiled to, or the words are changed, and no
\* definition begins or ends.
LEMMA NestledStays ==
  ASSUME TypeOK, Nestled, Topped, NextContexts,
         compiling'.name = compiling.name, compiling'.noname = compiling.noname,
         compiling'.predefined = compiling.predefined, compiling'.def = compiling.def,
         SameThreads, defs' = defs, SameDict \/ Opened = {}
  PROVE  Nestled'
<1> DEFINE v == Contexts
           x == Contexts'
           n == Len(Contexts)
<1>1. /\ Len(v) = n /\ n \in Nat \ {0} /\ DOMAIN v = 1..n /\ v[n] = compiling /\ n \in 1..n
      /\ \A k \in 1..n : Named(v[k]) => v[k].name \in Names
      /\ \A k \in 1..n : v[k].name # NoName => v[k] \in Opened
  <2>1. Len(v) = Len(comp_stack) + 1 /\ Len(comp_stack) \in Nat
    BY ContextsFacts, OpenFacts
  <2> QED BY <2>1, ContextsFacts DEF Opened
<1>2. /\ Len(x) = n /\ DOMAIN x = 1..n /\ x[n] = compiling'
      /\ \A k \in 1..n : k # n => x[k] = v[k]
  BY DEF Topped, NextContexts
<1> HIDE DEF v, x, n
<1>3. \A k \in 1..n : /\ x[k].name = v[k].name /\ x[k].noname = v[k].noname
                      /\ x[k].predefined = v[k].predefined /\ x[k].def = v[k].def
  BY <1>1, <1>2
<1>4. Numbered'
  <2>1. Distinct(words')
    BY DEF SameThreads, Distinct, Nestled, Numbered
  <2>2. \A w \in DOMAIN words' : words'[w].def <= defs'
    BY DEF SameThreads, Nestled, Numbered
  <2>3. \A k \in DOMAIN x : x[k].def <= defs'
    BY <1>1, <1>2, <1>3 DEF Nestled, Numbered, v
  <2>4. \A j, k \in DOMAIN x :
          j # k /\ x[j].name # NoName /\ x[k].name # NoName => x[j].def # x[k].def
    BY <1>1, <1>2, <1>3 DEF Nestled, Numbered, v
  <2> QED BY <2>1, <2>2, <2>3, <2>4 DEF Numbered, x
<1>5. Owned'
  <2> SUFFICES ASSUME NEW k \in DOMAIN x, x[k].name # NoName
               PROVE  OwnsWord(words', Dict', x[k])
    BY DEF Owned, x
  <2>1. k \in 1..n /\ v[k].name # NoName /\ v[k] \in Opened /\ OwnsWord(words, Dict, v[k])
    BY <1>1, <1>2, <1>3 DEF Nestled, Owned, v
  <2>2. Named(v[k]) => Dict'[v[k].name] = Dict[v[k].name]
    BY <1>1, <2>1 DEF SameDict
  <2> QED BY <1>3, <2>1, <2>2, OwnsKept DEF SameThreads
<1>6. Settled'
  <2>1. PICK m : IdleBelow(v, m)
    BY DEF Nestled, Settled, v
  <2>2. IdleBelow(x, m)
    BY <1>1, <1>2, <1>3, <2>1, IdleStays
  <2> QED BY <2>2 DEF Settled, x
<1>7. Became'
  <2>1. OpenOf(x) = OpenOf(v)
    BY <1>1, <1>2, <1>3 DEF OpenOf
  <2>2. DefsOf(words') = DefsOf(words)
    BY DEF SameThreads, DefsOf
  <2>3. FilledOf(words) \subseteq FilledOf(words')
    BY FilledIs DEF SameThreads
  <2> QED BY <2>1, <2>2, <2>3, BecameStays DEF Nestled, v, x
<1> QED BY <1>4, <1>5, <1>6, <1>7 DEF Nestled

\* The fields of a context that begins.
LEMMA ContextFields ==
  ASSUME NEW name, NEW noname
  PROVE  LET c == Context(name, noname)
         IN  /\ c.name = name /\ c.noname = noname /\ ~c.predefined /\ c.def = defs + 1
             /\ c.code = <<>>
BY DEF Context

\* A definition begins, where none was in progress or on top of the others.
LEMMA NestledOpens ==
  ASSUME TypeOK, Nestled, UNCHANGED <<words, wordlists, current_wl>>, defs' = defs + 1,
         NEW name, NEW noname, compiling' = Context(name, noname), name # NoName,
         (Opened = {} /\ Topped) \/ Pushed, NextContexts
  PROVE  Nestled'
<1> DEFINE v == Contexts
           x == Contexts'
           n == Len(Contexts)
           l == Len(Contexts')
<1>1. /\ Len(v) = n /\ n \in Nat \ {0} /\ DOMAIN v = 1..n /\ n \in 1..n
      /\ \A k \in 1..n : v[k].name # NoName => v[k] \in Opened
      /\ \A k \in 1..n : v[k].def \in Nat
  <2>1. Len(v) = Len(comp_stack) + 1 /\ Len(comp_stack) \in Nat
    BY ContextsFacts, OpenFacts
  <2> QED BY <2>1, ContextsFacts DEF Opened
<1>2. /\ Len(x) = l /\ DOMAIN x = 1..l /\ x[l] = compiling' /\ l \in Nat /\ l \in 1..l
      /\ (l = n /\ Opened = {} /\ \A k \in 1..n : k # n => x[k] = v[k])
         \/ (l = n + 1 /\ \A k \in 1..n : x[k] = v[k])
  BY DEF Topped, Pushed, NextContexts
<1>3. /\ compiling'.name # NoName /\ ~compiling'.predefined /\ compiling'.def = defs + 1
  BY ContextFields
<1>4. defs \in Nat /\ \A w \in DOMAIN words : words[w].def \in Nat
  BY TypeParts, WordFacts DEF OpenTyped
<1>5. SameDict
  BY DEF SameDict, Dict, Wordlist
<1> HIDE DEF v, x, n, l
<1>6. \A k \in 1..l : k # l => k \in 1..n /\ x[k] = v[k]
  <2>1. CASE l = n
    BY <1>1, <1>2, <2>1
  <2>2. CASE l = n + 1
    <3>1. \A k \in 1..l : k # l => k \in 1..n
      BY <1>1, <2>2
    <3> QED BY <1>1, <1>2, <2>2, <3>1
  <2> QED BY <1>2, <2>1, <2>2
<1>7. /\ \A w \in DOMAIN words : words[w].def <= defs
      /\ \A k \in 1..n : v[k].def <= defs
      /\ Distinct(words)
      /\ \A j, k \in 1..n :
           j # k /\ v[j].name # NoName /\ v[k].name # NoName => v[j].def # v[k].def
  BY <1>1 DEF Nestled, Numbered, v
<1>8. /\ \A w \in DOMAIN words : words[w].def # defs + 1 /\ words[w].def <= defs + 1
      /\ \A k \in 1..n : v[k].def # defs + 1 /\ v[k].def <= defs + 1
  <2>1. \A d \in Nat : d <= defs => d # defs + 1 /\ d <= defs + 1
    BY <1>4
  <2> QED BY <1>1, <1>4, <1>7, <2>1
<1>9. Numbered'
  <2>1. Distinct(words')
    BY <1>7
  <2>2. \A w \in DOMAIN words' : words'[w].def <= defs'
    BY <1>8
  <2>3. \A k \in DOMAIN x : x[k].def <= defs'
    <3>1. ASSUME NEW k \in 1..l PROVE x[k].def <= defs'
      <4>1. CASE k = l
        BY <1>2, <1>3, <1>4, <4>1
      <4>2. CASE k # l
        BY <1>6, <1>8, <4>2
      <4> QED BY <4>1, <4>2
    <3> QED BY <1>2, <3>1
  <2>4. ASSUME NEW j \in DOMAIN x, NEW k \in DOMAIN x, j # k, x[j].name # NoName,
               x[k].name # NoName
        PROVE  x[j].def # x[k].def
    BY <1>2, <1>3, <1>6, <1>7, <1>8, <2>4
  <2> QED BY <2>1, <2>2, <2>3, <2>4 DEF Numbered, x
<1>10. Owned'
  <2> SUFFICES ASSUME NEW k \in DOMAIN x, x[k].name # NoName
               PROVE  OwnsWord(words', Dict', x[k])
    BY DEF Owned, x
  <2>1. CASE k = l
    <3>1. x[k].def = defs + 1 /\ ~x[k].predefined
      BY <1>2, <1>3, <2>1
    <3>2. \A w \in DOMAIN words' : words'[w].def # defs + 1
      BY <1>8
    <3> QED BY <3>1, <3>2 DEF OwnsWord
  <2>2. CASE k # l
    <3>1. k \in 1..n /\ x[k] = v[k]
      BY <1>2, <1>6, <2>2
    <3>2. OwnsWord(words, Dict, v[k])
      BY <1>1, <3>1 DEF Nestled, Owned, v
    <3>3. Named(v[k]) => Dict'[v[k].name] = Dict[v[k].name]
      BY DEF Dict, Wordlist
    <3> QED BY <3>1, <3>2, <3>3, OwnsKept
  <2> QED BY <2>1, <2>2
<1>11. Settled'
  <2>1. CASE l = n /\ Opened = {}
    <3>1. \A k \in 1..n : v[k].name = NoName
      BY <1>1, <2>1
    <3>2. n - 1 \in 0..n /\ (\A k \in 1..(n - 1) : k \in 1..n /\ k # n)
          /\ (\A k \in (n - 1 + 1)..n : k = n)
      BY <1>1
    <3>3. IdleBelow(x, n - 1)
      BY <1>2, <1>3, <1>6, <2>1, <3>1, <3>2 DEF IdleBelow
    <3> QED BY <3>3 DEF Settled, x
  <2>2. CASE l = n + 1
    <3>1. PICK m : IdleBelow(v, m)
      BY DEF Nestled, Settled, v
    <3>2. m \in 0..n
      BY <1>1, <3>1 DEF IdleBelow
    <3>3. m \in 0..l /\ (\A k \in 1..m : k \in 1..l /\ k # l)
          /\ (\A k \in (m + 1)..l : k \in 1..l /\ (k # l => k \in (m + 1)..n))
      BY <1>1, <2>2, <3>2
    <3>4. IdleBelow(x, m)
      BY <1>1, <1>2, <1>3, <1>6, <2>2, <3>1, <3>3 DEF IdleBelow
    <3> QED BY <3>4 DEF Settled, x
  <2> QED BY <1>2, <2>1, <2>2
<1>12. Became'
  <2>1. \A k \in 1..n : v[k].name # NoName => k \in 1..l /\ x[k] = v[k]
    BY <1>1, <1>2
  <2>2. OpenOf(v) \subseteq OpenOf(x)
    BY <1>1, <1>2, <2>1 DEF OpenOf
  <2> QED BY <2>2, BecameStays DEF Nestled, v, x
<1> QED BY <1>9, <1>10, <1>11, <1>12 DEF Nestled

\* A word is made at once, while no definition is in progress.
LEMMA NestledMakes ==
  ASSUME TypeOK, Nestled, Opened = {}, Topped, NextContexts, UNCHANGED compiling,
         defs' = defs + 1, NEW word, Added(word), word.def = defs + 1, word.thread # <<>>
  PROVE  Nestled'
<1> DEFINE v == Contexts
           x == Contexts'
           n == Len(Contexts)
<1>1. /\ Len(v) = n /\ n \in Nat \ {0} /\ DOMAIN v = 1..n /\ v[n] = compiling /\ n \in 1..n
      /\ \A k \in 1..n : v[k].name = NoName /\ v[k].def \in Nat
  <2>1. Len(v) = Len(comp_stack) + 1 /\ Len(comp_stack) \in Nat
    BY ContextsFacts, OpenFacts
  <2> QED BY <2>1, ContextsFacts DEF Opened
<1>2. /\ Len(x) = n /\ DOMAIN x = 1..n /\ x[n] = compiling'
      /\ \A k \in 1..n : k # n => x[k] = v[k]
  BY DEF Topped, NextContexts
<1>3. defs \in Nat /\ \A w \in DOMAIN words : words[w].def \in Nat
  BY TypeParts, WordFacts DEF OpenTyped
<1> HIDE DEF v, x, n
<1>4. \A k \in 1..n : x[k] = v[k]
  BY <1>1, <1>2
<1>5. /\ \A w \in DOMAIN words : words[w].def <= defs
      /\ \A k \in 1..n : v[k].def <= defs
      /\ Distinct(words)
  BY <1>1 DEF Nestled, Numbered, v
<1>6. \A w \in DOMAIN words' : (w \in DOMAIN words /\ words'[w] = words[w]) \/ w = NextWid
  BY DEF Added, NextWid
<1>7. words'[NextWid].def = defs + 1
  BY DEF Added
<1>8. \A d \in Nat : d <= defs => d # defs + 1 /\ d <= defs + 1
  BY <1>3
<1>9. Distinct(words')
  BY <1>3, <1>5, <1>6, <1>7, <1>8 DEF Distinct
<1>10. \A w \in DOMAIN words' : words'[w].def <= defs'
  BY <1>3, <1>5, <1>6, <1>7, <1>8
<1>11. Numbered'
  <2>1. \A k \in DOMAIN x : x[k].def <= defs' /\ x[k].name = NoName
    BY <1>1, <1>2, <1>4, <1>5, <1>8
  <2> QED BY <1>9, <1>10, <2>1 DEF Numbered, x
<1>12. Owned'
  BY <1>1, <1>2, <1>4 DEF Owned, x
<1>13. Settled'
  <2>1. PICK m : IdleBelow(v, m)
    BY DEF Nestled, Settled, v
  <2>2. IdleBelow(x, m)
    BY <1>1, <1>2, <1>4, <2>1, IdleStays
  <2> QED BY <2>2 DEF Settled, x
<1>14. Became'
  <2>1. OpenOf(x) = OpenOf(v)
    BY <1>1, <1>2, <1>4 DEF OpenOf
  <2>2. NextWid \in DOMAIN words' /\ words'[NextWid].thread # <<>>
        /\ \A w \in DOMAIN words : w \in DOMAIN words' /\ words'[w] = words[w]
    BY DEF Added, NextWid
  <2>3. DefsOf(words') \subseteq DefsOf(words) \union {defs + 1}
    BY <1>6, <1>7 DEF DefsOf
  <2>4. {defs + 1} \subseteq FilledOf(words') /\ FilledOf(words) \subseteq FilledOf(words')
    BY <1>7, <2>2, FilledIs
  <2> QED BY <2>1, <2>3, <2>4, BecameStays DEF Nestled, v, x
<1> QED BY <1>11, <1>12, <1>13, <1>14 DEF Nestled

\* The innermost definition, its number and the word it owns.
LEMMA Innermost ==
  ASSUME TypeOK, Nestled, compiling.name # NoName
  PROVE  OwnsWord(words, Dict, compiling) /\ Distinct(words)
<1>1. Contexts[Len(Contexts)] = compiling /\ Len(Contexts) \in DOMAIN Contexts
  BY ContextsFacts
<1> QED BY <1>1 DEF Nestled, Owned, Numbered

\* A word of the innermost definition is there, and every other is as it was.
OnlyWord(own) ==
  /\ own \in DOMAIN words' /\ words'[own].def = compiling.def
  /\ \A w \in DOMAIN words : w \in DOMAIN words' /\ words'[w].def = words[w].def
  /\ \A w \in DOMAIN words' :
       w # own => w \in DOMAIN words /\ words'[w] = words[w]
  /\ \A n \in Names : n # compiling.name \/ ~Named(compiling) => Dict'[n] = Dict[n]

\* Then the definitions that have a full word have it still, as has the innermost
\* when its word is full.
LEMMA OnlyWordFilled ==
  ASSUME TypeOK, Nestled, NEW own, OnlyWord(own), compiling.name # NoName
  PROVE  /\ FilledOf(words) \subseteq FilledOf(words')
         /\ DefsOf(words') \subseteq DefsOf(words) \union {compiling.def}
         /\ words'[own].thread # <<>> => compiling.def \in FilledOf(words')
<1>1. \A w \in DOMAIN words : words[w].thread # <<>> => w # own
  BY Innermost DEF OwnsWord, OnlyWord
<1>2. \A w \in DOMAIN words : words[w].thread # <<>> => w \in DOMAIN words' /\ words'[w] = words[w]
  BY <1>1 DEF OnlyWord
<1>3. FilledOf(words) \subseteq FilledOf(words')
  BY <1>2, FilledIs
<1>4. DefsOf(words') \subseteq DefsOf(words) \union {compiling.def}
  BY DEF DefsOf, OnlyWord
<1>5. words'[own].thread # <<>> => compiling.def \in FilledOf(words')
  BY FilledIs DEF OnlyWord
<1> QED BY <1>3, <1>4, <1>5

\* And a definition has at most one such word.
LEMMA OnlyWordDistinct ==
  ASSUME TypeOK, Nestled, NEW own, OnlyWord(own), compiling.name # NoName, defs' = defs
  PROVE  Distinct(words') /\ \A w \in DOMAIN words' : words'[w].def <= defs'
<1>1. compiling.def <= defs
  <2>1. Contexts[Len(Contexts)] = compiling /\ Len(Contexts) \in DOMAIN Contexts
    BY ContextsFacts
  <2> QED BY <2>1 DEF Nestled, Numbered
<1>2. Distinct(words')
  <2>1. \A w \in DOMAIN words : words[w].def = compiling.def => words[w].thread = <<>>
    BY Innermost DEF OwnsWord
  <2>2. \A w \in DOMAIN words' :
          w # own /\ words'[w].thread # <<>> => words'[w].def # words'[own].def
    BY <2>1 DEF OnlyWord
  <2> SUFFICES ASSUME NEW u \in DOMAIN words', NEW w \in DOMAIN words',
                      words'[u].def = words'[w].def, words'[u].thread # <<>>,
                      words'[w].thread # <<>>, u # w
               PROVE  FALSE
    BY DEF Distinct
  <2>3. u # own /\ w # own
    BY <2>2
  <2> QED BY <2>3 DEF Distinct, Nestled, Numbered, OnlyWord
<1>3. \A w \in DOMAIN words' : words'[w].def <= defs'
  BY <1>1 DEF Nestled, Numbered, OnlyWord
<1> QED BY <1>2, <1>3

\* And the definitions around it own their words.
LEMMA OnlyWordOwned ==
  ASSUME TypeOK, Nestled, NamesApart, NEW own, OnlyWord(own), compiling.name # NoName,
         NEW k \in 1..Len(comp_stack), Contexts[k].name # NoName
  PROVE  OwnsWord(words', Dict', Contexts[k])
<1> DEFINE c == Contexts[k]
<1>1. /\ Contexts[Len(Contexts)] = compiling /\ Len(Contexts) \in DOMAIN Contexts
      /\ Len(Contexts) = Len(comp_stack) + 1 /\ DOMAIN Contexts = 1..Len(Contexts)
      /\ c = comp_stack[k] /\ k \in DOMAIN comp_stack /\ Len(comp_stack) \in Nat
  BY ContextsFacts, OpenFacts
<1>2. k \in DOMAIN Contexts /\ k # Len(Contexts)
  BY <1>1
<1>3. Named(c) => c.name \in Names
  BY <1>2, ContextsFacts
<1>4. c.def # compiling.def /\ OwnsWord(words, Dict, c)
  BY <1>1, <1>2 DEF Nestled, Numbered, Owned
<1>5. Named(c) /\ Named(compiling) => c.name # compiling.name
  BY <1>1 DEF NamesApart
<1>6. Named(c) => Dict'[c.name] = Dict[c.name]
  BY <1>3, <1>5 DEF OnlyWord
<1>7. \A w \in DOMAIN words : w \in DOMAIN words' /\ words'[w].def = words[w].def
  BY DEF OnlyWord
<1>8. \A w \in DOMAIN words' : w \notin DOMAIN words => words'[w].def # c.def
  BY <1>4 DEF OnlyWord
<1>9. \A w \in DOMAIN words : words[w].def = c.def => words'[w].thread = words[w].thread
  BY <1>4 DEF OnlyWord
<1> HIDE DEF c
<1>10. OwnsWord(words', Dict', c)
  BY <1>4, <1>6, <1>7, <1>8, <1>9, OwnsKept
<1> QED BY <1>10 DEF c

\* RECURSIVE and RECURSE enter the word of the innermost definition.
LEMMA NestledEnters ==
  ASSUME TypeOK, Nestled, NamesApart, Topped, NextContexts, Named(compiling),
         compiling'.name = compiling.name, compiling'.noname = compiling.noname,
         compiling'.predefined, compiling'.def = compiling.def, defs' = defs,
         NEW own, OnlyWord(own), Dict'[compiling.name] = own, words'[own].thread = <<>>
  PROVE  Nestled'
<1> DEFINE v == Contexts
           x == Contexts'
           n == Len(Contexts)
<1>1. /\ Len(v) = n /\ n \in Nat \ {0} /\ DOMAIN v = 1..n /\ v[n] = compiling /\ n \in 1..n
      /\ \A k \in 1..n : k # n => k \in 1..Len(comp_stack)
  <2>1. Len(v) = Len(comp_stack) + 1 /\ Len(comp_stack) \in Nat
    BY ContextsFacts, OpenFacts
  <2>2. \A k \in 1..n : k # n => k \in 1..Len(comp_stack)
    BY <2>1
  <2> QED BY <2>1, <2>2, ContextsFacts
<1>2. /\ Len(x) = n /\ DOMAIN x = 1..n /\ x[n] = compiling'
      /\ \A k \in 1..n : k # n => x[k] = v[k]
  BY DEF Topped, NextContexts
<1>3. compiling.name # NoName
  BY DEF Named
<1>4. \A k \in 1..n : k # n /\ v[k].name # NoName => OwnsWord(words', Dict', v[k])
  BY <1>1, <1>3, OnlyWordOwned DEF Nestled
<1> HIDE DEF v, x, n
<1>5. \A k \in 1..n : x[k].name = v[k].name /\ x[k].def = v[k].def
  BY <1>1, <1>2
<1>6. Distinct(words') /\ \A w \in DOMAIN words' : words'[w].def <= defs'
  BY <1>3, OnlyWordDistinct
<1>7. Numbered'
  <2>1. \A k \in DOMAIN x : x[k].def <= defs'
    BY <1>1, <1>2, <1>5 DEF Nestled, Numbered, v
  <2>2. \A j, k \in DOMAIN x :
          j # k /\ x[j].name # NoName /\ x[k].name # NoName => x[j].def # x[k].def
    BY <1>1, <1>2, <1>5 DEF Nestled, Numbered, v
  <2> QED BY <1>6, <2>1, <2>2 DEF Numbered, x
<1>8. Owned'
  <2> SUFFICES ASSUME NEW k \in DOMAIN x, x[k].name # NoName
               PROVE  OwnsWord(words', Dict', x[k])
    BY DEF Owned, x
  <2>1. CASE k = n
    <3>1. Named(compiling') /\ words'[own].def = compiling.def /\ own \in DOMAIN words'
      BY DEF Named, OnlyWord
    <3>2. \A w \in DOMAIN words' : words'[w].def = compiling.def => words'[w].thread = <<>>
      BY <1>3, Innermost DEF OnlyWord, OwnsWord
    <3>3. OwnsWord(words', Dict', compiling')
      BY <3>1, <3>2 DEF OwnsWord
    <3> QED BY <1>2, <2>1, <3>3
  <2>2. CASE k # n
    BY <1>2, <1>4, <1>5, <2>2
  <2> QED BY <2>1, <2>2
<1>9. Settled'
  <2>1. PICK m : IdleBelow(v, m)
    BY DEF Nestled, Settled, v
  <2>2. IdleBelow(x, m)
    BY <1>1, <1>2, <1>5, <2>1, IdleStays
  <2> QED BY <2>2 DEF Settled, x
<1>10. Became'
  <2>1. OpenOf(x) = OpenOf(v) /\ compiling.def \in OpenOf(v)
    BY <1>1, <1>2, <1>3, <1>5 DEF OpenOf
  <2> QED BY <1>3, <2>1, OnlyWordFilled, BecameStays DEF Nestled, v, x
<1> QED BY <1>7, <1>8, <1>9, <1>10 DEF Nestled

\* The innermost definition ends: the one put away goes on, or none was.
LEMMA NestledCloses ==
  ASSUME TypeOK, Nestled, NamesApart, NextContexts, compiling.name # NoName, defs' = defs,
         NEW own, OnlyWord(own), words'[own].thread # <<>>,
         \/ Shortened
         \/ /\ Topped /\ compiling'.name = NoName /\ compiling'.def <= defs
            /\ \A k \in DOMAIN comp_stack : comp_stack[k].name = NoName
  PROVE  Nestled'
<1> DEFINE v == Contexts
           x == Contexts'
           n == Len(Contexts)
           l == Len(Contexts')
<1>1. /\ Len(v) = n /\ n \in Nat \ {0} /\ DOMAIN v = 1..n /\ v[n] = compiling /\ n \in 1..n
      /\ \A k \in 1..n : k # n => /\ k \in 1..Len(comp_stack) /\ v[k] = comp_stack[k]
                                  /\ k \in DOMAIN comp_stack
  <2>1. Len(v) = Len(comp_stack) + 1 /\ Len(comp_stack) \in Nat
    BY ContextsFacts, OpenFacts
  <2>2. \A k \in 1..n : k # n => k \in 1..Len(comp_stack)
    BY <2>1
  <2> QED BY <2>1, <2>2, ContextsFacts, OpenFacts
<1>2. /\ Len(x) = l /\ DOMAIN x = 1..l /\ x[l] = compiling' /\ l \in Nat /\ l \in 1..l
      /\ \/ l = n - 1 /\ \A k \in 1..l : x[k] = v[k]
         \/ /\ l = n /\ x[n].name = NoName /\ x[n].def <= defs
            /\ \A k \in 1..n : k # n => x[k] = v[k] /\ v[k].name = NoName
  BY <1>1 DEF Topped, Shortened, NextContexts
<1>3. \A k \in 1..n : k # n /\ v[k].name # NoName => OwnsWord(words', Dict', v[k])
  BY <1>1, OnlyWordOwned DEF Nestled
<1> HIDE DEF v, x, n, l
<1>4. \A k \in 1..l : \/ k \in 1..n /\ k # n /\ x[k] = v[k]
                      \/ k = n /\ l = n /\ x[k].name = NoName /\ x[k].def <= defs
  BY <1>1, <1>2
<1>5. Distinct(words') /\ \A w \in DOMAIN words' : words'[w].def <= defs'
  BY OnlyWordDistinct
<1>6. Numbered'
  <2>1. \A k \in DOMAIN x : x[k].def <= defs'
    BY <1>1, <1>2, <1>4 DEF Nestled, Numbered, v
  <2>2. \A j, k \in DOMAIN x :
          j # k /\ x[j].name # NoName /\ x[k].name # NoName => x[j].def # x[k].def
    BY <1>1, <1>2, <1>4 DEF Nestled, Numbered, v
  <2> QED BY <1>5, <2>1, <2>2 DEF Numbered, x
<1>7. Owned'
  <2> SUFFICES ASSUME NEW k \in DOMAIN x, x[k].name # NoName
               PROVE  OwnsWord(words', Dict', x[k])
    BY DEF Owned, x
  <2> QED BY <1>2, <1>3, <1>4
<1>8. Settled'
  <2>1. PICK m : IdleBelow(v, m)
    BY DEF Nestled, Settled, v
  <2>2. m \in 0..n
    BY <1>1, <2>1 DEF IdleBelow
  <2>3. CASE l = n - 1 /\ \A k \in 1..l : x[k] = v[k]
    <3>1. m # n
      <4>1. m = n => n \in 1..m
        BY <1>1
      <4> QED BY <1>1, <2>1, <4>1 DEF IdleBelow
    <3>2. m \in 0..l /\ (\A k \in 1..m : k \in 1..l)
          /\ (\A k \in (m + 1)..l : k \in 1..l /\ k \in (m + 1)..n)
      BY <1>1, <2>2, <2>3, <3>1
    <3>3. IdleBelow(x, m)
      BY <1>1, <1>2, <2>1, <2>3, <3>2 DEF IdleBelow
    <3> QED BY <3>3 DEF Settled, x
  <2>4. CASE /\ l = n /\ x[n].name = NoName
             /\ \A k \in 1..n : k # n => x[k] = v[k] /\ v[k].name = NoName
    <3>1. \A k \in 1..n : x[k].name = NoName
      BY <2>4
    <3>2. n \in 0..n /\ ~ \E k \in (n + 1)..n : TRUE
      BY <1>1
    <3>3. IdleBelow(x, n)
      BY <1>2, <2>4, <3>1, <3>2 DEF IdleBelow
    <3> QED BY <3>3 DEF Settled, x
  <2> QED BY <1>2, <2>3, <2>4
<1>9. Became'
  <2>1. \A k \in 1..n : k # n /\ v[k].name # NoName => k \in 1..l /\ x[k] = v[k]
    BY <1>1, <1>2
  <2>2. OpenOf(v) \subseteq OpenOf(x) \union {compiling.def}
    BY <1>1, <1>2, <2>1 DEF OpenOf
  <2> QED BY <2>2, OnlyWordFilled, BecameStays DEF Nestled, v, x
<1> QED BY <1>6, <1>7, <1>8, <1>9 DEF Nestled

\* A word that is added for it.
LEMMA OnlyWordAdded ==
  ASSUME TypeOK, Nestled, compiling.name # NoName, NEW word, Added(word),
         word.def = compiling.def,
         \A n \in Names : n # compiling.name \/ ~Named(compiling) => Dict'[n] = Dict[n]
  PROVE  OnlyWord(NextWid)
<1>1. NextWid \in DOMAIN words' /\ words'[NextWid].def = compiling.def
  BY DEF Added, NextWid
<1>2. \A w \in DOMAIN words : w \in DOMAIN words' /\ words'[w] = words[w]
  BY DEF Added, NextWid
<1>3. \A w \in DOMAIN words' : w # NextWid => w \in DOMAIN words
  BY DEF Added, NextWid
<1> QED BY <1>1, <1>2, <1>3 DEF OnlyWord

\* The definition that ends has its thread in one word, new or entered before.
LEMMA FinalizeOnly ==
  ASSUME TypeOK, Nestled, compiling.name # NoName, Finalize, current_wl' = current_wl
  PROVE  \E own : /\ OnlyWord(own)
                  /\ words'[own].thread = Append(compiling.code, <<"exit">>)
<1> DEFINE thread == Append(compiling.code, <<"exit">>)
           nameless == Word(NoName, "colon", thread, 0, compiling.def)
           named == Word(compiling.name, "colon", thread, 0, compiling.def)
<1> HIDE DEF thread
<1>1. CASE compiling.noname /\ words' = Append(words, nameless) /\ wordlists' = wordlists
  <2>1. nameless.def = compiling.def /\ nameless.thread = thread
    BY WordFields
  <2> HIDE DEF nameless
  <2>2. Added(nameless)
    BY <1>1, AddedBy
  <2>3. \A n \in Names : Dict'[n] = Dict[n]
    BY <1>1 DEF Dict, Wordlist
  <2>4. OnlyWord(NextWid)
    BY <2>1, <2>2, <2>3, OnlyWordAdded
  <2> QED BY <2>1, <2>2, <2>4 DEF Added, thread
<1>2. CASE /\ ~compiling.noname /\ Own # 0 /\ wordlists' = wordlists
           /\ words' = [words EXCEPT ![Own].thread = thread]
  <2> DEFINE own == Own
  <2>1. own \in DOMAIN words /\ compiling.predefined /\ own = Dict[compiling.name]
    BY <1>2, OwnType
  <2>2. words[own].def = compiling.def
    BY <1>2, <2>1, Innermost DEF OwnsWord, Named
  <2>3. words' = [words EXCEPT ![own].thread = thread]
    BY <1>2
  <2> HIDE DEF own
  <2>4. \A w \in DOMAIN words : words[w] \in WordType
    BY TypeParts, WordFacts
  <2>5. DOMAIN words' = DOMAIN words /\ words'[own] = [words[own] EXCEPT !.thread = thread]
        /\ \A w \in DOMAIN words : w # own => words'[w] = words[w]
    BY <2>1, <2>3
  <2>6. words'[own].thread = thread /\ words'[own].def = words[own].def
    BY <2>1, <2>4, <2>5 DEF WordType
  <2>7. \A n \in Names : Dict'[n] = Dict[n]
    BY <1>2 DEF Dict, Wordlist
  <2>8. OnlyWord(own)
    BY <2>1, <2>2, <2>5, <2>6, <2>7 DEF OnlyWord
  <2> QED BY <2>6, <2>8 DEF thread
<1>3. CASE ~compiling.noname /\ Define(named)
  <2>1. /\ named.name = compiling.name /\ named.thread = thread /\ named.home = current_wl
        /\ named.def = compiling.def
    BY WordFields
  <2>2. compiling.name \in Names
    BY <1>3, NamedType
  <2> HIDE DEF named
  <2>3. Added(named) /\ EntersList(compiling.name)
    BY <1>3, <2>1, <2>2, DefineAdds
  <2>4. \A n \in Names : n # compiling.name => Dict'[n] = Dict[n]
    BY <2>2, <2>3, DictAfter
  <2>5. Named(compiling)
    BY <1>3 DEF Named
  <2>6. OnlyWord(NextWid)
    BY <2>1, <2>3, <2>4, <2>5, OnlyWordAdded
  <2> QED BY <2>1, <2>3, <2>6 DEF Added, thread
<1> QED BY <1>1, <1>2, <1>3 DEF Finalize, thread

\* RECURSIVE and RECURSE enter an empty word, whatever it hides.
LEMMA PredefineOnly ==
  ASSUME TypeOK, Nestled, compiling.name # NoName, ~compiling.noname,
         NEW hidden, Predefine(hidden), current_wl' = current_wl
  PROVE  /\ OnlyWord(NextWid) /\ Dict'[compiling.name] = NextWid
         /\ words'[NextWid].thread = <<>>
<1> DEFINE word == Entry(hidden)
<1>1. /\ word.name = compiling.name /\ word.home = current_wl /\ word.def = compiling.def
      /\ word.thread = <<>>
  BY EntryFields
<1>2. compiling.name \in Names /\ Define(word)
  BY NamedType DEF Predefine, Entry
<1> HIDE DEF word
<1>3. Added(word) /\ EntersList(compiling.name)
  BY <1>1, <1>2, DefineAdds
<1>4. \A n \in Names : Dict'[n] = IF n = compiling.name THEN NextWid ELSE Dict[n]
  BY <1>2, <1>3, DictAfter
<1>5. Named(compiling)
  BY DEF Named
<1>6. OnlyWord(NextWid)
  BY <1>1, <1>3, <1>4, <1>5, OnlyWordAdded
<1> QED BY <1>1, <1>2, <1>3, <1>4, <1>6 DEF Added
-----------------------------------------------------------------------------
(* The texts of the words that have been made                              *)

\* A number picks one word, the one with a thread.
LEMMA WordOfIs ==
  ASSUME NEW ws, Distinct(ws), NEW u \in DOMAIN ws, ws[u].thread # <<>>
  PROVE  (CHOOSE r \in Range(ws) : r.def = ws[u].def /\ r.thread # <<>>) = ws[u]
<1>1. ws[u] \in Range(ws)
  BY DEF Range
<1>2. \A r \in Range(ws) : r.def = ws[u].def /\ r.thread # <<>> => r = ws[u]
  BY DEF Range, Distinct
<1> QED BY <1>1, <1>2

\* The text of a definition is the thread of that word, without the EXIT at its
\* end.
LEMMA MadeTextsIs ==
  ASSUME Distinct(words), NEW u \in DOMAIN words, words[u].def \in MadeDefs,
         words[u].thread # <<>>
  PROVE  MadeTexts[words[u].def] = Front(words[u].thread)
<1>1. WordOf(words[u].def) = words[u]
  BY WordOfIs DEF WordOf
<1> QED BY <1>1 DEF MadeTexts

\* And in the next state.
LEMMA MadeTextsNext ==
  ASSUME Distinct(words'), NEW u, u \in DOMAIN words', words'[u].def \in MadeDefs',
         words'[u].thread # <<>>
  PROVE  MadeTexts'[words'[u].def] = Front(words'[u].thread)
<1> DEFINE def == words'[u].def
           r == CHOOSE w \in Range(words') : w.def = def /\ w.thread # <<>>
<1>1. r = words'[u]
  BY WordOfIs
<1>2. MadeTexts'[def] = Front(r.thread)
  BY DEF MadeTexts, WordOf
<1> QED BY <1>1, <1>2

\* The words of definitions that have ended keep their texts.
LEMMA MadeKept ==
  ASSUME TypeOK, Became, Distinct(words), Distinct(words'), DefsKept,
         \A u \in DOMAIN words : words[u].def \in MadeDefs => words'[u].thread = words[u].thread,
         NEW def \in MadeDefs, def \in MadeDefs'
  PROVE  MadeTexts'[def] = MadeTexts[def]
<1>1. def \in FilledOf(words)
  BY MadeDefsIs DEF Became
<1>2. PICK u \in DOMAIN words : words[u].def = def /\ words[u].thread # <<>>
  BY <1>1, FilledIs
<1>3. /\ u \in DOMAIN words' /\ words'[u].def = def /\ words'[u].thread = words[u].thread
  BY <1>2 DEF DefsKept
<1>4. MadeTexts[def] = Front(words[u].thread)
  BY <1>2, MadeTextsIs
<1>5. MadeTexts'[def] = Front(words'[u].thread)
  BY <1>2, <1>3, MadeTextsNext
<1> QED BY <1>3, <1>4, <1>5

\* No word is finished in the step.
LEMMA MadeSame ==
  ASSUME TypeOK, Became, Distinct(words), Distinct(words'), DefsKept, MadeDefs' = MadeDefs,
         \A u \in DOMAIN words : words[u].def \in MadeDefs => words'[u].thread = words[u].thread
  PROVE  MadeTexts' = MadeTexts
<1>1. \A def \in MadeDefs : MadeTexts'[def] = MadeTexts[def]
  BY MadeKept
<1>2. MadeTexts = [def \in MadeDefs |-> MadeTexts[def]]
  BY DEF MadeTexts
<1>3. MadeTexts' = [def \in MadeDefs |-> MadeTexts'[def]]
  BY DEF MadeTexts
<1> QED BY <1>1, <1>2, <1>3

\* Contexts with the same definitions open, and words of the same definitions
\* but for new ones of these.
LEMMA SameMade ==
  ASSUME TypeOK, Topped, NextContexts,
         compiling'.name = compiling.name, compiling'.def = compiling.def,
         DefsKept, \A w \in DOMAIN words' : \/ w \in DOMAIN words
                                            \/ /\ words'[w].def = compiling.def
                                               /\ compiling.name # NoName
  PROVE  MadeDefs' = MadeDefs
<1> DEFINE v == Contexts
           x == Contexts'
           n == Len(Contexts)
<1>1. /\ n \in DOMAIN v /\ DOMAIN v = 1..n /\ v[n] = compiling
  BY ContextsFacts
<1>2. /\ DOMAIN x = 1..n /\ x[n] = compiling'
      /\ \A k \in 1..n : k # n => x[k] = v[k]
  BY DEF Topped, NextContexts
<1>3. MadeDefs = DefsOf(words) \ OpenOf(v) /\ MadeDefs' = DefsOf(words') \ OpenOf(x)
  BY MadeDefsIs DEF NextContexts
<1> HIDE DEF v, x, n
<1>4. \A k \in 1..n : x[k].name = v[k].name /\ x[k].def = v[k].def
  BY <1>1, <1>2
<1>5. OpenOf(x) = OpenOf(v)
  BY <1>1, <1>2, <1>4 DEF OpenOf
<1>6. compiling.name # NoName => compiling.def \in OpenOf(v)
  BY <1>1 DEF OpenOf
<1>7. DefsOf(words) \subseteq DefsOf(words')
  BY DEF DefsOf, DefsKept
<1>8. DefsOf(words') \subseteq DefsOf(words) \union OpenOf(v)
  BY <1>6 DEF DefsOf, DefsKept
<1> QED BY <1>3, <1>5, <1>7, <1>8
-----------------------------------------------------------------------------
(* The texts of the definitions in progress                                *)

\* The open definitions, by any count of the idle contexts.
LEMMA OpenIs == ASSUME TypeOK, NEW m, IdleBelow(Contexts, m)
                PROVE  OpenTexts = Rows(Contexts, m)
<1>1. Idle(Contexts) = m
  BY ContextsFacts, IdleIs
<1> QED BY <1>1, OpenTextsIs

\* And in the next state.
LEMMA OpenIsNext == ASSUME NextContexts, NEW m, IdleBelow(Contexts', m)
                    PROVE  OpenTexts' = Rows(Contexts', m)
<1>1. Idle(Contexts') = m
  <2> DEFINE x == Contexts'
  <2>1. Len(x) \in Nat /\ DOMAIN x = 1..Len(x)
    BY DEF NextContexts
  <2>2. IdleBelow(x, m)
    OBVIOUS
  <2> HIDE DEF x
  <2>3. Idle(x) = m
    BY <2>1, <2>2, IdleIs
  <2> QED BY <2>3 DEF x
<1> QED BY <1>1, OpenTextsNext

\* The row of a context stays while its code does.
LEMMA RowKept ==
  ASSUME NEW c, NEW d, d.name = c.name, d.def = c.def, d.code = c.code
  PROVE  RowOf(d) = RowOf(c)
BY DEF RowOf

\* Where the contexts of the definitions are: above the m idle ones.
LEMMA RowPlaces ==
  ASSUME NEW n \in Nat, NEW m \in 0..n
  PROVE  /\ n - m \in Nat /\ \A k \in 1..(n - m) : m + k \in 1..n /\ m + k \in (m + 1)..n
         /\ \A k \in 1..(n - m) : m + k = n <=> k = n - m
         /\ n # m => n - m \in 1..(n - m) /\ m + (n - m) = n
         /\ \A k \in (m + 1)..n : k - m \in 1..(n - m) /\ m + (k - m) = k
OBVIOUS

\* No text is written to.
LEMMA OpenSame ==
  ASSUME TypeOK, Settled, Topped, NextContexts,
         compiling'.name = compiling.name,
         compiling.name # NoName => compiling'.def = compiling.def /\ compiling'.code = compiling.code
  PROVE  OpenTexts' = OpenTexts
<1> DEFINE v == Contexts
           x == Contexts'
           n == Len(Contexts)
<1>1. /\ Len(v) = n /\ n \in Nat \ {0} /\ DOMAIN v = 1..n /\ v[n] = compiling /\ n \in 1..n
  <2>1. Len(v) = Len(comp_stack) + 1 /\ Len(comp_stack) \in Nat
    BY ContextsFacts, OpenFacts
  <2> QED BY <2>1, ContextsFacts
<1>2. /\ Len(x) = n /\ DOMAIN x = 1..n /\ x[n] = compiling'
      /\ \A k \in 1..n : k # n => x[k] = v[k]
  BY DEF Topped, NextContexts
<1>3. PICK m : IdleBelow(v, m)
  BY DEF Settled
<1>4. OpenTexts = Rows(v, m)
  BY <1>3, OpenIs
<1>5. IdleBelow(x, m) => OpenTexts' = Rows(x, m)
  BY OpenIsNext
<1> HIDE DEF v, x, n
<1>6. IdleBelow(x, m)
  BY <1>1, <1>2, <1>3, IdleStays
<1>7. m \in 0..n
  BY <1>1, <1>3 DEF IdleBelow
<1>8. n \in Nat
  BY <1>1
<1>9. \A k \in 1..(n - m) : m + k \in 1..n /\ v[m + k].name # NoName
  BY <1>1, <1>3, <1>7, <1>8, RowPlaces DEF IdleBelow
<1>10. \A k \in 1..n : v[k].name # NoName => RowOf(x[k]) = RowOf(v[k])
  BY <1>1, <1>2, RowKept
<1>11. \A k \in 1..(n - m) : RowOf(x[m + k]) = RowOf(v[m + k])
  BY <1>9, <1>10
<1>12. Rows(x, m) = Rows(v, m)
  BY <1>1, <1>2, <1>11 DEF Rows
<1> QED BY <1>4, <1>5, <1>6, <1>12

\* The last of a sequence is what was appended to it.
LEMMA AppendLast ==
  ASSUME NEW S, NEW s \in Seq(S), NEW e
  PROVE  Append(s, e) = Append(s, Last(Append(s, e))) /\ Append(s, e) # <<>>
<1> DEFINE T == S \union {e}
           t == Append(s, e)
<1>1. s \in Seq(T) /\ e \in T
  BY SeqMonotonic
<1> HIDE DEF T
<1>2. t \in Seq(T) /\ Len(t) = Len(s) + 1 /\ t[Len(s) + 1] = e /\ Len(s) \in Nat
  BY <1>1, AppendProperties, LenProperties
<1> HIDE DEF t
<1>3. Last(t) = e /\ t # <<>>
  BY <1>2, EmptySeq DEF Last
<1> QED BY <1>3 DEF t

\* A text with one item more.
LEMMA WrittenTo ==
  ASSUME NEW r, NEW id, NEW name, NEW text, NEW e, r = [id |-> id, name |-> name, text |-> text]
  PROVE  [r EXCEPT !.text = Append(@, e)] = [id |-> id, name |-> name, text |-> Append(text, e)]
OBVIOUS

\* One instruction is compiled to the innermost definition.
LEMMA OpenWritten ==
  ASSUME TypeOK, Settled, Topped, NextContexts, compiling.name # NoName,
         compiling'.name = compiling.name, compiling'.def = compiling.def,
         NEW item, compiling'.code = Append(compiling.code, item)
  PROVE  /\ OpenTexts # <<>> /\ Len(OpenTexts') = Len(OpenTexts)
         /\ Front(OpenTexts') = Front(OpenTexts)
         /\ Last(OpenTexts').text # <<>>
         /\ OpenTexts'[Len(OpenTexts)] =
              [Last(OpenTexts) EXCEPT !.text = Append(@, Last(Last(OpenTexts').text))]
<1> DEFINE v == Contexts
           x == Contexts'
           n == Len(Contexts)
           o == OpenTexts
           p == OpenTexts'
<1>1. /\ Len(v) = n /\ n \in Nat \ {0} /\ DOMAIN v = 1..n /\ v[n] = compiling /\ n \in 1..n
  <2>1. Len(v) = Len(comp_stack) + 1 /\ Len(comp_stack) \in Nat
    BY ContextsFacts, OpenFacts
  <2> QED BY <2>1, ContextsFacts
<1>2. /\ Len(x) = n /\ DOMAIN x = 1..n /\ x[n] = compiling'
      /\ \A k \in 1..n : k # n => x[k] = v[k]
  BY DEF Topped, NextContexts
<1>3. PICK m : IdleBelow(v, m)
  BY DEF Settled
<1>4. o = Rows(v, m)
  BY <1>3, OpenIs
<1>5. IdleBelow(x, m) => p = Rows(x, m)
  BY OpenIsNext
<1> HIDE DEF v, x, n, o, p
<1>6. p = Rows(x, m)
  BY <1>1, <1>2, <1>3, <1>5, IdleStays
<1>7. m \in 0..n /\ n \in Nat
  BY <1>1, <1>3 DEF IdleBelow
<1>8. n # m
  <2>1. m = n => n \in 1..m
    BY <1>1
  <2> QED BY <1>1, <1>3, <2>1 DEF IdleBelow
<1>9. /\ n - m \in Nat /\ n - m \in 1..(n - m) /\ m + (n - m) = n
      /\ \A k \in 1..(n - m) : m + k \in 1..n /\ (m + k = n <=> k = n - m)
  BY <1>7, <1>8, RowPlaces
<1>10. /\ o \in Seq(Range(o)) /\ Len(o) = n - m
       /\ \A k \in 1..(n - m) : o[k] = RowOf(v[m + k])
  <2>1. Len(v) \in Nat /\ m \in 0..Len(v)
    BY <1>1, <1>7
  <2>2. /\ Rows(v, m) \in Seq(Range(Rows(v, m)))
        /\ Len(Rows(v, m)) = Len(v) - m
        /\ \A k \in 1..(Len(v) - m) : Rows(v, m)[k] = RowOf(v[m + k])
    BY <2>1, RowsSeq
  <2> QED BY <1>1, <1>4, <2>2
<1>11. /\ p \in Seq(Range(p)) /\ Len(p) = n - m
       /\ \A k \in 1..(n - m) : p[k] = RowOf(x[m + k])
  <2>1. Len(x) \in Nat /\ m \in 0..Len(x)
    BY <1>2, <1>7
  <2>2. /\ Rows(x, m) \in Seq(Range(Rows(x, m)))
        /\ Len(Rows(x, m)) = Len(x) - m
        /\ \A k \in 1..(Len(x) - m) : Rows(x, m)[k] = RowOf(x[m + k])
    BY <2>1, RowsSeq
  <2> QED BY <1>2, <1>6, <2>2
<1>12. \A k \in 1..(n - m) : k # n - m => p[k] = o[k]
  <2> SUFFICES ASSUME NEW k \in 1..(n - m), k # n - m PROVE p[k] = o[k]
    OBVIOUS
  <2> DEFINE j == m + k
  <2>1. j \in 1..n /\ j # n
    BY <1>9
  <2>2. p[k] = RowOf(x[j]) /\ o[k] = RowOf(v[j])
    BY <1>10, <1>11
  <2> HIDE DEF j
  <2>3. x[j] = v[j]
    BY <1>2, <2>1
  <2> QED BY <2>2, <2>3
<1>13. o # <<>>
  <2>1. n - m # 0
    BY <1>9
  <2> QED BY <1>10, <2>1
<1>14. Front(p) = Front(o) /\ Last(o) = o[n - m] /\ Last(p) = p[n - m]
  BY <1>10, <1>11, <1>12, <1>13, FrontsAgree
<1>15. Last(o) = RowOf(compiling) /\ Last(p) = RowOf(compiling')
  BY <1>1, <1>2, <1>9, <1>10, <1>11, <1>14
<1> DEFINE t == compiling.code
           u == Append(compiling.code, item)
<1>16. t \in Seq(Instruction)
  BY OpenFacts DEF ContextType
<1>17. u = Append(t, Last(u)) /\ u # <<>>
  BY <1>16, AppendLast
<1>18. /\ Last(o) = [id |-> compiling.def, name |-> compiling.name, text |-> t]
       /\ Last(p) = [id |-> compiling.def, name |-> compiling.name, text |-> u]
  BY <1>15 DEF RowOf
<1> HIDE DEF t, u
<1>19. Last(p).text = u /\ Last(o).text = t
  BY <1>18
<1>20. Last(p) = [Last(o) EXCEPT !.text = Append(@, Last(Last(p).text))]
  <2>1. [Last(o) EXCEPT !.text = Append(@, Last(u))]
          = [id |-> compiling.def, name |-> compiling.name, text |-> Append(t, Last(u))]
    BY <1>18, WrittenTo
  <2> QED BY <1>17, <1>18, <1>19, <2>1
<1>21. p[Len(o)] = [Last(o) EXCEPT !.text = Append(@, Last(Last(p).text))]
  BY <1>10, <1>14, <1>20
<1> QED BY <1>10, <1>11, <1>13, <1>14, <1>17, <1>19, <1>21 DEF o, p

\* The contexts above m in v have the rows of those above i in x, which has one
\* more.
OneMore(x, i, v, m) ==
  /\ Len(x) - i = Len(v) - m + 1
  /\ \A k \in 1..(Len(v) - m) : RowOf(x[i + k]) = RowOf(v[m + k])

\* Then the row has one more.
LEMMA RowsGrow ==
  ASSUME NEW v, NEW x, NEW m, NEW i, Len(v) \in Nat, Len(x) \in Nat,
         m \in 0..Len(v), i \in 0..Len(x), OneMore(x, i, v, m)
  PROVE  /\ Len(Rows(x, i)) = Len(Rows(v, m)) + 1
         /\ Rows(x, i) = Append(Rows(v, m), RowOf(x[Len(x)]))
         /\ Last(Rows(x, i)) = RowOf(x[Len(x)])
         /\ Rows(v, m) = Front(Rows(x, i)) /\ Rows(x, i) # <<>>
<1> DEFINE o == Rows(v, m)
           p == Rows(x, i)
           a == Len(v) - m
           b == Len(x) - i
<1>1. /\ o \in Seq(Range(o)) /\ Len(o) = a /\ a \in Nat
      /\ \A k \in 1..a : o[k] = RowOf(v[m + k])
  BY RowsSeq
<1>2. /\ p \in Seq(Range(p)) /\ Len(p) = b /\ b \in Nat
      /\ \A k \in 1..b : p[k] = RowOf(x[i + k])
  BY RowsSeq
<1>3. b = a + 1 /\ \A k \in 1..a : RowOf(x[i + k]) = RowOf(v[m + k])
  BY DEF OneMore
<1>4. i + b = Len(x)
  OBVIOUS
<1> HIDE DEF o, p, a, b
<1>5. (\A k \in 1..a : k \in 1..b) /\ b \in 1..b
  BY <1>1, <1>3
<1>6. \A k \in 1..a : p[k] = o[k]
  BY <1>1, <1>2, <1>3, <1>5
<1>7. /\ p = Append(o, p[Len(p)]) /\ Last(p) = p[Len(p)] /\ p # <<>> /\ o = Front(p)
  <2>1. Len(p) = Len(o) + 1 /\ \A k \in 1..Len(o) : p[k] = o[k]
    BY <1>1, <1>2, <1>3, <1>6
  <2> DEFINE S == Range(o)
             T == Range(p)
  <2>2. o \in Seq(S) /\ p \in Seq(T)
    BY <1>1, <1>2
  <2> HIDE DEF S, T
  <2> QED BY <2>1, <2>2, MoreIs
<1>8. p[Len(p)] = RowOf(x[Len(x)])
  BY <1>2, <1>4, <1>5
<1>9. Len(p) = Len(o) + 1 /\ p = Append(o, RowOf(x[Len(x)]))
      /\ Last(p) = RowOf(x[Len(x)]) /\ o = Front(p) /\ p # <<>>
  BY <1>1, <1>2, <1>3, <1>7, <1>8
<1> QED BY <1>9 DEF o, p

\* A definition begins.
LEMMA OpenOpened ==
  ASSUME TypeOK, Settled, defs' = defs + 1,
         NEW name, NEW noname, compiling' = Context(name, noname), name # NoName,
         (Opened = {} /\ Topped) \/ Pushed, NextContexts
  PROVE  /\ Len(OpenTexts') = Len(OpenTexts) + 1
         /\ OpenTexts' = Append(OpenTexts,
                           [id |-> defs', name |-> Last(OpenTexts').name, text |-> <<>>])
<1> DEFINE v == Contexts
           x == Contexts'
           n == Len(Contexts)
           l == Len(Contexts')
           new == [id |-> defs + 1, name |-> name, text |-> <<>>]
<1>1. /\ Len(v) = n /\ n \in Nat \ {0} /\ DOMAIN v = 1..n /\ n \in 1..n
      /\ \A k \in 1..n : v[k].name # NoName => v[k] \in Opened
  <2>1. Len(v) = Len(comp_stack) + 1 /\ Len(comp_stack) \in Nat
    BY ContextsFacts, OpenFacts
  <2> QED BY <2>1, ContextsFacts DEF Opened
<1>2. /\ Len(x) = l /\ DOMAIN x = 1..l /\ x[l] = compiling' /\ l \in Nat /\ l \in 1..l
      /\ (l = n /\ Opened = {} /\ \A k \in 1..n : k # n => x[k] = v[k])
         \/ (l = n + 1 /\ \A k \in 1..n : x[k] = v[k])
  BY DEF Topped, Pushed, NextContexts
<1>3. RowOf(compiling') = new /\ compiling'.name # NoName
  <2>1. /\ compiling'.name = name /\ compiling'.def = defs + 1 /\ compiling'.code = <<>>
    BY ContextFields
  <2> QED BY <2>1 DEF RowOf
<1>4. \A m : IdleBelow(v, m) => OpenTexts = Rows(v, m)
  BY OpenIs
<1>5. \A m : IdleBelow(x, m) => OpenTexts' = Rows(x, m)
  BY OpenIsNext
<1>6. PICK m : IdleBelow(v, m)
  BY DEF Settled
<1> HIDE DEF v, x, n, l, new
<1>7. m \in 0..n
  BY <1>1, <1>6 DEF IdleBelow
<1>8. ASSUME NEW i \in 0..l, IdleBelow(x, i), l - i = n - m + 1,
             \A k \in 1..(n - m) : x[i + k] = v[m + k]
      PROVE  Len(OpenTexts') = Len(OpenTexts) + 1
             /\ OpenTexts' = Append(OpenTexts, new) /\ Last(OpenTexts') = new
  <2>1. /\ Len(v) \in Nat /\ Len(x) \in Nat /\ m \in 0..Len(v) /\ i \in 0..Len(x)
        /\ OneMore(x, i, v, m)
    BY <1>1, <1>2, <1>7, <1>8 DEF OneMore
  <2>2. /\ Len(Rows(x, i)) = Len(Rows(v, m)) + 1
        /\ Rows(x, i) = Append(Rows(v, m), RowOf(x[Len(x)]))
        /\ Last(Rows(x, i)) = RowOf(x[Len(x)])
    BY <2>1, RowsGrow
  <2>3. RowOf(x[Len(x)]) = new
    BY <1>2, <1>3
  <2>4. OpenTexts = Rows(v, m) /\ OpenTexts' = Rows(x, i)
    BY <1>4, <1>5, <1>6, <1>8
  <2> QED BY <2>2, <2>3, <2>4
<1>9. CASE l = n /\ Opened = {} /\ \A k \in 1..n : k # n => x[k] = v[k]
  <2>1. \A k \in 1..n : v[k].name = NoName
    BY <1>1, <1>9
  <2>2. m = n
    <3>1. m < n => n \in (m + 1)..n
      BY <1>1, <1>7
    <3>2. ~ (m < n)
      BY <1>1, <1>6, <2>1, <3>1 DEF IdleBelow
    <3> QED BY <1>1, <1>7, <3>2
  <2>3. n - 1 \in 0..l /\ (\A k \in 1..(n - 1) : k \in 1..n /\ k # n)
        /\ (\A k \in (n - 1 + 1)..l : k = n) /\ l - (n - 1) = n - m + 1
        /\ ~ \E k \in 1..(n - m) : TRUE
    BY <1>1, <1>9, <2>2
  <2>4. IdleBelow(x, n - 1)
    BY <1>2, <1>3, <1>9, <2>1, <2>3 DEF IdleBelow
  <2>5. Len(OpenTexts') = Len(OpenTexts) + 1
        /\ OpenTexts' = Append(OpenTexts, new) /\ Last(OpenTexts') = new
    BY <1>8, <2>3, <2>4
  <2> QED BY <2>5 DEF new
<1>10. CASE l = n + 1 /\ \A k \in 1..n : x[k] = v[k]
  <2>1. /\ m \in 0..l /\ \A k \in 1..m : k \in 1..n
        /\ \A k \in (m + 1)..l : k = l \/ (k \in (m + 1)..n /\ k \in 1..n)
        /\ l - m = n - m + 1
    <3>1. n \in Nat /\ l = n + 1 /\ m \in 0..n
      BY <1>1, <1>7, <1>10
    <3> QED BY <3>1
  <2>2. IdleBelow(x, m)
    BY <1>1, <1>2, <1>3, <1>6, <1>10, <2>1 DEF IdleBelow
  <2>3. \A k \in 1..(n - m) : x[m + k] = v[m + k]
    BY <1>1, <1>7, <1>10, RowPlaces
  <2>4. Len(OpenTexts') = Len(OpenTexts) + 1
        /\ OpenTexts' = Append(OpenTexts, new) /\ Last(OpenTexts') = new
    BY <1>8, <2>1, <2>2, <2>3
  <2> QED BY <2>4 DEF new
<1> QED BY <1>2, <1>9, <1>10

\* The innermost definition ends.
LEMMA OpenClosed ==
  ASSUME TypeOK, Settled, NextContexts, compiling.name # NoName,
         \/ Shortened
         \/ /\ Topped /\ compiling'.name = NoName
            /\ \A k \in DOMAIN comp_stack : comp_stack[k].name = NoName
  PROVE  /\ OpenTexts # <<>> /\ OpenTexts' = Front(OpenTexts)
         /\ Last(OpenTexts) = RowOf(compiling)
<1> DEFINE v == Contexts
           x == Contexts'
           n == Len(Contexts)
           l == Len(Contexts')
<1>1. /\ Len(v) = n /\ n \in Nat \ {0} /\ DOMAIN v = 1..n /\ v[n] = compiling /\ n \in 1..n
      /\ \A k \in 1..n : k # n => /\ k \in DOMAIN comp_stack /\ v[k] = comp_stack[k]
  <2>1. Len(v) = Len(comp_stack) + 1 /\ Len(comp_stack) \in Nat
    BY ContextsFacts, OpenFacts
  <2>2. \A k \in 1..n : k # n => k \in 1..Len(comp_stack)
    BY <2>1
  <2> QED BY <2>1, <2>2, ContextsFacts, OpenFacts
<1>2. /\ Len(x) = l /\ DOMAIN x = 1..l /\ x[l] = compiling' /\ l \in Nat /\ l \in 1..l
      /\ \/ l = n - 1 /\ \A k \in 1..l : x[k] = v[k]
         \/ /\ l = n /\ x[n].name = NoName
            /\ \A k \in 1..n : k # n => x[k] = v[k] /\ v[k].name = NoName
  BY <1>1 DEF Topped, Shortened, NextContexts
<1>3. \A m : IdleBelow(v, m) => OpenTexts = Rows(v, m)
  BY OpenIs
<1>4. \A m : IdleBelow(x, m) => OpenTexts' = Rows(x, m)
  BY OpenIsNext
<1>5. PICK m : IdleBelow(v, m)
  BY DEF Settled
<1> HIDE DEF v, x, n, l
<1>6. m \in 0..n
  BY <1>1, <1>5 DEF IdleBelow
<1>7. m # n
  <2>1. m = n => n \in 1..m
    BY <1>1
  <2> QED BY <1>1, <1>5, <2>1 DEF IdleBelow
<1>8. ASSUME NEW i \in 0..l, IdleBelow(x, i), n - m = l - i + 1,
             \A k \in 1..(l - i) : x[i + k] = v[m + k]
      PROVE  /\ OpenTexts # <<>> /\ OpenTexts' = Front(OpenTexts)
             /\ Last(OpenTexts) = RowOf(compiling)
  <2>1. /\ Len(v) \in Nat /\ Len(x) \in Nat /\ m \in 0..Len(v) /\ i \in 0..Len(x)
        /\ OneMore(v, m, x, i)
    BY <1>1, <1>2, <1>6, <1>8 DEF OneMore
  <2>2. /\ Last(Rows(v, m)) = RowOf(v[Len(v)])
        /\ Rows(x, i) = Front(Rows(v, m)) /\ Rows(v, m) # <<>>
    BY <2>1, RowsGrow
  <2>3. OpenTexts = Rows(v, m) /\ OpenTexts' = Rows(x, i)
    BY <1>3, <1>4, <1>5, <1>8
  <2> QED BY <1>1, <2>2, <2>3
<1>9. CASE l = n - 1 /\ \A k \in 1..l : x[k] = v[k]
  <2>1. m \in 0..l /\ (\A k \in 1..m : k \in 1..l) /\ n - m = l - m + 1
        /\ (\A k \in (m + 1)..l : k \in 1..l /\ k \in (m + 1)..n)
    BY <1>1, <1>6, <1>7, <1>9
  <2>2. IdleBelow(x, m)
    BY <1>1, <1>2, <1>5, <1>9, <2>1 DEF IdleBelow
  <2>3. \A k \in 1..(l - m) : x[m + k] = v[m + k]
    BY <1>2, <1>9, <2>1, RowPlaces
  <2> QED BY <1>8, <2>1, <2>2, <2>3
<1>10. CASE /\ l = n /\ x[n].name = NoName
            /\ \A k \in 1..n : k # n => x[k] = v[k] /\ v[k].name = NoName
  <2>1. m = n - 1
    <3>1. m < n - 1 => m + 1 \in (m + 1)..n /\ m + 1 \in 1..n /\ m + 1 # n
      BY <1>1, <1>6
    <3>2. ~ (m < n - 1)
      BY <1>1, <1>5, <1>10, <3>1 DEF IdleBelow
    <3> QED BY <1>1, <1>6, <1>7, <3>2
  <2>2. \A k \in 1..n : x[k].name = NoName
    BY <1>10
  <2>3. n \in 0..l /\ (~ \E k \in (n + 1)..n : TRUE) /\ n - m = l - n + 1
        /\ ~ \E k \in 1..(l - n) : TRUE
    BY <1>1, <1>10, <2>1
  <2>4. IdleBelow(x, n)
    BY <1>2, <1>10, <2>2, <2>3 DEF IdleBelow
  <2> QED BY <1>8, <2>3, <2>4
<1> QED BY <1>2, <1>9, <1>10
-----------------------------------------------------------------------------
(* The steps of Definitions                                                *)

\* A step of Definitions, or none.
Follows == Texts!Next \/ UNCHANGED <<OpenTexts, MadeTexts, defs>>

\* Definitions has its own names for the last of a sequence and the rest.
LEMMA SameEnds == \A s : Texts!Last(s) = Last(s) /\ Texts!Front(s) = Front(s)
BY DEF Texts!Last, Texts!Front, Last, Front

\* The words of definitions that have ended keep their threads, and a new word
\* is that of the innermost definition.
MadeStay ==
  /\ DefsKept
  /\ \A w \in DOMAIN words' :
       w \in DOMAIN words \/ (words'[w].def = compiling.def /\ compiling.name # NoName)
  /\ \A u \in DOMAIN words : words[u].def \in MadeDefs => words'[u].thread = words[u].thread

\* The innermost definition stays the innermost.
SameInnermost ==
  /\ comp_stack' = comp_stack /\ defs' = defs
  /\ compiling'.name = compiling.name /\ compiling'.noname = compiling.noname
  /\ compiling'.def = compiling.def

\* Then the texts that are made stay.
LEMMA MadeStays ==
  ASSUME TypeOK, Progress, Nestled, Nestled', SameInnermost, MadeStay
  PROVE  MadeTexts' = MadeTexts
<1>1. Topped /\ NextContexts
  BY ToppedBy DEF SameInnermost
<1>2. MadeDefs' = MadeDefs
  BY <1>1, SameMade DEF SameInnermost, MadeStay
<1>3. Became /\ Distinct(words) /\ Distinct(words')
  BY DEF Nestled, Numbered
<1>4. MadeTexts' = MadeTexts
  BY <1>2, <1>3, MadeSame DEF MadeStay
<1> QED BY <1>4

\* Nothing is written: no step of Definitions.
LEMMA FollowsNone ==
  ASSUME TypeOK, Progress, Nestled, Nestled', SameInnermost, MadeStay,
         compiling.name # NoName => compiling'.code = compiling.code
  PROVE  Follows
<1>1. Topped /\ NextContexts
  BY ToppedBy DEF SameInnermost
<1>2. MadeTexts' = MadeTexts
  BY MadeStays
<1>3. OpenTexts' = OpenTexts
  BY <1>1, OpenSame DEF SameInnermost, Nestled
<1> QED BY <1>2, <1>3 DEF Follows, SameInnermost

\* An instruction is written to the innermost definition: Write.
LEMMA FollowsWrite ==
  ASSUME TypeOK, Progress, Nestled, Nestled', SameInnermost, MadeStay,
         compiling.name # NoName, NEW item, compiling'.code = Append(compiling.code, item)
  PROVE  Follows
<1>1. Topped /\ NextContexts
  BY ToppedBy DEF SameInnermost
<1>2. MadeTexts' = MadeTexts
  BY MadeStays
<1>3. /\ OpenTexts # <<>> /\ Len(OpenTexts') = Len(OpenTexts)
      /\ Front(OpenTexts') = Front(OpenTexts)
      /\ Last(OpenTexts').text # <<>>
      /\ OpenTexts'[Len(OpenTexts)] =
           [Last(OpenTexts) EXCEPT !.text = Append(@, Last(Last(OpenTexts').text))]
  BY <1>1, OpenWritten DEF SameInnermost, Nestled
<1>4. defs' = defs
  BY DEF SameInnermost
<1>5. Texts!Write
  <2>1. /\ Texts!Front(OpenTexts') = Front(OpenTexts')
        /\ Texts!Front(OpenTexts) = Front(OpenTexts)
        /\ Texts!Last(OpenTexts') = Last(OpenTexts')
        /\ Texts!Last(OpenTexts) = Last(OpenTexts)
        /\ Texts!Last(Last(OpenTexts').text) = Last(Last(OpenTexts').text)
    BY SameEnds
  <2> QED BY <1>2, <1>3, <1>4, <2>1 DEF Texts!Write
<1> QED BY <1>5 DEF Follows, Texts!Next

\* Steps that leave the threads and the definitions in progress alone.
LEMMA StillFollows ==
  ASSUME TypeOK, Progress, Nestled, SameInnermost, SameThreads, SameDict \/ Opened = {},
         compiling'.predefined = compiling.predefined,
         compiling.name # NoName => compiling'.code = compiling.code
  PROVE  Nestled' /\ Follows
<1>1. Topped /\ NextContexts
  BY ToppedBy DEF SameInnermost
<1>2. Nestled'
  BY <1>1, NestledStays DEF SameInnermost
<1>3. MadeStay
  BY DEF MadeStay, DefsKept, SameThreads
<1> QED BY <1>2, <1>3, FollowsNone

\* An instruction is compiled to the innermost definition, if there is one.
LEMMA EmitFollows ==
  ASSUME TypeOK, Progress, Nestled, UNCHANGED <<words, wordlists, current_wl, comp_stack, defs>>,
         NEW item, Emit(item)
  PROVE  Nestled' /\ Follows
<1>1. compiling \in ContextType
  BY OpenFacts
<1>2. /\ compiling'.name = compiling.name /\ compiling'.noname = compiling.noname
      /\ compiling'.predefined = compiling.predefined /\ compiling'.def = compiling.def
      /\ compiling'.code = Append(compiling.code, item)
  BY <1>1 DEF Emit, ContextType
<1>3. SameInnermost /\ SameThreads /\ SameDict
  BY <1>2 DEF SameInnermost, SameThreads, SameDict, Dict, Wordlist
<1>4. Topped /\ NextContexts
  BY ToppedBy
<1>5. Nestled'
  BY <1>2, <1>3, <1>4, NestledStays
<1>6. MadeStay
  BY DEF MadeStay, DefsKept
<1>7. CASE compiling.name # NoName
  BY <1>2, <1>3, <1>5, <1>6, <1>7, FollowsWrite
<1>8. CASE compiling.name = NoName
  BY <1>3, <1>5, <1>6, <1>8, FollowsNone
<1> QED BY <1>5, <1>7, <1>8

\* RECURSIVE and RECURSE enter the word of the innermost definition; RECURSE
\* compiles a call of it too.
LEMMA EntersFollows ==
  ASSUME TypeOK, Progress, Nestled, SameInnermost, current_wl' = current_wl,
         compiling.name # NoName, ~compiling.noname, NEW hidden, Predefine(hidden),
         compiling'.predefined,
         \/ compiling'.code = compiling.code
         \/ \E item : compiling'.code = Append(compiling.code, item)
  PROVE  Nestled' /\ Follows
<1>1. /\ OnlyWord(NextWid) /\ Dict'[compiling.name] = NextWid
      /\ words'[NextWid].thread = <<>>
  BY PredefineOnly
<1>2. Topped /\ NextContexts
  BY ToppedBy DEF SameInnermost
<1>3. Named(compiling)
  BY DEF Named
<1>4. Nestled'
  BY <1>1, <1>2, <1>3, NestledEnters DEF SameInnermost, Progress
<1>5. MadeStay
  <2>1. \A w \in DOMAIN words' : w # NextWid => w \in DOMAIN words
    BY <1>1 DEF OnlyWord
  <2>2. words'[NextWid].def = compiling.def
    BY <1>1 DEF OnlyWord
  <2>3. NextWid \notin DOMAIN words
    <3>1. DOMAIN words = 1..Len(words) /\ Len(words) \in Nat
      BY TypeParts, WordFacts
    <3> QED BY <3>1 DEF NextWid
  <2>4. \A w \in DOMAIN words : w \in DOMAIN words' /\ words'[w] = words[w]
    BY <1>1, <2>3 DEF OnlyWord
  <2> QED BY <2>1, <2>2, <2>4 DEF MadeStay, DefsKept
<1>6. CASE compiling'.code = compiling.code
  BY <1>4, <1>5, <1>6, FollowsNone
<1>7. CASE \E item : compiling'.code = Append(compiling.code, item)
  BY <1>4, <1>5, <1>7, FollowsWrite
<1> QED BY <1>4, <1>6, <1>7

\* A definition begins: Open.
LEMMA OpenFollows ==
  ASSUME TypeOK, Progress, Nestled, UNCHANGED <<words, wordlists, current_wl>>,
         defs' = defs + 1, NEW name, NEW noname, compiling' = Context(name, noname),
         name # NoName,
         \/ Opened = {} /\ comp_stack' = comp_stack
         \/ comp_stack' = Append(comp_stack, compiling)
  PROVE  Nestled' /\ Follows
<1>1. ((Opened = {} /\ Topped) \/ Pushed) /\ NextContexts
  BY ToppedBy, PushedBy
<1>2. Nestled'
  BY <1>1, NestledOpens
<1>3. /\ Len(OpenTexts') = Len(OpenTexts) + 1
      /\ OpenTexts' = Append(OpenTexts,
                        [id |-> defs', name |-> Last(OpenTexts').name, text |-> <<>>])
  BY <1>1, OpenOpened DEF Nestled
<1>4. MadeDefs' = MadeDefs
  <2> DEFINE v == Contexts
             x == Contexts'
             n == Len(Contexts)
             l == Len(Contexts')
  <2>1. /\ DOMAIN v = 1..n /\ n \in Nat \ {0}
        /\ \A k \in 1..n : v[k].name # NoName => v[k] \in Opened
    <3>1. Len(v) = Len(comp_stack) + 1 /\ Len(comp_stack) \in Nat
      BY ContextsFacts, OpenFacts
    <3> QED BY <3>1, ContextsFacts DEF Opened
  <2>2. /\ DOMAIN x = 1..l /\ x[l] = compiling' /\ l \in Nat
        /\ (l = n /\ Opened = {} /\ \A k \in 1..n : k # n => x[k] = v[k])
           \/ (l = n + 1 /\ \A k \in 1..n : x[k] = v[k])
    BY <1>1 DEF Topped, Pushed, NextContexts
  <2>3. compiling'.def = defs + 1
    BY ContextFields
  <2>4. MadeDefs = DefsOf(words) \ OpenOf(v) /\ MadeDefs' = DefsOf(words) \ OpenOf(x)
    BY <1>1, MadeDefsIs DEF NextContexts
  <2> HIDE DEF v, x, n, l
  <2>5. \A k \in 1..l : k = l \/ (k \in 1..n /\ x[k] = v[k])
    BY <2>1, <2>2
  <2>6. \A k \in 1..n : v[k].name # NoName => k \in 1..l /\ x[k] = v[k]
    BY <2>1, <2>2
  <2>7. OpenOf(x) \subseteq OpenOf(v) \union {defs + 1}
    BY <2>1, <2>2, <2>3, <2>5 DEF OpenOf
  <2>8. OpenOf(v) \subseteq OpenOf(x)
    BY <2>1, <2>2, <2>6 DEF OpenOf
  <2>9. defs + 1 \notin DefsOf(words)
    <3>1. defs \in Nat /\ \A w \in DOMAIN words : words[w].def \in Nat /\ words[w].def <= defs
      BY TypeParts, WordFacts DEF OpenTyped, Nestled, Numbered
    <3>2. \A w \in DOMAIN words : words[w].def # defs + 1
      BY <3>1
    <3> QED BY <3>2 DEF DefsOf
  <2> QED BY <2>4, <2>7, <2>8, <2>9
<1>5. MadeTexts' = MadeTexts
  <2>1. Became /\ Distinct(words) /\ DefsKept
    BY DEF Nestled, Numbered, DefsKept
  <2> QED BY <1>4, <2>1, MadeSame
<1>6. Texts!Open
  <2>1. Texts!Last(OpenTexts') = Last(OpenTexts')
    BY SameEnds
  <2> QED BY <1>3, <1>5, <2>1 DEF Texts!Open
<1> QED BY <1>2, <1>6 DEF Follows, Texts!Next

\* A word is made at once: Make.
LEMMA MakeFollows ==
  ASSUME TypeOK, Progress, Nestled, Opened = {}, UNCHANGED <<compiling, comp_stack>>,
         defs' = defs + 1, NEW word, Added(word), word.def = defs + 1, word.thread # <<>>
  PROVE  Nestled' /\ Follows
<1>1. Topped /\ NextContexts
  BY ToppedBy
<1>2. Nestled'
  BY <1>1, NestledMakes
<1>3. DefsKept /\ \A w \in DOMAIN words : words'[w] = words[w]
  BY DEF DefsKept, Added, NextWid
<1>4. OpenTexts' = OpenTexts
  BY <1>1, OpenSame DEF Nestled
<1>5. MadeDefs' = MadeDefs \union {defs + 1}
  <2>1. OpenOf(Contexts) = {}
    <3>1. \A k \in DOMAIN Contexts : Contexts[k].name # NoName => Contexts[k] \in Opened
      BY ContextsFacts DEF Opened
    <3> QED BY <3>1 DEF OpenOf
  <2>2. Contexts' = Contexts
    BY DEF Contexts
  <2>3. MadeDefs = DefsOf(words) /\ MadeDefs' = DefsOf(words')
    BY <1>1, <2>1, <2>2, MadeDefsIs DEF NextContexts
  <2>4. DefsOf(words') = DefsOf(words) \union {defs + 1}
    <3>1. \A w \in DOMAIN words' : w \in DOMAIN words \/ w = NextWid
      BY DEF Added, NextWid
    <3>2. NextWid \in DOMAIN words' /\ words'[NextWid].def = defs + 1
      BY DEF Added, NextWid
    <3> QED BY <1>3, <3>1, <3>2 DEF DefsOf, DefsKept
  <2> QED BY <2>3, <2>4
<1>6. \A d \in MadeDefs : MadeTexts'[d] = MadeTexts[d]
  <2>1. Became /\ Distinct(words) /\ Distinct(words')
    BY <1>2 DEF Nestled, Numbered
  <2>2. \A d \in MadeDefs : d \in MadeDefs'
    BY <1>5
  <2> QED BY <1>3, <2>1, <2>2, MadeKept
<1>7. DOMAIN MadeTexts = MadeDefs /\ DOMAIN MadeTexts' = MadeDefs'
  BY DEF MadeTexts
<1>8. Texts!Make
  BY <1>4, <1>5, <1>6, <1>7 DEF Texts!Make
<1> QED BY <1>2, <1>8 DEF Follows, Texts!Next

\* The contexts when the innermost definition ends.
LEMMA OpenEnds ==
  ASSUME TypeOK, Nestled, NextContexts, compiling.name # NoName,
         \/ Shortened
         \/ /\ Topped /\ compiling'.name = NoName
            /\ \A k \in DOMAIN comp_stack : comp_stack[k].name = NoName
  PROVE  OpenOf(Contexts') = OpenOf(Contexts) \ {compiling.def} /\ compiling.def \in OpenOf(Contexts)
<1> DEFINE v == Contexts
           x == Contexts'
           n == Len(Contexts)
           l == Len(Contexts')
<1>1. /\ Len(v) = n /\ n \in Nat \ {0} /\ DOMAIN v = 1..n /\ v[n] = compiling /\ n \in 1..n
      /\ \A k \in 1..n : k # n => k \in DOMAIN comp_stack /\ v[k] = comp_stack[k]
  <2>1. Len(v) = Len(comp_stack) + 1 /\ Len(comp_stack) \in Nat
    BY ContextsFacts, OpenFacts
  <2>2. \A k \in 1..n : k # n => k \in 1..Len(comp_stack)
    BY <2>1
  <2> QED BY <2>1, <2>2, ContextsFacts, OpenFacts
<1>2. /\ DOMAIN x = 1..l /\ l \in Nat
      /\ \/ l = n - 1 /\ \A k \in 1..l : x[k] = v[k]
         \/ /\ l = n /\ x[n].name = NoName
            /\ \A k \in 1..n : k # n => x[k] = v[k] /\ v[k].name = NoName
  BY <1>1 DEF Topped, Shortened, NextContexts
<1>3. \A j, k \in DOMAIN v :
        j # k /\ v[j].name # NoName /\ v[k].name # NoName => v[j].def # v[k].def
  BY DEF Nestled, Numbered
<1> HIDE DEF v, x, n, l
<1>4. compiling.def \in OpenOf(v)
  BY <1>1 DEF OpenOf
<1>5. \A k \in 1..n : k # n /\ v[k].name # NoName => v[k].def # compiling.def
  BY <1>1, <1>3
<1>6. \A k \in 1..l : x[k].name # NoName => k \in 1..n /\ k # n /\ x[k] = v[k]
  BY <1>1, <1>2
<1>7. \A k \in 1..n : k # n /\ v[k].name # NoName => k \in 1..l /\ x[k] = v[k]
  BY <1>1, <1>2
<1>8. OpenOf(x) \subseteq OpenOf(v) \ {compiling.def}
  BY <1>1, <1>2, <1>5, <1>6 DEF OpenOf
<1>9. OpenOf(v) \ {compiling.def} \subseteq OpenOf(x)
  BY <1>1, <1>2, <1>7 DEF OpenOf
<1> QED BY <1>4, <1>8, <1>9 DEF v, x

\* The innermost definition ends: Close.
LEMMA CloseFollows ==
  ASSUME TypeOK, Progress, Nestled, compiling.name # NoName, Finalize,
         current_wl' = current_wl, defs' = defs,
         \/ /\ comp_stack # <<>> /\ compiling' = Last(comp_stack)
            /\ comp_stack' = Front(comp_stack)
         \/ /\ compiling' = Finished /\ comp_stack' = comp_stack
            /\ \A k \in DOMAIN comp_stack : comp_stack[k].name = NoName
  PROVE  Nestled' /\ Follows
<1> DEFINE c == compiling.def
           code == compiling.code
           row == Last(OpenTexts)
<1>1. PICK own : OnlyWord(own) /\ words'[own].thread = Append(code, <<"exit">>)
  BY FinalizeOnly
<1>2. /\ code \in Seq(Instruction) /\ <<"exit">> \in Instruction
      /\ Append(code, <<"exit">>) # <<>>
  <2>1. code \in Seq(Instruction) /\ <<"exit">> \in Instruction
    BY OpenFacts, Instructions DEF ContextType
  <2> QED BY <2>1, AppendLast
<1>3. /\ NextContexts
      /\ \/ Shortened
         \/ /\ Topped /\ compiling'.name = NoName /\ compiling'.def <= defs
            /\ \A k \in DOMAIN comp_stack : comp_stack[k].name = NoName
  <2>1. CASE /\ comp_stack # <<>> /\ compiling' = Last(comp_stack)
             /\ comp_stack' = Front(comp_stack)
    BY <2>1, ShortenedBy
  <2>2. CASE /\ compiling' = Finished /\ comp_stack' = comp_stack
             /\ \A k \in DOMAIN comp_stack : comp_stack[k].name = NoName
    <3>1. Topped /\ NextContexts
      BY <2>2, ToppedBy
    <3>2. compiling \in ContextType /\ defs \in Nat
      BY OpenFacts, TypeParts DEF OpenTyped
    <3>3. Finished.name = NoName /\ Finished.def = 0
      BY <3>2 DEF Finished, ContextType
    <3> QED BY <2>2, <3>1, <3>2, <3>3
  <2> QED BY <2>1, <2>2
<1>4. Nestled'
  BY <1>2, <1>1, <1>3, NestledCloses DEF Progress
<1>5. DefsKept
  BY <1>1 DEF OnlyWord, DefsKept
<1>6. /\ OpenTexts # <<>> /\ OpenTexts' = Front(OpenTexts)
      /\ row = RowOf(compiling)
  BY <1>3, OpenClosed DEF Nestled
<1>7. OpenOf(Contexts') = OpenOf(Contexts) \ {c} /\ c \in OpenOf(Contexts)
  BY <1>3, OpenEnds
<1>8. DefsOf(words') = DefsOf(words) \union {c}
  BY <1>1 DEF OnlyWord, DefsOf
<1>9. MadeDefs = DefsOf(words) \ OpenOf(Contexts) /\ MadeDefs' = DefsOf(words') \ OpenOf(Contexts')
  BY <1>3, MadeDefsIs DEF NextContexts
<1>10. MadeDefs' = MadeDefs \union {c} /\ c \notin MadeDefs
  BY <1>7, <1>8, <1>9
<1>11. row.id = c /\ row.text = code
  BY <1>6 DEF RowOf
<1>12. Became /\ Distinct(words) /\ Distinct(words')
  BY <1>4 DEF Nestled, Numbered
<1>13. \A d \in MadeDefs : MadeTexts'[d] = MadeTexts[d]
  <2>1. \A u \in DOMAIN words :
          words[u].def \in MadeDefs => words'[u].thread = words[u].thread
    BY <1>1, <1>5, <1>10 DEF OnlyWord, DefsKept
  <2>2. \A d \in MadeDefs : d \in MadeDefs'
    BY <1>10
  <2> QED BY <1>5, <1>12, <2>1, <2>2, MadeKept
<1>14. MadeTexts'[c] = code
  <2>1. own \in DOMAIN words' /\ words'[own].def = c
    BY <1>1 DEF OnlyWord
  <2>2. MadeTexts'[c] = Front(words'[own].thread)
    BY <1>2, <1>1, <1>10, <1>12, <2>1, MadeTextsNext
  <2>3. Front(Append(code, <<"exit">>)) = code
    <3> DEFINE t == Append(code, <<"exit">>)
               S == Instruction
    <3>1. /\ t \in Seq(S) /\ Len(t) = Len(code) + 1
          /\ \A k \in 1..Len(code) : t[k] = code[k]
      BY <1>2, AppendProperties
    <3>2. code \in Seq(S)
      BY <1>2
    <3> HIDE DEF t, S
    <3>3. code = Front(t)
      BY <3>1, <3>2, MoreIs
    <3> QED BY <3>3 DEF t
  <2> QED BY <1>1, <2>2, <2>3
<1> HIDE DEF c, code, row
<1>15. DOMAIN MadeTexts = MadeDefs
  BY DEF MadeTexts
<1>16. MadeTexts' = [d \in MadeDefs' |-> MadeTexts'[d]]
  BY DEF MadeTexts
<1>17. MadeTexts' = [d \in DOMAIN MadeTexts \union {row.id} |->
                      IF d = row.id THEN row.text ELSE MadeTexts[d]]
  <2>1. \A d \in MadeDefs' : MadeTexts'[d] = IF d = row.id THEN row.text ELSE MadeTexts[d]
    BY <1>10, <1>11, <1>13, <1>14
  <2>2. MadeDefs' = DOMAIN MadeTexts \union {row.id}
    BY <1>10, <1>11, <1>15
  <2> QED BY <1>16, <2>1, <2>2
<1>18. Texts!Close
  <2>1. Texts!Front(OpenTexts) = Front(OpenTexts) /\ Texts!Last(OpenTexts) = row
    BY SameEnds DEF row
  <2> QED BY <1>6, <1>17, <2>1 DEF Texts!Close
<1> QED BY <1>4, <1>18 DEF Follows, Texts!Next

\* Steps that Definitions does not see.
LEMMA FollowsStill ==
  ASSUME TypeOK, Progress, Nestled,
         \/ UNCHANGED vars
         \/ MakeWordlist \/ Assign \/ Immediate \/ RunStore \/ RunImmediate
         \/ InterpretOrder \/ RunOrder \/ RightBracket \/ LeftBracket
         \/ Execute \/ RunPlain \/ RunCall
  PROVE  Nestled' /\ Follows
<1>1. /\ comp_stack' = comp_stack /\ defs' = defs
      /\ compiling' = compiling \/ \E s : compiling' = [compiling EXCEPT !.state = s]
  <2>1. CASE RightBracket \/ LeftBracket
    BY <2>1 DEF RightBracket, LeftBracket
  <2>2. CASE ~(RightBracket \/ LeftBracket)
    BY <2>2 DEF vars, MakeWordlist, Assign, Immediate, RunStore, RunImmediate, InterpretOrder,
       RunOrder, Execute, RunPlain, RunCall, openVars
  <2> QED BY <2>1, <2>2
<1>2. /\ SameInnermost /\ compiling'.predefined = compiling.predefined
      /\ compiling'.code = compiling.code
  <2>1. compiling \in ContextType
    BY OpenFacts
  <2> QED BY <1>1, <2>1 DEF SameInnermost, ContextType
<1>3. CASE Assign \/ Immediate \/ RunStore \/ RunImmediate
  <2>1. SameThreads /\ SameDict
    BY <1>3, ChangeThreads DEF SameDict, Dict, Wordlist, Assign, Immediate, RunStore,
       RunImmediate, listVars
  <2> QED BY <1>2, <2>1, StillFollows
<1>4. CASE MakeWordlist
  <2>1. words' = words /\ current_wl' = current_wl /\ SameLists
    BY <1>4, SameListsBy DEF MakeWordlist, wordVars
  <2>2. SameDict
    BY <2>1, DictAfter
  <2> QED BY <1>2, <2>1, <2>2, StillFollows DEF SameThreads
<1>5. CASE InterpretOrder \/ RunOrder
  <2>1. words' = words
    BY <1>5 DEF InterpretOrder, RunOrder, wordVars
  <2>2. CASE \E op : Reorder(op)
    <3>1. SameDict
      BY <2>2 DEF Reorder, listVars, SameDict, Dict, Wordlist
    <3> QED BY <1>2, <2>1, <3>1, StillFollows DEF SameThreads
  <2>3. CASE \E op : SetCurrent(op)
    <3>1. Opened = {}
      BY <2>3 DEF SetCurrent
    <3> QED BY <1>2, <2>1, <3>1, StillFollows DEF SameThreads
  <2> QED BY <1>5, <2>2, <2>3 DEF InterpretOrder, RunOrder
<1>6. CASE \/ UNCHANGED vars \/ RightBracket \/ LeftBracket \/ Execute \/ RunPlain \/ RunCall
  <2>1. UNCHANGED <<words, wordlists, current_wl>>
    BY <1>6 DEF vars, RightBracket, LeftBracket, Execute, RunPlain, RunCall, listVars, wordVars
  <2>2. SameThreads /\ SameDict
    BY <2>1 DEF SameThreads, SameDict, Dict, Wordlist
  <2> QED BY <1>2, <2>2, StillFollows
<1> QED BY <1>3, <1>4, <1>5, <1>6

\* Steps that compile.
LEMMA FollowsCompiling ==
  ASSUME TypeOK, Progress, Nestled,
         \/ CompileName \/ CompileItem \/ Postpone \/ CompileAssign \/ RunPostpone
         \/ Recursive \/ Recurse
  PROVE  Nestled' /\ Follows
<1>1. CASE \/ CompileName \/ CompileItem \/ Postpone \/ CompileAssign \/ RunPostpone
  <2>1. UNCHANGED <<words, wordlists, current_wl, comp_stack, defs>>
    BY <1>1 DEF CompileName, CompileItem, Postpone, CompileAssign, RunPostpone, listVars,
       wordVars
  <2>2. compiling' = compiling \/ \E item : Emit(item)
    <3>1. CASE CompileName
      BY <3>1, Zenon DEF CompileName
    <3>2. CASE CompileItem
      BY <3>2, Zenon DEF CompileItem
    <3>3. CASE Postpone \/ CompileAssign \/ RunPostpone
      BY <3>3, Zenon DEF Postpone, CompileAssign, RunPostpone
    <3> QED BY <1>1, <3>1, <3>2, <3>3
  <2>3. CASE compiling' = compiling
    <3>1. SameInnermost /\ SameThreads /\ SameDict
      BY <2>1, <2>3 DEF SameInnermost, SameThreads, SameDict, Dict, Wordlist
    <3> QED BY <2>3, <3>1, StillFollows
  <2>4. CASE \E item : Emit(item)
    BY <2>1, <2>4, EmitFollows
  <2> QED BY <2>2, <2>3, <2>4
<1>2. CASE Recursive \/ Recurse
  <2>1. /\ compiling.name # NoName /\ ~compiling.noname /\ compiling \in ContextType
        /\ UNCHANGED <<current_wl, comp_stack, defs>>
    BY <1>2, OpenFacts DEF Recursive, Recurse
  <2>2. CASE (\E item : Emit(item)) /\ UNCHANGED <<words, wordlists>>
    BY <2>1, <2>2, EmitFollows
  <2>3. ASSUME NEW hidden, Predefine(hidden), NEW code,
               compiling' = [compiling EXCEPT !.predefined = TRUE, !.code = code],
               code = compiling.code \/ \E item : code = Append(compiling.code, item)
        PROVE  Nestled' /\ Follows
    <3>1. SameInnermost /\ compiling'.predefined /\ compiling'.code = code
      BY <2>1, <2>3 DEF SameInnermost, ContextType
    <3> QED BY <2>1, <2>3, <3>1, EntersFollows
  <2>4. CASE Recursive
    <3>1. compiling' = [compiling EXCEPT !.predefined = TRUE, !.code = compiling.code]
      BY <2>1, <2>4 DEF Recursive, ContextType
    <3>2. Predefine(Own)
      BY <2>4 DEF Recursive
    <3> QED BY <2>3, <3>1, <3>2
  <2>5. CASE Recurse
    <3>1. RecurseWord
      BY <2>5 DEF Recurse
    <3> QED BY <2>2, <2>3, <3>1 DEF RecurseWord
  <2> QED BY <1>2, <2>4, <2>5
<1> QED BY <1>1, <1>2

\* Steps that begin or end a definition, or make a word.
LEMMA FollowsDefining ==
  ASSUME TypeOK, Progress, Nestled,
         \/ Colon \/ ColonNoname \/ RunBeginNamed \/ RunBeginNoname
         \/ Semicolon \/ RunEndDefinition \/ Vocabulary \/ Value \/ Defer
  PROVE  Nestled' /\ Follows
<1>1. CASE Colon \/ ColonNoname \/ RunBeginNamed \/ RunBeginNoname
  <2>1. UNCHANGED <<words, wordlists, current_wl>> /\ defs' = defs + 1
    BY <1>1 DEF Colon, ColonNoname, RunBeginNamed, RunBeginNoname, Nested, listVars, wordVars
  <2>2. \E name, noname : compiling' = Context(name, noname) /\ name # NoName
    <3>1. \A n \in Names : n # NoName
      BY NamesAssumption
    <3>2. Unnamed # NoName
      BY DEF Unnamed, NoName
    <3>3. CASE Colon
      BY <3>1, <3>3 DEF Colon
    <3>4. CASE ColonNoname
      BY <3>2, <3>4 DEF ColonNoname
    <3>5. CASE RunBeginNamed
      BY <3>1, <3>5 DEF RunBeginNamed, Nested
    <3>6. CASE RunBeginNoname
      BY <3>2, <3>6 DEF RunBeginNoname, Nested
    <3> QED BY <1>1, <3>3, <3>4, <3>5, <3>6
  <2>3. \/ Opened = {} /\ comp_stack' = comp_stack
        \/ comp_stack' = Append(comp_stack, compiling)
    BY <1>1 DEF Colon, ColonNoname, RunBeginNamed, RunBeginNoname, Nested
  <2> QED BY <2>1, <2>2, <2>3, OpenFollows
<1>2. CASE Semicolon \/ RunEndDefinition
  <2>1. /\ compiling.name # NoName /\ Finalize /\ current_wl' = current_wl /\ defs' = defs
    BY <1>2 DEF Semicolon, RunEndDefinition
  <2>2. \/ /\ comp_stack # <<>> /\ compiling' = Last(comp_stack)
           /\ comp_stack' = Front(comp_stack)
        \/ /\ compiling' = Finished /\ comp_stack' = comp_stack
           /\ \A k \in DOMAIN comp_stack : comp_stack[k].name = NoName
    <3>1. comp_stack = <<>> => \A k \in DOMAIN comp_stack : comp_stack[k].name = NoName
      BY OpenFacts, EmptySeq
    <3> QED BY <1>2, <3>1 DEF Semicolon, RunEndDefinition
  <2> QED BY <2>1, <2>2, CloseFollows
<1>3. CASE Vocabulary \/ Value \/ Defer
  <2>1. Opened = {} /\ UNCHANGED <<compiling, comp_stack>> /\ defs' = defs + 1
    BY <1>3 DEF Vocabulary, Value, Defer
  <2>2. \E n, kind, item, held :
          words' = Append(words, Word(n, kind, <<item, <<"exit">>>>, held, defs + 1))
    <3>1. CASE Vocabulary
      BY <3>1, Zenon DEF Vocabulary
    <3>2. CASE Value
      BY <3>2, Zenon DEF Value, Define
    <3>3. CASE Defer
      BY <3>3, Zenon DEF Defer, Define
    <3> QED BY <1>3, <3>1, <3>2, <3>3
  <2>3. PICK n, kind, item, held :
          words' = Append(words, Word(n, kind, <<item, <<"exit">>>>, held, defs + 1))
    BY <2>2
  <2> DEFINE word == Word(n, kind, <<item, <<"exit">>>>, held, defs + 1)
  <2>4. word.def = defs + 1 /\ word.thread # <<>> /\ words' = Append(words, word)
    BY <2>3, WordFields
  <2> HIDE DEF word
  <2>5. Added(word)
    BY <2>4, AddedBy
  <2> QED BY <2>1, <2>4, <2>5, MakeFollows
<1> QED BY <1>1, <1>2, <1>3

\* At the start there is one context, of no definition.
LEMMA NestledAtStart == Init => Nestled /\ Texts!Init
<1> SUFFICES ASSUME Init PROVE Nestled /\ Texts!Init
  OBVIOUS
<1>1. words = <<>> /\ DOMAIN words = {} /\ comp_stack = <<>> /\ defs = 0
      /\ compiling.name = NoName /\ compiling.def = 0
  BY DEF Init
<1>2. Len(Contexts) = 1 /\ DOMAIN Contexts = 1..1 /\ Contexts[1] = compiling
  <2>1. Len(Contexts) = Len(comp_stack) + 1 /\ DOMAIN Contexts = 1..Len(Contexts)
        /\ Contexts[Len(Contexts)] = compiling
    BY InitTypeOK, ContextsFacts
  <2>2. Len(comp_stack) = 0
    BY <1>1, EmptySeq
  <2> QED BY <2>1, <2>2
<1>3. \A k \in DOMAIN Contexts : k = 1
  BY <1>2
<1>4. IdleBelow(Contexts, 1)
  <2>1. 1 \in 0..1 /\ (\A k \in 1..1 : k = 1) /\ ~ \E k \in (1 + 1)..1 : TRUE
    OBVIOUS
  <2> QED BY <1>1, <1>2, <2>1 DEF IdleBelow
<1>5. Nestled
  <2>1. Numbered
    BY <1>1, <1>2, <1>3 DEF Numbered, Distinct
  <2>2. Owned
    BY <1>1, <1>2, <1>3 DEF Owned
  <2>3. Settled
    BY <1>4 DEF Settled
  <2>4. Became
    BY <1>1 DEF Became, DefsOf
  <2> QED BY <2>1, <2>2, <2>3, <2>4 DEF Nestled
<1>6. OpenTexts = <<>>
  <2>1. OpenTexts = Rows(Contexts, 1)
    BY <1>4, InitTypeOK, OpenIs
  <2>2. Len(Contexts) \in Nat /\ 1 \in 0..Len(Contexts) /\ Len(Contexts) - 1 = 0
    BY <1>2
  <2>3. /\ Rows(Contexts, 1) \in Seq(Range(Rows(Contexts, 1)))
        /\ Len(Rows(Contexts, 1)) = Len(Contexts) - 1
    BY <2>2, RowsSeq
  <2>4. Len(Rows(Contexts, 1)) = 0
    BY <2>2, <2>3
  <2> QED BY <2>1, <2>3, <2>4, EmptySeq
<1>7. MadeTexts = <<>>
  <2>1. MadeDefs = {}
    BY <1>1, InitTypeOK, MadeDefsIs DEF DefsOf
  <2>2. MadeTexts = [k \in 1..0 |-> Front(WordOf(k).thread)]
    BY <2>1 DEF MadeTexts
  <2>3. \A k \in 1..0 : Front(WordOf(k).thread) \in {}
    OBVIOUS
  <2>4. [k \in 1..0 |-> Front(WordOf(k).thread)] \in Seq({})
    BY <2>3, IsASeq
  <2>5. Len(MadeTexts) = 0 /\ MadeTexts \in Seq({})
    <3>1. DOMAIN MadeTexts = 1..Len(MadeTexts) /\ Len(MadeTexts) \in Nat
      BY <2>2, <2>4, LenProperties
    <3>2. DOMAIN MadeTexts = {}
      BY <2>1 DEF MadeTexts
    <3> QED BY <2>2, <2>4, <3>1, <3>2
  <2> QED BY <2>5, EmptySeq
<1> QED BY <1>1, <1>5, <1>6, <1>7 DEF Texts!Init

\* Definitions nest: whatever running words open, close and name between the
\* tokens of the text, each definition gets the text compiled while it was the
\* innermost, and one word of it has that text for ever, though RECURSIVE may have
\* entered others, which stay empty.
THEOREM DefinitionsNest == Spec => IsDefinitions
<1>1. TypeOK /\ Progress /\ Nestled /\ [Next]_vars => Nestled' /\ [Texts!Next]_(Texts!vars)
  <2> SUFFICES ASSUME TypeOK, Progress, Nestled, [Next]_vars
               PROVE  Nestled' /\ [Texts!Next]_(Texts!vars)
    OBVIOUS
  <2>1. Nestled' /\ Follows
    BY FollowsStill, FollowsCompiling, FollowsDefining DEF Next
  <2> QED BY <2>1 DEF Follows, Texts!vars
<1> QED BY <1>1, NestledAtStart, Typed, ProgressInvariant, PTL DEF Spec, IsDefinitions, Texts!Spec
=============================================================================
