# RPyForth: a verification project

RPyForth (`src/rpyforth/`) is an ANS-Forth interpreter in RPython, translated
with a tracing JIT. Its stacks are kept in scalars, a frame and a spill area so
that the JIT can hold them in registers; its calls, exceptions and loops run on
stacks of its own; its compiler inlines, splices and turns calls into jumps. All
of that must be invisible to a Forth program. This directory models those parts
in TLA+, checks them with TLC, and proves the stack layout, the dispatch loop, the
search order and ALLOCATE correct with TLAPS.
`src/rpyfactor/` is a second interpreter, for a Factor subset with combinators and
quotations, and is modelled as well.

## 1. The system

| part | state | operations | depends on |
|---|---|---|---|
| integer data stack, two scalars (`metastack_int.py`) | `t0 t1 frame spill`, `cache_depth spill_ptr` | push, pop, peek, poke, depth, reset; parking at a call; snapshot, restore | called by every primitive, by calls, CATCH and THROW |
| other layouts (`metastack_int_ntop.py`, `_frameonly.py`) | the same with 0, 4, 8 or 16 scalars | the same | chosen at build time |
| float stack (`metastack_float.py`) | the same over `ft0 ft1 fframe fspill` | the same | float primitives |
| dispatch loop (`inner_interp.py`) | the running thread and `ip`, control stack `cs_*`, `cs_base`, catch frames `ca_*`, loop stack `li ll lc_*`, return stack; and the Python stack | call, tail call, EXIT, EXECUTE, CATCH, THROW, ABORT, QUIT, DO .. LOOP | runs what the compiler has made; CATCH snapshots both data stacks |
| text interpreter (`outer_interp.py`) | the line, `>IN`, the lines of the file being included | interpret a line, parse, EVALUATE, INCLUDED, REFILL, RESTORE-INPUT | runs words through `execute_word_now`, is called by words |
| compiler (`outer_interp.py`) | code and literals, control stack `ctrl`, DOES> mark | control-flow words, calls, RECURSE, DOES>, `;` | the dictionary; its threads are run by the dispatch loop |
| ALLOCATE region (`primitives.py`, `heap.py`) | bump pointer, size headers, free lists by size | ALLOCATE, FREE, RESIZE | the byte heap |
| dictionary, wordlists, search order (`outer_interp.py`) | wordlists, `search_order`, `current_wl`, `order_is_default`; the definition in progress and `comp_stack`; `value_addrs`, `defer_ids` | definitions, SET-ORDER, VOCABULARY, .., RECURSE, VALUE, DEFER, TO, IS | compiler and text interpreter |
| data space and other primitives (`primitives.py`, `heap.py`) | heap bytes, `base`, the picture buffer, boxed strings | stores, moves, arithmetic, pictured output, strings | the stacks |
| entry point (`targetrpyforth.py`) | the lines of the main file | feeds lines, reports what nothing has caught | the text interpreter |
| rpyfactor: stack (`stackrep.py`) | the naive list, or two scalars, a frame and a spill over three planes, `frag_ptr` | push, pop, push and commit of a fragment, snapshot, restore | the primitives and the frames |
| rpyfactor: interpreter (`interp.py`) | the program and `ip`; a call stack of frames, one kind per combinator | words, quotations, some thirty combinators, nested executions of conditions | a fragment per frame |
| rpyfactor: values and primitives | | arithmetic, lists, comparison, stack words | the stack |

How they interact: there is one thread of control and no concurrency. What is
hard is that several stacks unwind together. A word under `EXECUTE`, `EVALUATE`
or `INCLUDED` runs in a nested `execute_thread`, a *portal* in the code's
comments; a THROW may have to end some portals and not others, bring the control
stack, the loop stack, the return stack and two cached data stacks back to where
a CATCH was, and leave the portals below in step with `cs_base`. The text
interpreter is re-entered from inside words and keeps its position partly in
fields, partly in a heap cell, partly in Python locals. What the compiler emits
is patched, moved and copied after it was emitted.

The behaviours that tests hardly reach, each at its line, are the `hazards` of
`PROJECT.json`; every property below answers to one of them.

### What makes each part correct

* data stack: whatever is parked, spilled or snapshot, a program sees one stack;
  an overflow changes nothing; a THROW restores the caught stack.
* dispatch loop: calls return where they were made, THROW lands in the innermost
  CATCH with everything as it was, wherever the portals are.
* text interpreter: each token is read once, in order, and a source that ends
  gives way to the one that opened it at the place it was left.
* compiler: a word does what its text says.
* ALLOCATE: blocks are disjoint and keep their contents; nothing is lost.
* dictionary: the fast lookup finds what the order says; definitions nest; the
  word that `;` finds by its name is filled in, and none is left empty but one that a
  later RECURSIVE has hidden; TO and IS change the word the program sees.
* arithmetic: sums and products are exact in two cells, quotients are rounded as
  their comments say (of /MOD comment and test disagree, section 5); what is printed is the number.
* rpyfactor: a program ends with the stack its structure means, whichever stack
  representation is built and whatever its frames park.

## 2. Modules

| module | what | source |
|---|---|---|
| `DataStack` | abstract: a sequence of cells, and what CATCH has saved of it | |
| `MetaStack` | the two-scalar layout; also read as the float stack | `metastack_int.py`, `metastack_float.py` |
| `MetaStackProofs` | proofs about `MetaStack` | |
| `MetaStackN` | NTOP scalars or none | `metastack_int_ntop.py`, `metastack_int_frameonly.py` |
| `MetaStackNProofs` | proofs about `MetaStackN` | |
| `ProtectedCalls` | abstract: a stack of activations, some protected by a CATCH | |
| `InnerInterp` | the dispatch loop and the words that transfer control | `inner_interp.py`, `primitives.py` |
| `InnerInterpProofs` | proofs about its stacks, and that it implements `ProtectedCalls` | |
| `Allocator` | abstract: blocks with contents, handed out and taken back | |
| `AllocRegion` | ALLOCATE, FREE, RESIZE over the bytes of the region | `primitives.py`, `heap.py` |
| `AllocRegionProofs` | proofs about `AllocRegion`, with the refinement | |
| `InputSource` | abstract: a stack of sources, each a file or a string | |
| `SourceInput` | the fields and Python frames of the text interpreter | `outer_interp.py` |
| `SourceInputProofs` | proofs about `SourceInput`, and that it implements `InputSource` | |
| `Compiler` | control-flow words to finished threads, and what these do | `outer_interp.py` |
| `CompilerProofs` | proofs about the control stack of `Compiler` | |
| `Definitions` | abstract: open definitions nest, the texts of finished ones stay | |
| `Dictionary` | search order, words, definitions in definitions, VALUE and DEFER | `outer_interp.py`, `primitives.py`, `objects.py` |
| `DictionaryProofs` | proofs about `Dictionary`, and that it implements `Definitions` | |
| `CellArithmetic` | double-cell division, products by halves, digits: as operators | `primitives.py` |
| `CellWords` | the words over data, return stack, picture buffer and bytes | `primitives.py`, `heap.py`, `inner_interp.py` |
| `CellPromises` | what these words promise, stated over integers and strings | |
| `FactorStack` | the fragment cache and the naive stack, as operators on a record | `rpyfactor/stackrep.py`, `metastack.py` |
| `FactorPrims` | Factor values and primitives | `rpyfactor/primitives.py`, `values.py`, `program.py` |
| `FactorInterp` | the interpreter's call stack of combinator frames | `rpyfactor/interp.py` |
| `FactorInterpProofs` | proofs about `FactorInterp`, with the stack and the primitives | |
| `FactorMeaning` | reference: what a program means, by its structure | |
| `MCSourceInput`, `MCCompiler`, `MCDictionary`, `MCCellWords`, `MCFactorInterp` | constants for TLC: lessons and programs | |

### Data stack

`MetaStack` has the fields of `init_fields` as variables and one action for each
function. `push_on` is `PushCached` or `PushSpilling` (the cache is full: the
deepest frame cell is parked, the frame shifts), or `PushOverflow`;
`push_fragment_on` is `Call` or `CallOverflow`, and moves everything below the
tops to the spill in one go; a return moves nothing. `snaps` is the stack of live
`DSCacheSnapshot`s. A snapshot copies the cache and the height of the spill, not
its cells. Each snapshot of the model carries two history fields: `saved`, the
stack as it was, and `low`, the smallest depth since.

`Stack` reads the stack a program sees back from the fields; `IsDataStack` says
that every action is then the `DataStack` action of the same name. In `DataStack`
a Restore brings back the whole saved stack only as far as the protected word has
left the cells alone: below the low-water mark the saved cells are there, between
that mark and the parked height whatever lies in the spill. That is what the code
provides: a CATCH whose word pops below the caught depth into the parked cells and
parks others over them gets those back.

`MetaStackN` has `NTOP` as a constant. A call parks one cell after the other and
the spill may fill up half-way; the stack is the same sequence throughout.

### Dispatch loop

`InnerInterp` holds the locals of `execute_thread` (`thread`, `ip`), the packed
control stack, the catch frames, the loop stack, and `portals`: the Python stack
of `execute_word_now` calls with what their caller does next. An exception in
flight is `exc`; `Unwind` is the Python unwinding of one frame with its
`finally`. A program is not given: at every place any instruction may come next.
`acts` is a history variable, the activations of `ProtectedCalls`; `IsProtectedCalls`
says that loops, return stack, place and handler agree with them at every step. Each
of them has a `mark`, where its entry is on the control stack; only the invariants
look at it, and `Seen` takes it off before the two are compared.

`ProtectedCalls` lets a landing change the limit of the innermost loop: see the
first finding.

### ALLOCATE

Bytes are modelled one by one, with headers in cells below the blocks, a bump
pointer that wraps at `MaxInt`, and the dict of free lists. `held` records what a
program owns. The abstract allocator knows addresses, sizes and contents.

### Text interpreter

`SourceInput` has the fields (`toks`, `to_in`, `include_lines`, `include_pos`) and
`py`, the Python frames: a call of `interpret_line` with its own `toks` and `i`, the
frames of `_handle_evaluate` and `_include_file` with what they have saved, and
CATCHes. Tokens are places in lines: any token may be any word. The cursor that
`interpret_line` hands to `>IN` before it runs a word and takes back after is
modelled as such. `sources` reads the abstract stack of sources back from fields and
frames: `SourcesTo` collects, frame by frame, the `SourceAt` of those that open one.

### Compiler

Texts are arbitrary, within a *lesson*: a vocabulary and a length for each
definition. Every control-flow word is an action with the code's test of the
control stack, its emission and its patches; `Reject` is a word that does not fit,
with the entry it has already popped. `Inlined`, `Spliced`, `Ended` and `Carved` are
`_emit_inline`, `_inline_self_calls`, the tail call and the DOES> part of
`_finalize_definition`. `DO`'s literal-limit variant of LOOP differs only for the
JIT and is not kept apart.

Beside the code the model keeps `ref`, the meaning of the text, from the
definitions of the standard's rationale: ELSE is `AHEAD 1 CS-ROLL THEN`, WHILE is
`IF 1 CS-ROLL`, ENDCASE a row of THENs, and so on, with calls that are calls. A
case-sys and the ends of its clauses are out of reach of CS-ROLL, as in the standard:
`CASE OF ENDOF IF 1 CS-ROLL ENDCASE`, where the code rolls the CASE away and goes on,
has no meaning, and lessons with such texts are among those checked.
When a definition is finished it is run: `execute_thread` over the code and the
same machine over the text move to their next visible word in turn, and take the
same way at every test.

### Dictionary

`Dictionary` reads tokens: a program is a sequence of token sets, of which one token
each is read in turn. A word that runs leaves its instructions in `running`, and
runs to its end before the next token. `compiling` is the definition in progress,
with the fields a `CompContext` saves; `Nested` and `RunEndDefinition` are the save in
`runtime_begin_named` and `runtime_begin_noname` and the restore in
`runtime_end_definition`. `Lookup` has the fast path, `Search` has not. Words that
change the order act from the text (`InterpretOrder`) and, compiled, from a word
(`RunOrder`). RECURSE enters a word with an empty thread unless the definition has
one, RECURSIVE enters one every time. `Finalize` fills the one it finds by its name, the
newest, or makes a new one. Inlining and tail calls are left to `Compiler`; they keep
the meaning of a thread.

`def` (which definition a word comes from), `home` (its wordlist), `hides` (the word of
the same definition that a RECURSIVE has hidden), `defs` and `kept` are history.
`Definitions` is the abstract specification: the open definitions are read back from
`comp_stack` and `compiling`; the text of one that is made is the thread of its word,
that of its words which is not empty.

Assumed of the programs, each at a named guard: no `:`, VALUE, DEFER or VOCABULARY
between `[` and `]` of a definition, no change of the compilation wordlist while one
is in progress (`SetCurrent`); a definition opened inside another by a running word
is closed by a running word (`Semicolon`) and has another name (`RunBeginNamed`); RECURSE
and RECURSIVE are not in a :NONAME (`Recursive`, `Recurse`); IS is given no word in
progress and no DEFER (`Storable`); words that run come to an end
(`Runnable`); SET-ORDER and its kin are given wordlists there are (`Reorder`). What the code does otherwise is in section 5.

### Cell words

`CellWords` has the data stack, the return stack, `base`, the picture being built, the
data space and its boxed strings, and one action per word or per family of words
with one shape. Cells have 2 * `Half` bits and wrap; `CellArithmetic` has the algorithms
on half cells as they are written, with their carries. Programs are short sequences
of words over given stacks and memories; each must run to its end, so a word that
blocks is a deadlock. `CellPromises` states the promises over whole integers.

The bases `Decimal` and `Hex` are 3 and 4 here, so that numbers of two double-digit
cells have several digits in either.

### rpyfactor

`FactorStack` describes a stack as a record: the cells (all, or those not parked), and,
in the fragment build, the tops, the parked and the spilled part. `FactorInterp` has
one action per item of a program, per combinator and per kind of frame that
returns; the condition of an `if` or a `linrec` is one more program of its frame, and
runs in the same loop.
Every program of `MCFactorInterp` is run on both builds, with frames and spill small
enough that cells are parked and spilled.

`FactorMeaning` evaluates a program by its structure, without frames or fragments:
`ComputesMeaning` compares the stack at the end, error included.

What the model leaves out: text scanning, printing, strings, symbols, the clock;
integers are unbounded. As in the code, `rollup` is `swapd` and `rolldown` is `-rot`,
`binrec` recurses on the upper of the two values first, `x` is never a tail call, and
an error leaves the stack as it is.

## 3. Runs

| run | checks | bounds |
|---|---|---|
| `stack` | `TypeOK`, `SnapshotFaithful`, `SpillUndisturbed`, `IsDataStack` | frame 1, spill 2, one CATCH, two values |
| `stack_ntop` | `TypeOK`, `IsDataStack` | two tops, frame 2, spill 1, call window 1, one CATCH |
| `inner` | `TypeOK`, `FramesMatchControl`, `PortalsMatchControl`, `IsProtectedCalls` | one word of two instructions, control stack 6, two catch frames |
| `inner_loops` | `IsProtectedCalls`, `ThrowLands` | three instructions, control stack 4, two loops, limits 0 and 2 |
| `alloc` | `TypeOK`, `BlocksSound`, `RegionAccounted`, `IsAllocator` | five two-byte cells, sizes 0, 1, 3 |
| `source` | `TypeOK`, `IsInputSource`, `IncludesOwnLines` | files of 1 and 2 lines, lines of 2 tokens, 6 Python frames |
| `compiler` | `TypeOK`, `RunsAsWritten`, `ControlStackRestored`, `RunArrives` | nine lessons, texts of 4 to 6 words |
| `dictionary` | `TypeOK`, `LookupIsSearch`, `CoreWordsReachable`, `WordsFilled`, `TablesFindWords`, `IsDefinitions` | six lessons of 7 to 17 tokens, three names, up to three wordlists |
| `cell_words` | `TypeOK`, `NumberShown`, `Identities`, `SumsExact`, `QuotientsExact`, `BlocksMoved`, `StringsCompared` | four-bit cells, 16 bytes |
| `factor` | `TypeOK`, `FragmentsPaired`, `ComputesMeaning`, `Finishes` | some 7,000 programs, both builds |
| `inner_limit`, `source_catch` | one property each, violated: section 5 | |

Why the bounds are enough. *stack*: a frame of one and a spill of two have every
case of push, pop, poke and call (scalars only, frame, spill, full), and room for
a protected word to pop into the parked cells and park over them. The theorems
need no bound. *stack_ntop*: a call window below NTOP makes a call park scalars,
and a spill of one makes it stop half-way. *inner*: six control entries hold a
CATCH (two entries) inside a portal inside a CATCH inside the portal of the line;
with one word any call is also a recursive one, and which thread runs is told
from the others by the control stack. *inner_loops*: two loops are the cached one
and one in the arrays. *alloc*: sizes 1 and 3 are one and two cells, so blocks of
two classes are split, recycled, resized in place and moved; size 0 has a header
and no cell. *source*: an evaluated text inside an included file inside the line of the main
file, with a CATCH, is six frames; a file of two lines can be left in the middle.
*compiler*: a wrong target shows in the word that holds the branch, in the word that
inlines it, or in its spliced copy; each shape of nesting occurs within five words,
two WHILEs in one loop too. `MaxInlineBody`, `MaxSplice` and `MaxSpliced` are set
so that words on both sides of each limit occur. `Leftover` bounds to one entry
what an unbalanced definition leaves behind, and such a definition is followed to
its `;` only. *dictionary*: the order changes up to seven times around definitions
and uses; a name that is looked up is in none, one or two wordlists; the nested
lessons open up to three definitions in one another, RECURSE before and after; four
of RECURSE, RECURSIVE and a number in any order leave up to four words for one
definition, of which the hidden ones are called and run.
*cell_words*: half cells of two bits have every carry into, out of and between halves;
D+, D-, UM*, M*, D2/ and every division of a double by a single cell are run on all
inputs, M*/ on cells at the edges; moves and comparisons on every small overlap and
prefix. *factor*: each combinator is run with bodies that grow and shrink the stack,
in tail position and not, nested in each other, over more cells than the frame holds.

Deadlock is checked everywhere but in `compiler` and `dictionary`, whose programs end
or come to a word that cannot follow.

**What the properties say.**

* `SnapshotFaithful`: a live snapshot agrees with the caught stack on the cells it
  copied. `SpillUndisturbed`: on those it did not copy, the spill still agrees with
  the caught stack, up to the low-water mark.
* `FramesMatchControl`: each catch frame belongs to an epilogue entry of the
  control stack and the other way round, so the epilogue, which looks at neither,
  drops its own frame. `PortalsMatchControl`: one HALT entry per portal, and
  `cs_base` is the base of the innermost.
* `ThrowLands`: an exception in flight is caught or ends the run. Fairness: `Unwind`,
  because Python unwinding cannot be held up. No fairness is assumed of the
  Forth program.
* `BlocksSound`: blocks held and blocks free are disjoint and have right headers.
  `RegionAccounted`: everything below the bump pointer is held, free, or the header
  of an empty block.
* `RunsAsWritten`: code and text are at the same word whenever both are at one;
  `RunArrives`: the code does come to one. Fairness: `execute_thread` runs on by
  itself. Together they make the two runs equal step by step.
* `LookupIsSearch`: the fast path finds the same word as the search, for each name and
  after any changes. `CoreWordsReachable`: "selecting a vocab never hides core words",
  unless a program has given SET-ORDER an order that does not end in wordlist 0.
* `WordsFilled`: a word without a thread belongs to a definition still in progress, or
  a later RECURSIVE of its definition has hidden it.
  `TablesFindWords`: `value_addrs` and `defer_ids` agree with the search order for
  names that are defined so in one wordlist. `IsDefinitions`: the refinement.
* `NumberShown`: a picture or a print of a number, read back digit by digit in its base,
  is the number. `Identities`: short programs that should leave the stack as it was
  do. `SumsExact`, `QuotientsExact`: against whole integers, with the rounding the
  comments name, or floored where they name none; of /MOD, whose comment and test
  differ (section 5), only that quotient and remainder make up the dividend and the
  remainder is less than the divisor. `BlocksMoved`: what a move
  leaves, byte by byte, CMOVE over an overlap included. `StringsCompared`: COMPARE and
  SEARCH against the order of the bytes, as long as a boxed string is read from its
  start and has not been changed.
* `FragmentsPaired`: one fragment per frame. `ComputesMeaning`: the program's meaning is
  what is computed, on both stacks. `Finishes`: every run ends; fairness of the
  interpreter's own steps, written out in `FairSpec`.
* `ControlStackRestored`: a balanced definition leaves the control stack as it found
  it, whatever an earlier one has left there.

## 4. Proofs

Each theorem holds for every value of the constants that the named assumptions of
its module allow. What is assumed beyond those stands in its ASSUME and is said here.

### Data stack (`MetaStackProofs`)

* `TypeCorrect`: `Spec => []TypeOK`. No pointer leaves its array.
* `SpillStaysUndisturbed`: `Spec => []SpillUndisturbed`.
* `SnapshotsAgree`: `Spec => []SnapshotFaithful`.
* `Refinement`: `Spec => IsDataStack`.

`SpillUndisturbed` is not inductive: a Restore of an inner snapshot sets the
spill back to that snapshot's height, and an outer one must not count on more than
that. The invariant is `IInv`: `TypeOK`, `SnapshotFaithful`, `SpillUndisturbed`, and
`NestedSnapshots`, which says that an inner snapshot has parked at least as many
cells as each outer one still counts on. The proof has one lemma per action
(`PushIInv`, `PopIInv`, ..), resting on `TouchedSnapInv` (an operation that
touches nothing below k keeps every snapshot good up to the smaller of its mark
and k) and `GrowingSnapInv` (an operation that only writes above `spill_ptr`). The
refinement has one lemma per action again: the `Stack` of the next state is
computed cell by cell from the fields, and is the one `DataStack` asks for.

### The other layouts (`MetaStackNProofs`)

* `LayoutTyped`: `Spec => []TypeOK`.
* `LayoutIsDataStack`: `Spec => IsDataStack`, if `SnapTops = NTOP`.

`NTOP`, `FrameSize`, `SpillSize` and `CallWindow` are arbitrary; with `NTOP = 0` this is the
frame-only layout. Run `stack_ntop` has two tops. `LayoutTyped` holds whatever a snapshot
copies. The refinement is of a snapshot with every top, as `catch_push_frame` takes it;
the CATCH of a primitive copies two, which is wrong for more (section 5).

What is new over `MetaStack` is a call that parks one cell after the other, in a loop
of a length that depends on the state. `ParkOneKeeps` is one turn of it: the deepest
cell goes, the others are what they were. `ParkingExists` says that the function the
model writes the loop with exists, `ParkingKeeps` what it is after k turns, both by
taking the least k that is an exception (`LeastNatural`). `ParkFacts` is the whole
call, also for one that overflows on the way; `ParkingHides` then says that the
stack is the same, however many cells have been parked. The rest is `IInv` of
`MetaStackProofs` again and a lemma for each action on where each cell goes
(`PushCells`, `PopCells`, `PokeCells`, `RestoredCells`).

### Dispatch loop (`InnerInterpProofs`)

* `InterpreterTyped`: `Spec => []TypeOK`. No index leaves the control stack, the catch
  frames or the loop stack.
* `FramesAgree`: `Spec => []FramesMatchControl`.
* `PortalsAgree`: `Spec => []PortalsMatchControl`.
* `DispatchIsProtectedCalls`: `Spec => IsProtectedCalls`.

All four assume `~NestedAborts`: text under EVALUATE or INCLUDED raises no Abort. Where
it does, the code goes wrong (section 5), and the theorems are false.

The two properties that match frames and portals to the control stack are not
inductive, since no handler looks at more than one of the stacks it cuts. `IInv` ties
them to each other:

* `PortalsSound`: a portal's HALT is at its base, and the frames it began with are
  just those below it; a HALT without a portal is one that an exception in flight has
  left behind, above every frame that could still catch it.
* `FramesSound`: a frame's return address and epilogue are on `cs` one above the other,
  the epilogue of the last perhaps running.
* `MarksSound`: every other entry of `cs` is one activation's, in their order.
* `HandlersSound`: every CATCH has its frame or its portal, with the loops, the return
  stack and the caller its activation began with. It is what makes the frame that
  `throw_unwind` takes, which it finds by comparing with `cs_base`, the nearest one.
* `Shape`, `IdleEmpty`, `LoopsNest` and `AbortAtTop`: types, and what holds between lines,
  of loops, and of QUIT.

Every step is one of four kinds: it leaves the stacks alone (`QuietKeeps`), begins
an activation (`EnteringKeeps`), cuts all four structures at one place (`CutKeeps`, for
returns, drops and landings), or passes an exception on through a portal. There is
one lemma per action that shows of which kind it is.

For the refinement `RInv` adds `LoopsKept`: the loops an activation began with are still
in the arrays, all but the innermost, whose counter its handler has; its limit is
lost only when a loop has begun since, which is what `ProtectedCalls` allows (finding
1). Then one lemma per action: the step of `ProtectedCalls` it is, or that it changes
nothing that is shown (the epilogue, and an exception on its way).

### Dictionary (`DictionaryProofs`)

* `Typed`: `Spec => []TypeOK`.
* `FastPathFinds`: `Spec => []LookupIsSearch`.
* `CoreStaysReachable`: `Spec => []CoreWordsReachable`.
* `WordsAreFilled`: `Spec => []WordsFilled`.
* `TablesReachWords`: `Spec => []TablesFindWords`.
* `DefinitionsNest`: `Spec => IsDefinitions`.

They hold for any names, values and programs (`NamesAssumption`, `LessonsAssumption`),
under the preconditions of section 2. The invariants are:

* `Found`: the types; each entry of `value_addrs` and `defer_ids` is the newest word of
  that name and kind, and what a wordlist finds is the newest word entered in it.
  Types need this, as TO compiles the id in the table, whatever word that is.
* `DefaultTracked`: `order_is_default` is true of the default order and no other.
* `CoreIsLast`: while `kept`, wordlist 0 is not only in the order but the last of it;
  PREVIOUS takes the first, and an order of one stays.
* `Progress`: a word without a thread that none hides was entered by a definition in
  progress, which still finds it by its name (`Entered`), since no two definitions in
  progress have one name (`NamesApart`).
* `Nestled`: of the words of one definition at most one has a thread, and definitions in
  progress have numbers of their own, none past `defs` (`Numbered`); a definition in
  progress has words only if RECURSE or RECURSIVE entered them, they are all empty, and
  the compilation wordlist finds one of them by its name (`Owned`); the contexts of no
  definition lie below those of definitions (`Settled`); a definition that has words
  and is in progress no more has one with a thread (`Became`).

The types have one lemma per action; for the rest every step is reduced to one of
three kinds, by what it does to the tables: nothing, a word without a name, a word
with one.

The refinement needs all of `Nestled`. `_finalize_definition` finds the word to fill by
name, and `Owned` says that it is the definition's own and empty, so that a finished word
is never written to and the empty ones beside it do not count; by `Became` and
`Numbered` there is one word, and no other, that a text is read off; and `Settled` makes the open definitions a piece of the stack of contexts, which `Texts` reads
off above the idle ones. `FollowsStill`, `FollowsCompiling` and `FollowsDefining` then
take the actions in turn: each is `Open`, `Write`, `Close` or `Make`, or leaves the three
variables alone.

### Compiler (`CompilerProofs`)

* `StacksAlwaysInStep`: `Spec => []StacksInStep`.
* `ControlStack`: `Spec => []ControlStackRestored`.

Nothing is assumed but `Compiler`'s own assumptions: any lessons, any words, 1 CS-ROLL
anywhere, whatever an abandoned definition has left on the control stack.

`ControlStackRestored` speaks of balanced definitions only and is not inductive. The
invariant `StacksInStep` compares the code's control stack with the standard's while
the text still has a meaning: what was there when the definition began is a prefix
of `ctrl`, and above it there are as many entries of each kind as the standard's
stack has items of that kind. Kind by kind, and not item by item, because the order
differs: the code leaves WHILE above its BEGIN and the standard puts it below. That
is enough, for a word the standard accepts finds an entry of its kind above the
prefix, wherever it lies: REPEAT looks for the BEGIN, LOOP and LEAVE for the DO, and
the entry they take is the last one of its kind. An empty stack of the standard
then means an empty rest. One lemma for each of the moves `Meaning` is put together
from (`Forward`, `Lands`, `Back`, `Rolls`, ..), and one for each word of the code; the
lemmas about counting the entries of a kind in a sequence are proved first.

### ALLOCATE (`AllocRegionProofs`)

* `RegionTyped`: `Spec => []TypeOK`.
* `BlocksStayApart`: `Spec => []BlocksSound`.
* `NothingIsLost`: `Spec => []RegionAccounted`.
* `RegionIsAllocator`: `Spec => IsAllocator`.

All assume `SizesFit`: no request takes the bump pointer past the largest cell. The code
does not test for it, and without it the bump pointer wraps and ALLOCATE answers with
a block that reaches out of the region (section 5). Run `alloc` satisfies it. Cell size, region, bytes and sizes are arbitrary otherwise.

The invariant `Sound` has `BlocksSound` and `RegionAccounted` with what keeps them:
a free list has a block once, and has the blocks with its size in their headers
(`Sorted`); all blocks, held and free, lie a header apart (`Apart`), on whole cells;
below the bump pointer a cell of no block is a header of 0 (`Accounted`), above it all
is 0 (`Clean`), so that a new header cell needs no clearing. Writes keep them because no
byte of one block lies in the header of another. It is an operator on heap, pointer, lists and
held blocks: a RESIZE that moves a block is then `Taking`, `Writing` and `Freeing`, the
lemmas about ALLOCATE, a store and FREE, one after the other over two states in
between that the model never is in. For the refinement, a block as the program sees
it is a function of the bytes between its address and its size; one lemma per action.

### rpyfactor (`FactorInterpProofs`)

* `FactorTyped`: `Spec => []TypeOK`.
* `FragmentsArePaired`: `Spec => []FragmentsPaired`.

`FrameSize`, `SpillSize`, `CsDepth`, the dictionary and the programs are arbitrary, up to
`FactorSizes` and `DepthAssumption`: the places that name a frame must not run into those
of the next kind, as `_resume_ret` tells the kinds apart by ranges of a million.

Values nest: a list has values in it, a quotation items, and an item may be a literal
list. Which sets they form needs an induction over data, so the theorems assume sets
that are closed in this way. `World(U, I)`: `I` has the items of all programs, `U[n]`
the values there can be with `n` arrays; numbers, lists of values, quotations of items
and references to those arrays are values, and what looks like one of these is one.
More arrays make more values. For the programs the lexer makes, the least such sets
will do; that there are such sets is the one thing not proved. An array may have
itself in it, which is why `U` goes by the number of arrays and not by their contents.

The invariant `InStep` says that the stack is of its layout, every cell a value, and
either holds an exception, or is `Good` with the call stack: there is a fragment for
each frame that is `Open` (`Stacks(l, V, Opens(frames, Len(frames)))`), and the frames are
`Stacked`. That means that what goes on above a frame is what the frame expects: an
open one a place in a program, one that waits for a child the negative place with
its own number and kind (`NamedBy`). Therefore `_resume_ret` always resumes the innermost
frame, though the code can name any. And a snapshot that will be restored has the
`frag_ptr` of the frames under it (`Kept`), which is what makes `RestoreCache` in the
middle of nested combinators keep the pairing: a restore does not go by the number of
fragments, it overwrites it. `FragmentsPaired` alone says nothing of snapshots and is not
inductive.

A lemma for each action rests on one for each way to go on (`Starting`, `Entering`,
`EnteringRet`, `Leaving`, `AgainHeld`, `ChildStarts`) and on one for each operation of the
stack (`PushStays`, `RestoreStays`, `PrimitiveFollows`, ..). primrec pushes all its frames
at once; `PrimrecRow` builds up that row frame by frame, each named by the place of the
next. That an exception may leave more fragments or fewer than frames is allowed by
`Held`: nothing is run after it.

### Text interpreter (`SourceInputProofs`)

* `CursorInLine`: `Spec => []TypeOK`. The cursor never leaves its line, the position never
  the file that is being read, in programs that do not put the cursor past the line
  themselves.
* `FileReadAsCounted`: `Spec => IncludesOwnLines`. The loop of an INCLUDED, which counts
  the lines of its own file but reads those of the field `include_lines`, finds its own
  there in every turn.

* `ReadAsSources`: `Spec => IsInputSource`. The program is read as from a stack of
  sources: what a nested text or file does to the fields is gone when it ends.

All three assume `CatchTexts = FALSE`, no CATCH around a text that throws; with one they
are false, and `source_catch` has the behaviour.

`include_pos` is in range only because `include_lines` is the right file, and that it is
depends on what all the frames below have saved. The invariant is `Kept`: types of the
fields, `Shape` of the Python frames (what a frame has saved of a position lies in its
file; there is room for the line an INCLUDED will begin), and `Nested`: an INCLUDED counts
the lines of what the next INCLUDED above it has saved, or, if there is none, of
`include_lines`. A THROW pops frames and restores nothing, so `Nested` fails while one
passes with no CATCH further out; `Uncaught` says that this is the only case, and that
a THROW with a CATCH lies at it. `LineSet`, `OnPush`, `OnPop` and `OpenKept` are the four
ways a step moves the frames, and every action is one of them.

For the refinement the invariant is `RKept`: `Kept` and `Placed`, which is `Ordered`
except while a THROW passes with no CATCH further out. `Ordered` says how frames lie on
one another: what may stand on what (`Fits`), which of them have a text (`HasText`) and
whether it is the one in the fields (`Reads`), and that no file is open below the first
INCLUDED (`Outermost`). `Src(v, s)` is the list of sources for any stack `v` of frames under any
fields `s`. It is defined by recursion over `v`; as the provers cannot take an induction as a
theorem, that two such lists agree, or that one extends the other, is shown from the
least place where they would not (`LeastNatural`, `Picked`). `SrcLine`, `SrcWord`,
`SrcSaving` and `SrcCatch` say how the list changes as a frame comes or goes, and each
action has one lemma (`RunWordIs`, `EvaluateIs`, ...) that it is a step of `InputSource` or
none. REFILL is the only one that changes two sources at once, the line being read and
the file that is asked for the next: `RefillAt`, `Replaced`.

### What stays with TLC

* Liveness, which the prover does not do: `ThrowLands`, `RunArrives`, `Finishes`.
* `RunsAsWritten` and `ComputesMeaning` compare a run with the meaning of a text, by
  induction over the text; the meaning of a Factor program is a recursive operator.
  The promises of `CellPromises` are over recursive algorithms on digits, likewise.
* The type invariant of `Compiler`: its threads are flattened from an item for each
  word, and that a branch lands at an item is an induction over these.

## 5. Findings

1. `inner_limit`. `throw_unwind` and `_catch_primitive_xt` restore the counter and the
   depth of the loop stack, not `ll`, the limit of the innermost loop. After a
   THROW out of a word that ran a loop, the handler's loop has that loop's limit.
2. `source_catch`. A CATCH of an INCLUDED that throws leaves the interpreter in the
   inner file's lines, and the loop over the outer file goes on in those. `source`
   therefore has `CatchTexts = FALSE`.

Seen while modelling, without a run of their own:

* In the layouts with more than two scalars, CATCH of a primitive takes its snapshot
  with the two-scalar functions (`primitives.py:3124`; `SnapTops` below `NTOP` in
  `MetaStackN`).
* QUIT or ABORT" under EVALUATE or INCLUDED is caught by the nested `interpret_line`,
  which resets the machine inside portals that are still running
  (`outer_interp.py:2686`; `NestedAborts` in `InnerInterp`).
* ALLOCATE of nearly the largest cell wraps the bump pointer, which passes the test
  and is stored (`primitives.py:3014`; a `Size` near `MaxInt` in `AllocRegion`).
* VALUE and DEFER tables are keyed by name alone: with a VALUE of one name in two
  wordlists, TO stores into the newer, whichever the order finds.
* RECURSE enters its word before the definition is finished, so a redefinition that
  names the old word after RECURSE calls itself. If the compilation wordlist changes
  in the middle of such a definition, or a running word opens one of the same name,
  the end of the definition fills the wrong word or none.
* RECURSIVE enters a word each time, also after RECURSE (`outer_interp.py:2576-2581`):
  in `: v recurse recursive ;` the `;` fills the second, and the first, which the code
  calls, stays empty for ever. `WordsFilled` says so of it (`Hidden`).
* A definition that a running word has opened inside another and that is closed by `;`
  in the text leaves the outer context on `comp_stack`; the outer definition is lost.
* SET-ORDER takes any number as a wordlist, and -1 gives the order `0`; an empty order,
  or one without wordlist 0, hides all but the words handled lexically. ONLY has no
  primitive and cannot be compiled.
* `_ud_divmod_base` loses bits for divisors above half a cell, though its comment
  (`primitives.py:1243-1245`) says every intermediate fits.
* SM/REM ignores the high cell of its dividend; `*/` and `*/MOD` wrap their product,
  though their docstrings speak of a double-cell intermediate.
* /MOD floors, as its test wants (`test_outer_interp.py:245-251`), where the comment in
  it (`primitives.py:538`) says that the quotient rounds toward zero.
* PARSE-NAME at the end of a line moves >IN past it (`outer_interp.py:1953`).
* `.`, `.R`, `U.R` and `D.` print in decimal whatever BASE is, though `.` and `D.` say
  "according to current BASE".
* Strings are boxed per slot of eight bytes: at an address inside a slot, as after
  /STRING, `_read_cstr` gives the whole box from its start, and bytes changed by C! or
  CMOVE are not seen.
* LOOP and +LOOP at the largest counter wrap to the smallest.
* rpyfactor, fragment build: a condition of effect ( ..a -- ..a ? ) that pops into the
  parked cells, parks others by a call and pushes the same values back leaves those
  others after the restore (`stackrep.py:123-130`, which says the snapshot holds "the"
  cache). Such runs are marked by `dug` and left out of `ComputesMeaning`.
* RECURSE in a :NONAME calls a dictionary word NONAME that RECURSE has entered
  with an empty thread; `_finalize_definition` makes another Word of the definition.
* `BEGIN WHILE IF 1 CS-ROLL REPEAT .. THEN` exchanges the two exits, as WHILE's entry
  lies above its BEGIN's and not below as in the standard. For the same reason
  `BEGIN WHILE WHILE UNTIL` and `BEGIN WHILE AGAIN` are rejected.
* Of two DOES> in one definition only the second has an effect.
* FREE of an empty block (usable size 0) loses its header cell for good.
* `docs/NOTE_STACK_LAYOUT.md:167-168` says of the parked cells below a snapshot
  that they "stay valid, because nothing overwrites them"; a protected word that
  pops into them and calls does overwrite them.

## 6. Not modelled

Of the primitives: AND OR XOR, cell and float memory access, the words that only
print, floating point, files and the environment, which are straight lines over the
top cells or I/O. Number parsing, comments and text scanning: character by character,
without state that outlives a token. Of the compiler: a second DOES>, POSTPONE of
control-flow words, NEXTNAME, CREATE and its kin run from a colon body. Of the text
interpreter: string-token counters, PARSE by characters, a cursor set beyond its line
(by >IN !, or by PARSE-NAME at the end of one), conditional compilation. Of rpyfactor's
`=`: quotations, which it compares by the identity of their items.
Configuration, prelude, the object-stack stub; rpyfactor's lexer and output.
`appbench`, `shootout` and `benchmark` are programs and harnesses, `check_coverage.py` and
`visualize_runbench.py` are tooling. The reasons are in `PROJECT.json`, component by
component.

## 7. Plan

Done: the data stack, the dispatch loop, ALLOCATE, the text interpreter, the compiler,
the dictionary, the cell words, rpyfactor; the theorems about `MetaStack`, `MetaStackN`,
`InnerInterp`, `AllocRegion`, `SourceInput`, `Dictionary`, `Compiler` and `FactorInterp` of
section 4, with the refinements of the first six.

Prove next:

* `Compiler`: `TypeOK`, then that a control-stack entry names the place its word left.

Model further: conditional compilation across lines, with `SourceInput`'s lines;
POSTPONE of control-flow words, which lets a word compile a part of a structure.
