# Snuk in TLA+

Snuk is a small expression language: a lexer, a parser, a tree-walking interpreter with
reference-counted scopes, and a REPL, in single-threaded C. This directory models the parts
whose correctness depends on long sequences of steps: how control flow unwinds through the C
call stack, who owns which scope, what names mean while calls are made, how memory is given out,
how a text is cut into tokens, and how the parser gets through one that is wrong. TLC checks the
models on small instances; TLAPS proves the central invariants for every value of the constants.

Paths below are relative to the repository.

## 1. The system

| Component | State it keeps | Operations | Talks to |
|---|---|---|---|
| REPL and runtime (`repl/`) | one `Runtime`: arena of syntax trees, interpreter | init, execute each parsed item and free its value, deinit | parser, interpreter, memory |
| Lexer (`src/lexer.c`) | position, type of the last token, stack of bracket depths | next token; inserts virtual semicolons at line ends | parser |
| Parser (`src/parser/`) | previous, current and next token, panic flag, first error | one function per construct, `expect`, `sync`, `item_end` | lexer, arrays in the arena of the runtime |
| Interpreter: control (`src/interpreter/interpreter.c`) | C stack, `current`, `instance`, `signal`, `panic_mode`, `error` | one `execute_*` function per construct | scopes, values |
| Interpreter: ownership (same file, `interpreter_helper.h`) | handles in locals, return values, the trash, registers | creating, keeping, handing over, dropping scopes | reference counters |
| Interpreter: names and calls (same files) | bindings with their declared types, parent links, `instance` | lookup, declaration, assignment by name and by member, binding of arguments and defaults | scopes |
| Reference counters, scopes, bindings, values (`refcount.h`, `snuk_scope.h`, `snuk_env.h`, `snuk_value.c`) | strong and weak counts, parent links, bindings | retain, release, downgrade, create, destroy, lookup, set parent, assign, copy, free | memory |
| Builtin types and native functions (`native.c`, `builtins/`) | scopes filled at start-up | methods of `int`, `float`, `bool`, `str`, `null`; an instance for each literal a method is called on | interpreter, scopes |
| Dynamic array (`src/darray.c`) | header (allocator, capacity, size) and cells in one block | create, push, pop, pop_at, clear, destroy, resize | its allocator |
| Memory (`src/memory.c`) | pages committed from the bottom and from the top of one reservation; a free list | commit, reverse commit and decommit; alloc, realloc, free | the system |
| Logger, I/O, strings | log level | formatting, reading, comparing | – |

Everything runs on one thread. What makes the system hard is not concurrency but protocols that
are kept by convention over long call sequences:

* *Signals.* `return`, `break` and `continue` are a register that every construct has to look at
  and pass on, catch or clear. A construct that forgets one, or clears it late, runs code that
  should have been skipped, possibly many frames away.
* *Early returns.* A failed `SNUK_INTERPRETER_CHECK` returns at once and leaves pushed scopes and
  replaced registers behind; everything that runs later, at top level too, runs in that state.
* *Ownership.* A handle is strong or weak depending on where in the program a closure is made;
  counts, cycles, and destructors that run destructors decide what is still alive.
* *Build type.* `SNUK_ASSERT` and `SNUK_SHOULD_NOT_REACH_HERE` stop a debug build and do nothing
  in a release build.
* *Memory from two ends.* One reservation serves a general allocator that grows upwards and
  arenas that are taken from the top and must be given back in stack order.
* *Scopes that change parents.* The scope of a call's parameters is a child of the caller's scope
  while arguments are evaluated and of the closure afterwards; the instance is looked up between
  a scope and its parents. What a name means depends on when it is looked up.
* *Two counts of brackets.* The lexer decides two tokens ahead of the parser whether a line ends
  an item, from depths of its own; after an error the parser goes on wherever it is.

What makes each component correct:

* control: a signal reaches its handler and nothing else is evaluated on the way; whatever a
  function changes in `current` and `instance` it gives back; a panic does not leak from one
  top-level item into the next;
* ownership: no count is lower than the handles that exist, none is higher while no check fails,
  a running method does not lose the scopes it uses, and only cycles are never freed (a failed check
  can break the first of these in a release build, see section 5);
* arrays: an array is a sequence that only its own operations change, wherever its block is moved;
* memory: pages, arenas and blocks never overlap, an allocation ends in a block or in the end of
  the process, and arenas are given back in stack order;
* names and calls: the value of a typed name fits the type; a call does not change what the next one
  starts from; an argument means what it means where the call stands;
* builtins: native calls, and the instances made for literals, keep the ownership discipline of
  ordinary ones;
* scanner: each token is made of the longest piece of text that has the shape of one, and each scan
  moves on;
* lexer and parser: both keep count of open brackets and agree; a line ends at most one item;
  every loop consumes a token or ends; an error condemns no further item unless the lexer rejects a
  character or comment, and an item without an error has all its parts unless NaN or infinity
  occurs in it.

## 2. Modules

| Module | Models | State and its counterpart in the code |
|---|---|---|
| `SnukControl` | what the language document promises of signals: abstract | `ctl`, the open constructs |
| `SnukFlow` | `execute_*` of `interpreter.c`, `snuk_interpreter_exec_item` | `stack` is the C stack: a frame has the function, the point it resumes at and the registers it saved; `current`, `instance`, `signal`, `panic_mode`, `error` are the fields of `SnukInterpreter` |
| `SnukHeap` | `refcount.h`, `snuk_scope.h`, `snuk_env.h`, `snuk_value.c`, as operators from heap to heap | a cell is a counter with its scope: counts, parent, bindings |
| `SnukScopes` | the `execute_*` functions again, with the handles they hold; the builtin types and native functions of `native.c` and `builtins/` | `heap`, `trash`, registers, `stack` with the values in C locals, `ret` the value being returned |
| `SnukCalls` | `interpreter_lookup`, `snuk_interpreter_create_env`, `_set_env`, `interpreter_set_member`, `execute_call_expr` in `interpreter.c` and `interpreter_helper.h` | `env`, what each name is bound to in each scope; `calls`, the running calls with the argument being bound; `failed`, the check that ended the run |
| `SnukPages` | `memory.c` pages, in the order of `main.c` and `runtime.h` | both page counters, `mem` of each arena, `phase` of the process |
| `SnukSequences` | what the header of `darray.h` promises: abstract | `seqs`, one sequence per array |
| `SnukDArray` (extends `SnukPages`) | `darray.c`, the allocators it is given, `snuk_alloc`/`snuk_realloc` | `arrays` (header and cells, with the address of the block), `offset` of each arena, the pending `request` |
| `SnukLexer` | `lexer.c`, as operators from a lexer to a token and a lexer | position, last token type, depths |
| `SnukScanner` (extends `SnukLexer`) | `lexer.c` again, character by character | `text`, `lexer` (position, last token type, depths), the last `token`; `lexemes` and `ends`, what the text ought to be cut into |
| `SnukParser` (extends `SnukLexer`) | `parser/*.c`, `parser_common.h` | `p` is the `SnukParser`, `stack` the C stack, `ret` what the last function returned, `hole` whether the item lacks a part, `mode` and `given` the loop over items |
| `SnukFlow_proofs` | the theorems about `SnukFlow`: scopes, signals, and that it implements `SnukControl` | |
| `SnukCalls_proofs`, `SnukDArray_proofs`, `SnukScanner_proofs`, `SnukParser_proofs`, `SnukHeap_proofs`, `SnukScopes_proofs` | the theorems about the module in the name | |
| `SnukOrder_proofs` | the least and the greatest number with a property | |
| `MCFlow`, `MCScopes`, `MCCalls`, `MCDArray`, `MCScanner`, `MCParser` | instances for TLC | |

`SnukFlow`, `SnukScopes` and `SnukCalls` are three views of the same functions: the first keeps
every branch of control and reduces scopes to names in a chain; the second keeps every reference
and reduces control to what is evaluated in which order; the third keeps what names are bound
to, and where they are looked up. None fixes the program: wherever the
interpreter evaluates a child, any construct may be that child. A run therefore covers all
programs within its bounds, including those no test writes down. Where the code branches on a
value, both branches are taken.

An action is the code of a handler between two evaluations of children; `Goto`, `Call` and
`Return` move the C stack. A failed check is `Fail`: it pops the frame and restores nothing,
as in the code.

Abstractions a reader should know of:

* `SnukFlow`: items of interfaces and native functions are left out: they evaluate nothing. A literal, identifier or
  comment is a child that takes no step of its own. Values are abstract, so a switch that does not list
  every value (`==`, `print`, an assignment's target, the owner of a member) may meet one it does not list
  wherever run-time faults are allowed (`Unlisted`); the process then stops with "value" or goes on, by the
  build. A scope chain is a list of scopes, which is enough until a check fails. After that a call
  may give a new parent to a scope that is not its own (`Reparented`); any chain that went through that scope is
  then another one, or endless. From that step on the current chain is `Unknown`, and so is every chain that is made of it or
  restored, and a pop of an unknown chain may meet the global scope. Which scopes there really are is the subject of `SnukScopes`. A lookup that never ends is a stutter.
* `SnukScopes`: signals only cut a sequence of items short, which any sequence may be; `if`,
  `while` and `for` evaluate bodies as a block does. The value of a failed check is a plain value.
  The body of a function is chosen anew at each call. The builtin types are alike, so one stands for
  all, with the conversions among them reduced to whether they succeed; native functions have no
  parameters, so the two of `str.get` are left out. With `Natives = << >>` the scopes of the builtin
  types are left out, and reading a member of a plain value is a failing lookup. What a native
  function does with variables it never set is "uninitialized", where the model stops. Defaults
  are taken in order, so a call that is refused for one of them has bound those before it
  (`CallDefault`). A value that is given a name which is taken is lost, and the type an instance was
  made of then never gets to the trash (`ReturnNamed`). Where a scope is popped whose
  weak parent is gone, or that has none, the model stops ("bottom"): there is no current scope any more.
  `Builds` says which builds are followed. The assertion of `snuk_scope_downgrade_parent` stops a debug build
  ("assertion"); in a release build the heap is miscounted from that step on ("unowned"), and what happens to a
  miscounted heap is not followed. The assertion of `snuk_interpreter_deinit` stops a debug build ("instance"), and in a
  release build the exit goes on with the instance set. A lookup through a cycle of parents never
  ends in the code; `Resolve` takes the scopes it goes round for ones that do not bind the name.
* `SnukCalls`: one function, one type with fields, a method of it, and instances; an argument is any
  value, and any calls and assignments on the way to it. A check that fails ends the run
  (`SnukFlow` says what it leaves behind). A type is a builtin one: a set of values that fit.
  It goes with a name, so two bindings of one name never differ in type. Constants are variables, as
  in the code.
  Types that are looked up by name when a value is checked, interfaces and function types are
  left out, and so are defaults that contain functions which assign to other defaults. A positional
  argument after a named one, and a compound assignment as an argument, are bound under
  uninitialized names: the model stops there.
* `SnukScanner`: a character stands for all that the code treats alike, so letter case is left out,
  and so is the range of floats, which `strtod` reports. `Bits = 3` makes numbers overflow that
  short texts can spell. An error token is placed where its scan starts; the code names the place
  where it failed. A comment that does not end is an error only where it is a token of its own:
  in front of or behind a token the code drops the error (`lexer.c:678`, 695), and so do both models.
* `SnukHeap`: a counter that is used after it was freed is a cell with count zero, so that the
  use shows up as a count that is too low. A release runs destructors that release further
  counters: the nested calls are a list of handles still to be given up, which `FreeStep` works off
  from the front, in the order the calls make. The number of steps is bounded by `Steps`, which is always enough
  (`FreeAllLaw`). `snuk_scope_set_parent` clears the pointer to the old parent before it lets it go, so `SetParent`
  detaches first. Counts are not bounded: 64 bits are more than there is memory for.
* `SnukDArray`: sizes are counted in cells, a header is one. The free list of the general
  allocator and the linear allocators come from the snmemory library, which the repository does
  not contain: a block of the free list goes wherever it fits, and a request may fail although it
  fits; an arena hands out the next cells or NULL, and the unchecked NULL is the phase
  "crashed". `runtime_realloc_fn` copies as many bytes as the *new* block has, over memory
  behind the old block: cells beyond the old capacity are `Garbage`. When the old block is the
  last one the two overlap, and `memcpy` is undefined; the old cells come out right in whichever
  order the bytes are copied, because the new block starts behind the old one.
* `SnukLexer` and `SnukParser`: a source is a sequence of lexemes; tokens that the lexer and the
  parser treat alike share a type. Blanks are left out. Of a tree only NULL, an identifier (a
  possible target of a compound assignment) or another expression is kept, and per item whether a
  part it needs is NULL. An action advances the parser at most once; calls of
  `parser_expect` and `parser_match` one after another are frames (`Expecting`, `Matching`) of the
  one action `ExpectOrMatch`. The build is a release build: the assertions on the depths would stop a
  debug build at a closing bracket too many. A depth below zero stands for the unsigned depth
  that wrapped around. A depth read from an empty stack is unknown: `lost` ends the model there.
* 32-bit sums of pages do not wrap: the reservation is far smaller.

## 3. Runs

`tlc -config <cfg> <module>`, each well under five minutes.

| Run | Instance | Shows |
|---|---|---|
| `structured` (`MCFlow_structured`) | all constructs, depth 4, chain 12, signals in statement position, no run-time errors, debug | the interpreter implements `SnukControl`; a pending signal only unwinds and is caught; no "unreachable" point is reached |
| `any_program` (`MCFlow_any`) | all constructs, depth 3, chain 4, signals anywhere, errors, both builds | `TypeOK`; scopes and instances nest until a check fails; panic is left exactly when a signal is |
| `signals` (`MCFlow_signals`) | `if`, blocks, operators and `break`, depth 4 | a disagreement, see section 5 |
| `scopes_any` (`MCScopes_any`) | every construct, one name, 4 scopes, depth 3, errors | no handle outlives its count, in a debug build whatever fails, in a release build until the first broken assertion; counts are exact and no assertion breaks while nothing fails |
| `scopes_methods` (`MCScopes_methods`) | types, methods, instances, assignments; two names, 7 scopes, depth 4 | the same across method calls; running methods keep their scopes; only cycles remain at exit |
| `natives` (`MCScopes_natives`) | a builtin type with one native function, members of literals and null; one name, 5 scopes, depth 3 | the instance made for a literal and the scopes of native functions are counted like those of a program |
| `closures` (`MCScopes_closures`) | a few constructs | a disagreement, see section 5 |
| `calls` (`MCCalls`) | a function of two parameters, a method of one, one field, one instance, calls two deep; one type, two values | `TypeOK`; no binding holds a value its type excludes; no call changes a default; a name in an argument is found where the caller finds it, with the exceptions `Captured` names |
| `method_names` (`MCCalls_methods`) | as `calls`, with a parameter of the method that has the name of the field | a disagreement, see section 5 |
| `memory` (`MCDArray`) | two arrays growing 1, 2, 4; pages of 3 cells; 5 pages, arenas of 2 and 1 | blocks and pages never meet, arrays are sequences, allocation ends in a block or the end of the process, stack order |
| `parser` (`MCParser`) | 13 programs that use every construct; each with one lexeme lost, or one of 21 inserted anywhere; short texts | the counts of brackets agree until the first error; inserted semicolons are never items; accepted items without NaN and infinity are whole; a crash needs an error or one of the two before it; a panic reaches the next item only if the lexer rejected something; parsing ends |
| `scanner` (`MCScanner`) | all texts of up to three to six characters over each of nine sets of characters | the tokens are those the lexer of `SnukLexer` makes of the longest pieces of the text, so what `parser` shows of lexemes holds for texts; each scan moves on |

Why the bounds are enough. Depth counts the chosen children; bodies and branches a construct
always calls come on top of it, so depth 4 holds a loop in a function called from an operand of a
block, which is the longest way a signal takes through constructs that treat it differently;
above that the frames repeat. A chain of 12 scopes is never reached at depth 4; 4 at depth 3
only cuts off programs that leave scopes behind many times. Four to seven scopes hold a type, its
method, an instance, a closure and the scopes of a running call, and `OneInstance` ends the
exploration when more of the same are left over between items, or when an item with a failed check is over. In the array run blocks
take 2, 3 and 5 cells, so arenas of 6 and 3 cells fill up after one or two allocations and arrays
move at least twice in the general allocator, whose two remaining pages end where the arenas begin.
In `natives` a builtin type, one function of it, the scope of a call and the instance of a literal are
alive at once, and one more is left for a member that is kept. `MCCalls` bounds the state by
`MostlyUsual`: one binding differs from the usual value and two variables are declared, which is
enough for any single value to be found in the wrong place; two calls put an argument's call
inside another's arguments. The sets of characters of the scanner meet inside one token
or side by side: digits with prefixes, points and exponents; comments with line breaks and
braces; operators of up to three characters; quotes.
A wrong lexeme can disturb the parser at each point of each construct, and the programs visit every
point; a second one mostly falls into a panic or a loop that the first one already led to. The short
texts add what two wrong lexemes do at the start of an item and around a compound assignment.

`CHECK_DEADLOCK FALSE` appears where the process really stops: it exits, traps or crashes. The
runs of structured programs check for deadlock: there the interpreter can always go on.

Fairness. There is one thread and nothing it waits for, so the only assumption is that the
process keeps running: `WF_vars(Next)`. `SignalCaught` holds under it because unwinding is
deterministic; `AllocationEnds` because the number of pages is finite, and each failure of
`snuk_alloc` takes one or exits. `ParsingEnds` because each loop that is
not one of the four named in section 5 consumes a token. None needs fairness of a particular choice, and no
program is assumed to terminate. In `SnukControl`, weak fairness of leaving a finished construct
is what "propagates to the nearest handler" promises, and is part of what `ImplementsControl`
establishes.

Each property has a mutant: a plausible bug put in place of one definition (a break that is not
cleared, an instance saved late, an uncounted reference, an element not copied, ...), under which
TLC finds the property violated. They stand next to the definitions they change.

## 4. Proofs

`tlapm M.tla`, for each of the eight modules `*_proofs`, checks every step with SMT, Zenon and LS4.
The proofs assume the `ASSUME`s of the modules, which TLC evaluates in every run, and no more but where a
hypothesis is named below.

| Module | Theorems and the properties they state |
|---|---|
| `SnukFlow_proofs` | `FlowInvariant`; `TypeCorrect` (`TypeOK`), `ScopeDiscipline` (`ScopesNest`), `SavedRegisters` (`SavedIntact`), `PanicDiscipline` (`PanicIffSignal`) |
| `SnukFlow_proofs`, second part | `SignalInvariant` (`SignalInv`), `SignalsNeverTrap` (`NeverTraps`), `PendingSignalUnwinds` (`SignalStopsEvaluation`) |
| `SnukFlow_proofs`, third part | `FollowsControl` (`Control!SafeSpec`, the safety half of `ImplementsControl`) |
| `SnukCalls_proofs` | `TypeCorrect` (`TypeOK`), `TypesAreEnforced` (`TypesEnforced`), `DefaultsAreKept` (`DefaultsKept`), `ArgumentsLookedUpByCaller` (`ArgumentsAreTheCallers`) |
| `SnukDArray_proofs` | `DArrayInvariant`; `ArraysNeverMeet` (`ArraysApart`), `PagesNeverMeet` (`PagesApart`), `NoOverrun` (`StaysInside`), `StackDiscipline` (`StackOrder`), `TypeCorrect` (`TypeOK`), `ArraysAreSequences` (`ImplementsSequences`) |
| `SnukParser_proofs` | `ParserInvariant`; `ParserTypes` (`TypeOK`), `LexerFollowsParser` (`BracketsAwaited`), `NoItemIsEmpty` (`NoEmptyItem`), `GivenItemsAreWhole` (`AcceptedIsWhole`), `CrashesFollowErrors` (`CrashNeedsError`), `PanicEndsWithItem` (`PanicNeedsBadToken`) |
| `SnukScanner_proofs` | `TextsAreReadToTheEnd` (`EveryScanMovesOn`) |
| `SnukHeap_proofs` | `FreeAllLaw`, of the operator `FreeAll` |
| `SnukScopes_proofs` | `ReferencesCounted` (`Inv`); `ScopesTyped` (`TypeOK`), `CountsNeverShort` (`CountsCoverHandles`), `NoStrongReferenceLost` (`StrongCountsExact`), `LeaksAreCycles` (`OnlyCyclesLeak`) |

**`SnukFlow_proofs`**: `Spec => []FlowInv`, for any set of constructs, depth, instances, build, with or
without errors. All that it says of chains and instances it says until a check fails; what it says of every program
are the types of frames and registers and `PanicIffSignal`. `ScopesNest` says of each frame which scope chain and instance its children run in,
as a function of the point the frame has reached. It is not inductive alone: `execute_call_expr`
and `execute_extend` restore registers from locals, so one has to know that a saved register
still is what the function was called with (`SavedIntact`), and that chains are known and end at the global scope
(`ChainsKnown`, in `TypeOK`). Lemmas show that each move of the stack keeps the invariant, then each building block,
then each handler.

**Signals** (`SnukFlow_proofs`): `Spec => []SignalInv`. `NeverTraps` and `SignalStopsEvaluation` say what a pending
signal may do; what makes them true is where it comes from. `SignalInv` (in `SnukFlow`) holds while the
program is structured and no error happened: each frame waits, at one point, for a callee of one
role (`StackLinked`), which fixes what that callee captures and passes on; a running `return` or `break` has a
construct below it that catches the signal, with only statements in between (`RaisersCaught`); a
pending signal has one too, and the function that runs next takes the signal up (`PendingCaught`).
The middle part is needed because a `return` evaluates its operand first. Every handler makes one of nine moves of
the stack (`Move`), and the invariant, the two properties and the refinement are each proved move by move.
That no step of a structured program without run-time faults raises an error, and that the global scope
is then never popped, comes from `ScopesNest`. A switch over values that meets one it does not list
takes a run-time fault, so these theorems are about signals and pops only (`NeverTraps`). Hypotheses of the two theorems:
`Structured` and `~Faults`, as in the run: without either both properties are false (section 5).

**Control** (`SnukFlow_proofs`): under the same hypotheses the first state maps to the first state of `SnukControl`, and each
step to `Enter`, `Finish`, `Leave`, `Jump` or a stutter. The stack of open constructs ends at the
nearest frame that catches the pending signal, a `CHOOSE` that `SnukOrder_proofs` shows to exist and `SignalInv`
shows to be the construct the abstract jump goes to; from the moment a signal is raised until it is taken up
the mapped stack does not change (`SameOpened`).

**`SnukCalls_proofs`**: `Spec => []IInv`, for any names, values, types, parameters, fields, number of
instances and depth of calls. The types need the rest of the invariant because of one step: a call
takes its defaults from a closure, where they must be values of the function's parameters and fit
(`ClosuresHoldParameters`). The code checks them once more (960), a check that by the theorem cannot
fail and that `EnterBody` leaves out.
That no assignment changes a default is the harder part. An assignment reaches a closure only if a
lookup gets as far as one, and every closure in every chain, that of each waiting caller included,
has in front of it the parameters of the same call, all bound (`CallersShielded`; in the call
itself by `ParametersBound`, once its body runs). The lookup then stops before the closure. For
`ArgumentsAreTheCallers`, the parents of the parameters' scope are the caller's chain
(`OuterIsCaller`), and a name that neither the parameters nor one of the two instances binds is
looked up in the same places but for some that do not bind it.

**`SnukDArray_proofs`**: `Spec => []DArrayInv`, for any number and size of pages, arenas, arrays.
`PagesApart` and `ArraysApart` are not inductive: giving an arena back is safe because arenas are the
*last* pages of the reservation in a fixed order (`PagesInv` lists the three shapes memory takes and
the phases of each), and placing a block in an arena is safe because every block lies below
the arena's offset and arenas lie above the pages of the general allocator (`ArraysInv`, with
`Located`). A request that waits for pages must still leave room for the element to be pushed when
its block is found (`RequestInv`): capacity doubles, and is not zero.
`ArraysAreSequences` follows step by step: the abstract array is the prefix of the cells the size covers, a
move of the block copies at least that prefix, and what `memcpy` brings along from behind the old block
lies beyond it. The specification has no fairness on the abstract side, so the property is proved in full.

**`SnukParser_proofs`**: `Spec => []ParserInv`, for any set of texts of any length. Of the six
properties none but `BracketsAwaited` is a part of it as it stands, and that one is not inductive alone. The parts of the invariant and why each is there:

* `Placed`: the tokens `previous`, `current`, `next` are those of ascending positions of the text, each of the type its
  lexeme gives it. `AcceptedIsWhole` and `PanicNeedsBadToken` blame a lexeme for what a token did, so one must
  be able to go back from the token to the text.
* `Shaped`: which functions a frame may wait for at a point, and which tokens a helper such as `parser_expect` is
  asked for there (`Linked`): a bracket is opened or closed only by the loop that accounts for it, on which
  `BracketsAwaited` rests. Where a loop goes round, the last token was the end of an item, an
  opening bracket or a comma, behind none of which the lexer inserts a semicolon (`TopReady`): so none
  is left over for the next item (`NoEmptyItem`).
* `Valued`: a NULL is returned, and a part of an item missing, only in a panic or after a NaN of this
  item. This is what `CrashNeedsError` and `AcceptedIsWhole` have in common.
* `Panicked`: recovery ends without panic unless one of the tokens it skipped was refused by the lexer.
* `BracketsAwaited`: the depths of the lexer are those the frames on the stack account for (`Awaited`), tracked over the
  two tokens read ahead. Each move of the stack keeps or changes `Awaited` by what it consumed.

Proved function by function: each lemma shows that one parsing function, at each of its points, makes a move that keeps the
parts its frame takes part in.

**`SnukScanner_proofs`**: for any texts, reserved words and width of integers, each scan ends behind its start and
within the text. The invariant is small (`ScannerInv`); the work is in the lemmas about how far each kind of
token reaches, which go through every branch of the scanner. It excludes a token that is read
again for ever, and a semicolon that is inserted twice.

**`SnukHeap_proofs`** has the laws of the heap. The unit of account is the *handle*, a scope with a flag strong or weak, and
for each handle `x` three numbers: `Refs(h, x)`, what the counter shows; `HeapHeld(h, x)`, how many bindings and
parents of the heap stand for `x`; and their difference `Spare(h, x)`, what must be held from outside. Each
operation of `refcount.h`, `snuk_scope.h`, `snuk_env.h` and `snuk_value.c` has a law that says by how much it changes
`Spare`, on the condition that it releases no more than is there: `RetainLaw`, `ValueCopyLaw`, `AddEnvLaw`, `RebindLaw` (an
assignment, where freeing the old value may destroy scopes), `SetParentLaw`, and so on. The
sums are cardinalities (`Total` counts pairs, for which `FiniteSetTheorems` suffices), so nothing is proved by
induction over data. The centre is `FreeAllLaw`: a destructor gives up the bindings of a scope, which
may destroy further scopes, through cycles too. Its invariant (`Backed`) is that all handles still owed are covered
at each step, its measure (`Size`) counts the handles owed and what is left in the scopes, and what
is being emptied has exactly the one reference that is owed (`Emptied`).

**`SnukScopes_proofs`**: `Spec => [](trapped # "unowned" => Inv)`, for any `Inside`, names, native functions, bounds, builds,
with or without faults. With debug builds only, nothing is "unowned" and `Inv` always holds; the step of a release build over
the broken assertion is the only one that leaves it, and `scopes_any` reaches it. `CountsCoverHandles` is not inductive: it says of each counter that it shows enough, but a step needs
to know that what it releases is one of the references counted. `Inv` has four parts:

* `Sound(heap, Labels)`: cells have their types; a counter without strong references has an empty scope,
  one without any does not exist (`Settled`).
* `Registers`: the registers, the trash and the returned value have their types. Values are as the interpreter makes
  them (`Proper`): only `self` is weak, and a function, type or instance always has a scope.
* `Stacked`: which values and scopes a frame holds at each point of its function (`FrameOK`), that each frame
  but the top one waits for a value (`Waits`), and that a value is on its way only where one is waited for: so
  no value is dropped with its references.
* `Account(x)`, for each handle `x`: `Spare(heap, x) >= Held(x)`, where `Held` adds up what frames, registers, trash
  and the returned value hold, and, for strong handles, equality until a check fails. A failed check drops what
  the function held, which keeps the inequality and loses the equality.

The action laws (one per handler, `BlockLaw` to `DeinitLaw`) compute both sides of `Account` for each branch. The properties
speak of the *set* of handles there are, each with its place; `CountAll` shows that the number of those that
stand for `x` is `HeapHeld(heap, x) + Held(x)`, place by place. `StrongCountsExact` and
`CountsCoverHandles` carry the same guard as `Inv`.

Only model-checked:

* liveness: `SignalCaught`, `AllocationEnds`, `ParsingEnds`, and the fairness of `SnukControl` in `ImplementsControl`;
* `ImplementsNextToken`: the pieces a text falls into are defined by recursion over the text, and the proof
  would be an induction over it;
* `MethodScopesAlive`: true of the programs of its run, which pass no functions to functions; `closures` shows that
  it is not a property of all programs, so it has no inductive invariant over `Inside` in general;
* `AssertionsHold`: that no pop is one too many while no check fails needs an order of the scopes that
  `Inv`, which counts references, does not have;
* the violations below, which are about particular programs.

## 5. Where code and text disagree

Three runs end in a counterexample. Each states what the repository says of every program and shows one
for which the code does something else.

* `closures` – a function that is an argument keeps its closure but not the scope around it, and
  looks names up in a destroyed scope; `snuk_value.h` says captured bindings stay alive. A native
  function kept in a variable is an instance of it: `var f = 5.to_int; int = 0; f()`.
* `method_names` – in the body of a method a field of the instance hides the parameter of the
  same name; the document says "local scope wins" (lines 371 and 381). The property has a second half,
  which without such a parameter (`Params <- TwoAndOne`) ends in a counterexample too: in a method, `x = 1`
  changes the field of the type, and of all instances that have not set theirs, where `self.x = 1` changes
  the instance's; a comment (`interpreter.c:737`) says that values are copied from type to instance when assigned.
* `signals` – `{ (if true { break }) + f() }` calls `f`; the document (line 16) says that a signal propagates to its
  handler, which is the block. With loops the same property fails for a `continue` in the condition of a loop, which
  is still pending after the next run of the body and reaches a point marked `SNUK_SHOULD_NOT_REACH_HERE`.

The models show more of the kind, which no run of its own states. What the document or a comment says of every program:

* a `break` directly in a function body reaches a point marked `SNUK_SHOULD_NOT_REACH_HERE`; the document (line 285)
  says that the nearest block catches it;
* `memory.h` (lines 51, 74 and 88) says of `snuk_allocate_pages`, `snuk_alloc` and `snuk_realloc` that they
  return NULL if allocation fails; they end the process, and no caller looks at the result. `AllocationEnds`
  counts that end as an answer, so that its holding does not settle which of the two is right;
* `const y = 1; y = 2` assigns; the document (line 110) says that constants cannot be reassigned;
* the declared type of a function's result is not checked (the document, line 319, says it is; results have
  no types in the models).

What a failed check leaves behind, against what an assertion or a comment says:

* in `{ { extend T { return } } }` the extend fails and leaves `current` at the scope of `T`; the outer block then
  pops the global scope (trap "bottom" of `any_program`);
* in `{ extend T { return } }` the block downgrades the parent of the scope of `T`, which is weak already. A debug
  build stops at the assertion of `snuk_scope.h:78`. A release build gives up a strong reference that nobody
  holds: the counter falls short of its handles, and the parent can be freed while it is in use ("unowned" of
  `scopes_any`);
* a method call with a wrong argument leaves `instance` set, which `snuk_interpreter_deinit` asserts
  cannot be (trap "instance" of `scopes_methods`);
* in `{ type T { fn f(a) {} } T.f({ extend T { return } }) }` the call gives the block's scope, which is an
  ancestor of the closure of `f`, that closure for a parent. The parents then go round, where `snuk_scope.h`
  says they are the enclosing scopes, and the lookup of an unbound name never ends.

Others:

* reading a member of an unbound name or of a function, comparing two instances with `==`, printing a native function, or
  assigning to an expression such as a call reaches a point marked `SNUK_SHOULD_NOT_REACH_HERE` (trap "value");
* an argument that names an earlier parameter gets the argument given for it, not the caller's
  variable (`Captured`): in `fn gcd(a, b)`, the call `gcd(b, a % b)` computes `b % b`;
* a line in a block that ends in `self` needs a semicolon: the lexer does not list the token among
  those a line may end with;
* with two comments behind a token on its line, the second is taken for one in front of the next
  token, and no semicolon is inserted between the two lines.

The properties of `SnukParser` name further exceptions, which the run reaches:

* four loops report a token they do not consume and go round for ever (`Stuck`): the bodies of
  `type` and `extend`, the parameters of a function and of a function type. For the first two a
  comment on lines of its own is enough, though `lexer.c:652` says such comments never interfere;
* a compound assignment dereferences its target, which is NULL after an error and for NaN and
  infinity (`CrashNeedsError`); an item that contains one of the latter two anywhere is accepted with a part
  missing, `print nan` for one (`AcceptedIsWhole`);
* a character the lexer rejects, in text that is skipped after an error, condemns the next item too
  (`PanicNeedsBadToken`);
* a closing brace too many takes the last pair of depths off the lexer's stack (`lost`).

## 6. Not modelled, and the plan

Not modelled: the logger, I/O and string helpers (stateless, or output only); the conversion of numbers
to text and back, and arithmetic; the native API that nothing in the program calls
(`snuk_native_call_function`, `snuk_native_get_member`, `snuk_native_create_inst` and the makers of
single values); the unused `snuk_darray_push_at` and `snuk_scope_remove_env`; arrays of capacity 0
(created for builtins without parameters and never pushed to); the end of input in the REPL.

Next, in this order:

1. The safety half of `ParsingEnds`: every step but those of the four loops consumes a token or shortens
   a measure of the stack, from `ParserInv`.
2. Types by name, interfaces and function types in `SnukCalls`: a type is then looked up where
   the value is checked, which is not where it was declared.
3. Floats and letter case in `SnukScanner`.
