# A verification project for cplr, the C piler

`cplr` turns fragments of C given on the command line or at a prompt into a
program, compiles it with libtcc and runs it in its own process. At the prompt
it keeps a *chain of contexts*: as soon as the code of a context is loaded, the
next line goes to a fresh context whose compiler gets the symbols of the one
before. This directory holds TLA+ models of that program, the TLC
configurations that check them on small instances, and theorems about them proved
with TLAPS for every instance.

All paths below are relative to the repository (`src/`).

## 1. Inventory

| Part | Source | State it keeps | Operations |
| --- | --- | --- | --- |
| main | `source/cplr_main.c` | `ret`, the root context | parse, defaults, switch to interactive, run, interact, save history |
| contexts, chain | `source/cplr_state.c`, `cplr.h` | flag word, output file, sixteen piles, generated buffer, `TCCState`, links to the previous and next context | new, free, clone, empty, chain |
| run | `cplr_run.c` | none | prepare, generate, compile, execute, each skipped by flags |
| prepare | `cplr_prepare.c` | `c->tcc` | new compiler, packages, options, directories, libraries, source files |
| packages | `cplr_package.c`, `cpkg.c` | appends to the context's option piles | ask pkg-config, parse its options |
| generate | `cplr_generate.c` | `g_codebuf`, `g_dumpbuf`, line state | emit the piles in sections, with `#line` directives |
| compile | `cplr_compile.c` | flags, the compiler's symbol table | compile, redefine the symbols of the previous context, write the output file |
| execute | `cplr_execute.c` | flags | relocate and call the user's `main` |
| interact | `cplr_interact.c` | current context | read a line, chain if loaded, run the command; free the chain |
| command | `cplr_command.c` | none | push on a pile, run the pile, listings, dump, help, system command, quit |
| symbols | `cplr_symbols.c` | none | find the compiler of the last loaded context |
| command line, defaults | `cplr_optparse.c`, `cplr_defaults.c` | fill the root context | |
| lists, values, memory, strings | `cext_*.c`, `include/cext/` | doubly linked lists of owned or borrowed values | append, clone, clear |
| history | `cplr_main.c`, `cplr_interact.c` | `~/.cplr_history` | read, add, write |
| tests | `testman`, `testrun`, `lib.sh`, `tests/` | expected outputs | shell scripts |

How they interact: everything is one sequential process and plain calls. `main`
calls `cplr_run` and `cplr_interact` on the root; the interactor calls
`cplr_command`, which calls `cplr_run` on the current context. The parts share
one structure, the context, and most of what they tell each other goes through
its flag word: `cplr_run` skips phases by PREPARED, COMPILED and NORUN,
`cplr_interact` chains by LOADED, `cplr_find_syms` walks by LOADED. Outside the
process there are libtcc, readline, pkg-config, the terminal, the files, and the
user's program, which runs inside the process.

What is hard here is less concurrency than *sequences*: a session is an arbitrary
word over push, run, dump, idle and failures at each phase, a failure leaves
flags and piles as they were at that moment, and the next call goes on from
there; the emitter, the option parser and the list loops each carry state from
one step to the next in the same way. The one thing several processes share is
the history file. The tests run single command lines; none drives the prompt through more
than a few lines. `PROJECT.json` lists these hazards line by line.

What makes each part correct:

- run, interact: loaded code is what was pushed and never changes; no context is
  executed twice; a success means that the work was done; `-n` holds everywhere.
- chain, compile, symbols: a name resolves to the latest definition the session
  has seen; all contexts but the last are loaded; source files are linked once;
  declarations reach every later context.
- main: exit status 0 means success; the process ends; the history survives, or
  is lost for a known reason.
- generate: sections in the order C needs, every fragment attributed to its own
  label, the same unit for the same piles, and the dump shows that unit.
- packages: the answer of pkg-config is complete, the cursor stays inside it, and
  every option of a well-formed answer is taken.
- lists: piles behave as values; nothing dangles, nothing is freed twice or lost.

## 2. Modules

| Module | Role |
| --- | --- |
| `PilerSession` | what a session promises its user: one growing environment of definitions |
| `Cplr` | one process: main, run and its four phases, interactor, commands, chain; implements `PilerSession` |
| `PileStore` | what the list code promises its callers: piles that are values |
| `CplrList` | the piles as doubly linked lists of owned and borrowed strings; implements `PileStore` |
| `CplrGenerate` | the emitter, its sections and `#line` directives, the dump and its filter |
| `CplrPackage` | asking pkg-config and parsing its answer |
| `CplrHistory` | several sessions over one history file |
| `MC...` | values of the constants for TLC, one module for each model |
| `...Proofs` | the theorems, one module for each model |

The modules meet at the context. A pile is a sequence in `Cplr` and in
`CplrGenerate`; `CplrList` shows, as the refinement of `PileStore`, that the
linked lists may be taken for sequences, also across cloning and chaining. The
choice `PreparePackage` of `Cplr` (a package succeeds or fails at some point and
leaves what it had appended) is what `CplrPackage` does in detail; the sequence
`GenerateCode` of `Cplr` is the order of the items in the `Unit` of `CplrGenerate`;
the one process of `Cplr` with its `hist` and `histfile` is one `Session` of
`CplrHistory`.

### Cplr and the code

A context is an index `k` of the chain and every field of `cplr_t` is a function
of `k`; `cur` is the context the interactor works on. The links `c_prev` and
`c_next` are `k - 1` and `k + 1`.

| Variable | In the code |
| --- | --- |
| `pc` | the point the process has reached; one value per call or loop that can be interrupted by a choice of the environment |
| `caller`, `res`, `ret` | who called `cplr_run`, the last result looked at, `ret` of `main` |
| `flag[k]` | `c->flag`, by the names of `cplr_flag_t` |
| `out[k]` | `c->out != NULL` |
| `pile[k]` | the piles; `incs` stands for the three header piles, `opts` for defines, directories and libraries. `Defaults` fills both (`DefaultIncs`, `DefaultOpts`) |
| `code[k]` | `g_codebuf`, as the sequence of items emitted |
| `tcc[k]` | the life of `c->tcc`: `none`, `partial` (created, preparation not completed), `ready`, `tainted` (a compilation failed), `compiled`, `relocated` |
| `objs[k]`, `unit[k]` | the source files and the generated code the compiler has taken |
| `syms[k]` | per name, the context whose definition the compiler's table holds, or 0 |
| `npkg` | the position of the loop over packages |
| `written`, `hist`, `histfile` | the output file; whether earlier history was read; what the history file holds (`earlier` lines, `both`, or this `session`'s only) |

Actions: `OptParse`, `Setup`, `Result`, `Done` are `main`; `PrepareBegin`,
`PreparePackage`, `PrepareFiles`, `SkipPrepare` are the first phase, one step per
package so that a failure can happen after any of them; `Generate`,
`SkipCompile`, `CompileMemory`, `CompileFile`, `CompileFail` the next two;
`SkipExecute`, `Execute`, `Return`, `Crash` the last. `ReadLine`, `Eof`,
`FreeContext` are the interactor; `Idle`, `Dump`, `Quit`, `Push`, `PushRun`,
`RunPile` the lines a user can enter. A generation with the dump on, by a run or by
`Dump`, may end the process before its flag is set, when the filter stops reading; how far
the dump has got by then is `CplrGenerate`. A failure to set up the compiler before
the packages leaves the same state as a failure in the first package or, without
packages, in the first option, and is covered by those.

*Data.* A pushed text, header, option, package or source file is an *item*. What
the compiler makes of it is given by constants: the names it defines and uses
(`Defs`, `Uses`), the items it does not compile without (`Needs`), whether it is
`Broken`, and what options a package contributes (`PkgOpts`). `Hidden` are the
names `cplr_tcc_redefsym_cb` skips (`main`, `exit`, `_...`).

*The outside.* libtcc is used as follows, which is an assumption and marked
external in the map: `tcc_compile_string` accepts code that is well formed,
finds what it needs, and defines no name twice (`Accepts`); it always refuses
other code, and may refuse any code if its preparation or an earlier compilation
failed; a symbol added with `tcc_add_symbol` does not replace the unit's own
definition (`SymTable`); `tcc_run` fails without running anything if a name has
no definition (`Linkable`). The user's program may return any status, or take
the process down. pkg-config, file and directory arguments may fail at any
point.

### CplrList and the code

| Variable | In the code |
| --- | --- |
| `head[l]` | `lh_t` of the list `l = <<context, pile>>`: count, first, last |
| `node[a]`, `live` | `ln_t` at address `a`: head, next, previous, the string of its value and `VTM_OWNED`; which nodes are allocated |
| `strs` | the allocated strings; freeing one takes it out of the domain |
| `pc`, `last` | parsing options, at the prompt, in `cplr_clone`, clearing the volatile piles, in `cplr_free`; the last context |
| `pile`, `todo`, `at`, `ndst`, `fdst` | the pile a loop works on and those it has still to do; the locals of `l_clone` and `l_clear` |
| `order` | history variable: the nodes of a list in the order they were appended |

One action is one turn of a loop: `CloneBegin`, `CloneNode`, `CloneEnd` are
`l_clone`, `ClearBegin`, `ClearNode`, `ClearEnd` are `l_clear`; `PushStatic`,
`PushDefine`, `PushOwned` are the callers that append; `ChainBegin`,
`CloneDone`, `TrimDone`, `FreeBegin`, `FreeDone` are `cplr_state.c`. The model is
more liberal than the program in two ways: the piles of a context are taken in
any order, and a chain may begin at any prompt. A pile of each kind stands
for all piles of its kind: `Stable`, `Volatile`, and `Unmanaged` for `optf` and
`optm`, which neither `cplr_clone` nor `cplr_free` knows.

A define is the one string that can be missing (`msnprintf` with a limit). Before
any clone the program hands it to `tcc_set_options`; what libtcc does with it is
not modelled, and `CloneFault` is what follows if it goes on.

### CplrGenerate and the code

| Variable | In the code |
| --- | --- |
| `piles`, `dump`, `saved` | the piles and the dump level of the last context; `dumpsave` of `cmd_dump` |
| `sect`, `i` | the position in `cplr_generate_code` and in the loop of `cplr_generate_section` |
| `g.state`, `g.file`, `g.line` | `g_state`, `g_prevfile`, `g_prevline` |
| `g.code`, `g.dump` | `g_codebuf`, `g_dumpbuf`, as sequences of pieces |
| `g.at`, `g.marks` | history: the file and line at which a compiler is after the pieces so far, and for each fragment its label and where the compiler sees it |
| `shown` | how much of the dump the filter has been given |

`Emit` is `cplr_emit`, one call per piece. `g.at` is computed from the text
alone, as a C compiler counts: a directive sets it, every piece adds its lines.
`Push`, `Chain`, `Run` and `CmdDump` are the session around it; `Chain` is allowed
at any time, because when the session chains is the business of `Cplr`. A
context chained to has a fresh generator, so only its own is kept.

### CplrPackage and the code

`text` is what pkg-config prints, `answer` is `args`, `o` the cursor (as an index;
`Len(answer) + 1` is the terminating 0), `dash` and `opt` the two locals, `piles`
what was appended. One action is one turn of the `do` loop; `StepFrom(e)` is
its `while(*o++)` from the position the turn has reached, which is why a turn may
return. `cpkg.c` is `Exists` and `Retrieve`. Only the characters the parser tells
apart are modelled; `pthread` is one symbol, because the parser compares the
word. What `tcc_set_options` does with the same string is libtcc's. The exit
status of pkg-config is not looked at, in the code as in the model. An empty
answer makes `cpkg.c:71` read (and, if it finds a newline there, clear) the byte
before its buffer; the answer is the same either way.

### CplrHistory and the code

`list[s]` is the history list readline keeps for the process, `file` the file,
`typed[s]` the number of lines entered. `BeginAuto` and `BeginForced` are the two
ways through `main` to the interactor, with and without `read_history`; `Type` is
`add_history`; `End` is `write_history`, which replaces the file; `Exit` is the
end of the process by the user's program or by a dump filter that does not read.
`forced` and `since` are remembered to say why a line was lost. The two library
calls are taken to be atomic.

### Definitions named `Slip_...`

Each is a plausible mistake in the definition after it (another flag tested, a
reset forgotten or overdone, a result ignored). Nothing uses them. Put in the
place of the definition, each makes a property of the passing runs fail, which
shows that the property depends on that piece of the code.

## 3. Runs

Bounds. `MaxChain` bounds the contexts of a session, `MaxPile` the items pushed
interactively on one pile. In the state of the bound the model stops taking
lines that need a further context or push; every other command stays possible.
Three contexts are the smallest chain in which a name can be defined, redefined
or left alone, and used two hand-overs later; with two, `EarlierLoaded` and
`LatestDefinition` would be about neighbours only. One item per pile is enough
for what the properties of `Session` tell apart, as five piles can be filled in any
order; `Failures` takes two, for a good line after a bad one and the reverse. No
symmetry is used in `MCCplr`: the items differ in meaning. Every context fails, succeeds, is
dumped and is retried in any order, so the runs reach all phase combinations.

| Run | Asks | Result |
| --- | --- | --- |
| `Session` | three contexts, any mixture of five kinds of lines, with and without `-n`, with a source file given first; names that are redefined, kept or hidden | holds: `TypeOK`, `LoadedIsPile`, `RunsOnce`, `NoRunRespected`, `EarlierLoaded`, `LatestDefinition`, `SourcesOnce`, `DeclarationsKept`, `LoadedIsFrozen`, and the refinement `SessionSpec` (671 784 states) |
| `Failures` | every combination of `-n`, `-p`, `-y`, `-o`, packages, source files and statements, then right and broken lines, retried at will; failures everywhere | holds: `BatchSuccess`, `SuccessIsDone`, `OptionsAdded`, `ErrorIsSticky`, `AnswerNears`, `LinesAnswered` (456 215 states) |
| `Lists` | three contexts, a pile of each kind, four nodes and four strings, options, lines, clones, clears and frees in any order | holds: `TypeOK`, `ListShape`, `OnePlace`, `NothingDangles`, `OneOwner`, `NothingLeaks`, `ChainKeepsStable`, and the refinement `StoreSpec` (67 681 states) |
| `Generate` | up to three fragments of one or two lines in any of eight piles, generated, dumped and chained at will | holds: `TypeOK`, `Attribution`, `Repeatable`, `DumpShowsCode`, `GenerationMoves`, `GenerateEnds` (246 952 states) |
| `Package` | all answers of up to five tokens, with and without a newline at the end | holds: `TypeOK`, `WholeAnswer`, `CursorInside`, `TakenAsGiven`, `OptionsTaken`, `PackageEnds` (227 629 states) |
| `History` | three sessions of two lines, in any interleaving, forced or not, ended by themselves or not | holds: `TypeOK`, `LinesInOrder`, `SerialKeepsAll`, `LossExplained` (31 083 states) |

Bounds of the other models.

- `Lists`: four nodes are a list of two and its clone, or two lists of one and
  their clones, so that first, middle and last positions and both ends of
  `l_clone`'s links occur; `Room` lets a clone begin only if the addresses suffice
  for all of it, because the program would ask for more memory. Three contexts make
  a clone of a clone, where owned strings are copied, as well as a clone of the
  root, where borrowed ones are. Addresses are interchangeable: symmetry.
- `Generate`: `MaxItems = 3` fragments fill one section with three, or three
  sections, in every combination of piles and heights. The emitter looks back one piece only.
- `Package`: five tokens are up to fifteen characters, and the buffer takes ten, so
  answers end below, at and above its limit, and options follow each other in
  every order, cut off, repeated or joined. Two option letters are enough: the
  parser takes the same way for all of them. They differ in the pile, and `D` in the
  form: its string is formatted as `-%c%s` and freed, the others are appended as they
  are (`cplr_package.c:68-94`).
- `History`: two lines make an order, three sessions let one read what another has
  saved over the lines of a third.

`ErrorIsSticky` is what the code does rather than what one might wish: a broken
line stays on its pile, the context that holds it is never loaded, and so the
session never gets to a fresh context. Only its end gets rid of the line.

`AnswerNears`, `GenerationMoves` and, for the parser, `CursorAdvances` (which no run
checks beside `PackageEnds`, but a theorem states) are what termination rests on,
without the fairness: each step of the process after the command line is read brings
it nearer to the next prompt or its end (`StepsLeft` counts the phases, the packages
to come and the contexts to free), each step of a generation goes on in the unit or
in the dump, each turn of the parser in the answer. They are action properties and so
can be proved, and they say more than the liveness properties in one respect: no
phase is entered twice for one line, whatever fails in between.

`OptionsAdded` states what preparing does to the piles it reads: code is compiled under
the options its context inherited and, behind them, the options of all its
packages, in their order. What a later context inherits contains the rounds
of all contexts before it; that they are repeated is harmless for options and a fact
of the code (see the divergences below).

`SuccessIsDone` asks what a result of 0 is worth at the prompt, where phases are
skipped by flags of earlier attempts: a flag that is kept by mistake when chaining
makes the next line a success that nobody compiled. It speaks of runs to memory; with
`-o` it does not hold (`OutputSession` below).

`BatchSuccess` says "prepared", because an invocation without code does nothing,
and it speaks of runs that do not end in the interactor, whose status is 0 in
any case.

`Repeatable` compares the unit with one that the property states by itself: which
pile goes where, and in which order the sections stand, is written down a second
time in `Unit`, from the order that C needs, so that neither a section out of place nor
one with a wrong pile passes.

`Attribution` and `LossExplained` are stated against history variables that do
not influence the model. `LossExplained` looks at every step: lines leave the file
only when a session ends by itself, never when it is ended by its program. It does not
call the loss an error: it says that there are exactly two reasons for it, and
`SerialKeepsAll` that without them nothing is lost.

The other six runs each show one place where the code does something else than a
comment, an attribute or its help text says. Each checks one property that TLC
finds violated.

| Run | Property | What happens |
| --- | --- | --- |
| `HistoryLost` | `HistoryKept` | `cplr -y CODE`, then the prompt: the history is written at the end but was never read, and earlier lines are lost |
| `HalfPrepared` | `PreparedBeforeCompile` | a package is missing, the run fails; `.` then compiles without the options |
| `OutputSession` | `SuccessBuildsPile` | with `-o` and `-y`, the first line is built; later ones are accepted, reported as successful and never built |
| `Declaration` | `DeclarationsUsable` | `@struct s {int x;}` is emitted twice and refused |
| `Unplaced` | `BoundToPlacedCode` | code whose relocation failed counts as loaded; a later program that uses its names is bound to them and run. (In some versions of libtcc a symbol at offset 0 of code that was never placed is not listed; the smallest real session then has another function before the one that is used) |
| `NullDefine` | `StringsGiven` | `-D` with more than 1024 characters: `msnprintf` returns NULL, which `l_append_str_owned` is declared never to be given |

Other divergences met while reading, for which no run is kept:

- After a failed write of the output file, `.` reports success without writing
  it: COMPILED is flagged first (`cplr_compile.c:66`).
- With `-P`, each context inherits the options of a package and appends them once
  more (`cplr_package.c:71`), although the piles are "kept in chaining". `OptionsAdded`
  states what the code does: one round more for each context.
- `cplr` without code and away from a terminal exits with 1 (`cplr_main.c:39`),
  where `tests/use-empty.base.res` expects 0.
- `cplr.h` calls `cplr_compile` non-repeatable, and after a refused line `.` compiles
  with the same `TCCState` again (`tainted`).
- `cplr_chain` resets every phase but GENERATED, so that `\s` lists a fresh
  context as generated.
- `-f` and `-m` are collected on `optf`, which nothing hands to the compiler.
- `realpath("~/.cplr_history", NULL)` does not expand the tilde; it yields NULL, and
  readline then uses its default file.
- With two `-v`, the message about a define that a package contributes prints the
  string that was freed the line before (`cplr_package.c:72-74`).
- The skipping of blanks at `cplr_package.c:103` stands on the option letter and
  skips nothing. In `-I foo` the argument is empty and `foo` is refused.

### Fairness

`FairSpec` adds weak fairness of `SystemStep`, all steps except the user's line
or end of input. The program is sequential and never blocks except in readline
and in the user's own code, so its next step is never withheld for ever. Fairness
of `Return` or `Crash`, and of `Idle` for a `!` command, is the assumption that
the user's programs end; without it no prompt follows, in the code as in the
model. The user may stay silent at the prompt for ever, so `LinesAnswered` starts
from the command line or a line entered and asks for an end or the prompt.

In `CplrGenerate`, weak fairness of `Steps`, the actions inside `cplr_generate`: it
is called by the one thread there is, and writing to the filter either takes a
chunk or fails. In `CplrPackage`, weak fairness of `Ask` (the shell and the pipe
answer or fail, as `system` and `fread` return) and of `Parse` (a loop without any
call that waits). `CplrList` and `CplrHistory` claim safety only.

## 4. Proofs

Every theorem holds for all values of the constants that satisfy the assumptions of
its module: bounds are numbers, constants that describe data have their types,
addresses, strings and characters are told apart.

| Theorem | Statement |
| --- | --- |
| `CplrProofs` | for any number of contexts, items, names, command lines and lines: |
| `TypeCorrect` | `[]TypeOK` |
| `ExecutedOnce` | `[]RunsOnce` |
| `NothingRuns` | `[]NoRunRespected` |
| `ChainIsLoaded` | `[]EarlierLoaded` |
| `LoadedStays` | `LoadedIsFrozen` |
| `LoadedCode` | `[]LoadedIsPile` |
| `NamesAreLatest` | `[]LatestDefinition` |
| `SourcesInRoot` | `[]SourcesOnce` |
| `DeclarationsReachAll` | `[]DeclarationsKept` |
| `StatusIsHonest` | `[]BatchSuccess` |
| `SuccessIsHonest` | `[]SuccessIsDone` |
| `ErrorsStick` | `ErrorIsSticky` |
| `OneRoundEach` | `[]OptionsAdded` |
| `AnswerComesNearer` | `AnswerNears` |
| `ImplementsSession` | `SessionSpec`: `Cplr` implements `PilerSession` |
| `CplrListProofs` | for any number of nodes, strings, texts, piles and contexts: |
| `HeapTyped` | `[]TypeOK` |
| `ListsAreLinked` | `[]ListShape` |
| `NodesInOnePlace` | `[]OnePlace` |
| `StringsOwnedOnce` | `[]OneOwner` |
| `NoDanglingPointers` | `[]NothingDangles` |
| `NothingIsLost` | `[]NothingLeaks` |
| `ChainingKeepsStablePiles` | `ChainKeepsStable` |
| `ListsAreValues` | `StoreSpec`: `CplrList` implements `PileStore` |
| `CplrGenerateProofs` | for fragments of any height, any number of them, any history: |
| `EmitterTyped` | `[]TypeOK` |
| `FragmentsAttributed` | `[]Attribution` |
| `GenerationRepeatable` | `[]Repeatable` |
| `DumpShown` | `DumpShowsCode` |
| `GenerationAdvances` | `GenerationMoves` |
| `CplrPackageProofs` | for any answers and any size of the buffer: |
| `PackageTyped` | `[]TypeOK` |
| `CursorStaysInside` | `[]CursorInside` |
| `AnswersAreWhole` | `[]WholeAnswer` |
| `StringsAsGiven` | `[]TakenAsGiven` |
| `EveryOptionTaken` | `[]OptionsTaken` |
| `ParserAdvances` | `CursorAdvances` |
| `CplrHistoryProofs` | for any number of sessions and lines: |
| `HistoryTyped` | `[]TypeOK` |
| `FileInOrder` | `[]LinesInOrder` |
| `LossIsExplained` | `LossExplained` |
| `SerialSessionsKeepAll` | `[]SerialKeepsAll` |

### The session

The argument. None of the properties is inductive alone; what the code keeps up
without saying so is `Control`, the conjunction of

- `RootFirst`: before the defaults are applied there is only the root;
- `PhaseOrder`: an output file implies NORUN; compiled without an output file
  implies loaded; executed implies loaded and not NORUN;
- `NoRunShared`: NORUN is the same in all contexts;
- `Freshness`: from the dispatch of a line to the compiler the current context is
  not loaded, and at the door of `cplr_execute` it is compiled and not executed;
- `EarlierLoaded`.

`Freshness` is the heart: it holds because `cplr_interact` chains *before* it
hands on the line and because a context that is compiled and not loaded has an
output file, hence NORUN. `ControlNext` has one case per action. `RunsOnce`,
`NoRunRespected` and `EarlierLoaded` follow at once.

`LoadedFrame` then shows that every write to piles, objects, code or symbols goes
to a context that is not loaded, and `NewlyLoaded` that only `CompileMemory`
loads one. With them, `LoadedIsPile` needs one more fact, that the buffer at
the compiler's door was generated from the piles as they are (`CodeFresh`), and
`LatestDefinition` goes by one hand-over: the table of the previous context is
right, and the new one differs from it by the own definitions and the hidden
names. `SourcesOnce` needs that no context but the root has source files on its
pile (`NoSources`). For the refinement, `FindSymsValue` says where the walk of
`cplr_find_syms` ends, `CompileLoads` that compiling to memory is `Load`,
`ChainMoves` that the chain otherwise only grows by an unloaded context or is
closed for good; every other step stutters.

`ErrorIsSticky` follows from `LoadedIsRight`, that what is loaded was accepted,
and from `Freshness`: the chain only grows behind a loaded context.
`DeclarationsKept` needs that the prefix holds at the moment of chaining and that
only the last context is ever pushed to. `BatchSuccess` needs `BatchInv`: without
an interactor there is only the root (`Alone`), and `BatchPhase` says at each
phase what is done by then, from the flags that are not yet set at the start
to everything asked for at a result of 0; COMPILED set too early does no harm only
because a run without interactor goes through the phases once.

`SuccessIsDone` needs `Phases`: at the door of each phase of the current context what
the phases before it leave is there, whether they were gone through for this line or
skipped by a flag. A fresh context has none of the flags, because `cplr_chain` takes
them back; one that is tried again is not loaded (`Freshness`), and so is generated and
compiled again.

`OptionsAdded` is the end of `Rounds`, which follows the options from one context to
the next: until it is prepared, a fresh context has the options of the one before;
at the door of package `npkg + 1` those of the first `npkg` packages are behind
them (`Added`); a compiler that is ready has had all of them. One package more is
`FollowMore`, none yet `FollowNone`. That the context before does not change in
the meantime is `LoadedFrame` with `EarlierLoaded`. A context whose preparation failed
is flagged prepared and its compiler is never ready, so nothing is said of it.
`AnswerNears` needs no more than the types and that the packages stay as
they are on the way (`PackagesKept`): the count of steps left is that of the
phase, plus the packages not yet prepared, plus the contexts not yet freed.

### The lists

The invariant `IInv` of `CplrListProofs` has to speak of the middle of every loop.
`Places` and `Owners` say that the nodes in the lists are exactly the live ones,
each in one place, and the strings of the nodes exactly the allocated ones.
`Links` and `Heads` are the shape, with two exceptions: the head of the list in
work, which `l_clone` writes last and `l_clear` resets last, and the back link of
the first node of a list that is being cleared, which points to a node already
freed. It is never followed, and that is why `ListShape` leaves the list in work
out. `Cloning` says that what `l_clone` has made is a prefix of its
source, text by text; `ClearingAt` where `l_clear` stands; `Phases` which piles are
already empty in each phase. An appended node is fresh and a freed node was
the first of its list (`OrderGrows`, `OrderShrinks` and the lemmas on `Grow` and
`Shrink`), and each part of the invariant is kept by these two and by the steps
that leave the heap. For the refinement, a list in work counts as empty: the end of
a clone is then `Copy`, the begin of a clear is `Clear`, an append outside a clone is
`Append1`, and everything else stutters. That the copy equals its source needs
`Cloning`; that nothing else changes needs `OnePlace` and `OneOwner`.

### The emitter

`Attribution` is kept by a piece without directive only if the compiler already
stands where the label says. The condition in `cplr_emit` does not say so: with
PREPROC the line counter is not looked at. It is right because no label is ever
used twice in one unit, so that the file differs whenever a new item begins. `Behind`
says this: the file name of the last piece is none, or internal at line 187 after
main was opened, or a label of a section and number already used up; and
it is none whenever no generation runs, which is what `cplr_generate_finish` is for.

`Repeatable` and `DumpShowsCode` follow from `Complete`: at section `sect` and
item `i` the code buffer holds exactly the sections before (`Before`, whose end is
`Unit` by `InOrder`) and, of this one, its opening and the first `i` items (`Opening`), with their labels; the dump
buffer the same, with labels or without, or nothing. `Before` and `Opening` are
computed from the piles alone, so that what was printed cannot depend on anything a
former generation left behind. At each step one lemma says what the call to
`cplr_emit` adds (`ItemEmitted`, `InternalEmitted`, `OwnEmitted`) and one that this is what
`Opening` or `Before` has next (`OpeningNext`, `BeforeNext`); `UnitKept` says that
they change only with the piles. The argument for `Attribution` is used here again: the
label of a fragment is printed if it differs from the one before, and `Behind` says
that it does whenever a fragment begins.

### The parser

`Behind` ties `dash` and `opt` to the characters before the cursor, which is what
`TakenAsGiven` is about (with `Stop`, for the end of the string), and keeps the cursor in `1..End`; `Asking` says that nothing
has been taken before the answer is there. `Stop` is a `CHOOSE`; that the choice
exists follows from the least position that is not printable (`LeastNumber`, from
the library's well-founded induction).

For `OptionsTaken` a well-formed answer is one whose words, as blanks divide it, are
options with their arguments.
`AtWord` says that the cursor is at a word's first character, behind its dash,
behind its letter, or between words; `Progress`, that the arguments of all
words before the cursor are on their piles. `WordsApart` is what makes a turn
safe: two words do not overlap, so the cursor that stops at the end of one
(`StopOfWord`) has not entered another. Each turn is one of three cases
(`WellFormedArgument`, `WellFormedOption`, `WellFormedBetween`).

### The history

`Sequels`: the file and every list are in order, and hold only lines that have been
typed. `Own`: an open session has all its own lines on its list. `Known`: for a
session that has read the file, what is in it was read or saved since. The file changes
when a session ends by itself and in no other step; with `Known` this is
`LossExplained`, and with `Own` the serial case.

### Only model-checked

`LinesAnswered`, `GenerateEnds` and `PackageEnds`: liveness under fairness
needs ENABLED, which the prover does not handle. What of them does not depend on
fairness is proved: `AnswerComesNearer`, `GenerationAdvances` and `ParserAdvances`
say that every step goes on towards a bound, so that the process can only stay away from
the prompt by not taking a step. The runs check the rest, that a step is possible
until then.

The runs that expect a violation show single behaviours and need no proof.

## 5. Not modelled, and why

- The forking path of `cplr_execute`, NOCOMPILE, NOLINK and the CC backend: no
  option sets them. `cplr_generate_labeled` and the numeric and pointer types of
  `value.h`: nothing calls them.
- Recognition of options by getopt, help texts, verbosity, listings: no state that
  another part reads. What they do to the context is in `OptParse`.
- What libtcc makes of options, of NULL, and of a state that has refused code: a
  library, taken as described in section 2.
- Allocation failures: the wrappers of `cext_memory.c` end the process.
- What the user's program does to the memory of the process, and the signals it
  gets: beyond any model of this code.
- A crash in the middle of `write_history`: readline's business.
- The pieces of text themselves: formats, quoting, the content of `#include`.
- Build files and test scripts.

## 6. Plan

Done: `PilerSession`, `Cplr`, `CplrGenerate`, `CplrPackage`, `CplrList` with `PileStore`,
`CplrHistory`; every invariant, every action property and both refinements that the
passing runs check are also theorems.

Left, in order of what it would add:

1. A model of `cplr_optparse.c` option by option, replacing the set `Invocations`
   by what a command line can produce.
2. A refinement of the step `PreparePackage` of `Cplr` by `CplrPackage`.
