# Trilangle: a TLA+ model of the implementation

Trilangle is a two-dimensional language on a triangular grid.  Instruction
pointers (IPs) walk over the grid, are turned by mirrors and branches, and can
be split into threads that run in lockstep and merge again.  The repository has
an interpreter for the grid, a disassembler, an assembler whose output runs on
the same interpreter, a compiler to C, and a web page that runs the interpreter
in a worker and can step through a program.

The modules here are read off the C++ sources, not off the documentation.  The
documentation's rules (the README's edge rule and its tables of mirrors and
branches) appear only as the *reference* that the code is compared with.

Paths below are relative to the repository; the C++ sources are in `src/`.

## 1. Inventory

| Component | State | Operations | Interacts with | What is hard about it |
| --- | --- | --- | --- | --- |
| `program`, `program_walker`, `opcode.hh` | cells and side length, immutable | `at`, `advance`, `reflect`, `branch`, `is_branch` | program holder of the interpreter; used by the instruction scanner | unsigned wraps at three edges and corners; 48 branch entries written out |
| `interpreter<H>` | `m_threads`, and per round `removal_indices`, `pending_threads`, `waiting_coords` | `run`, `split_thread`, `join_threads` | ticks each `thread<H>`, asks the holder for coordinates, tells the debugger the number of threads | indices into a vector that is about to be edited; who merges with whom |
| `thread<H>` | stack, IP, status, number; the global `thread_count` | `tick`, `advance` | the holder (`at`, `advance`), the console, the debugger | undefined behaviour on a short stack; a status machine shared with `run` |
| `assembly_scanner` | list of instructions; labels and slices during assembly | `get_instructions`, `fake_location_to_real` | program holder of the interpreter | forward labels; the end check that keeps the IP in the list |
| `instruction_scanner` | fragments, a worklist, a map from IP to location | `build_state`, iterators | feeds disassembler and compiler | the same IP queued twice; joins reached from two sides |
| `disassembler` | flags; the scanner's fragments | `to_str`, `write_state` | prints what the assembler reads | the round trip; hidden NOPs that carry a label; the order of a split's two ways |
| `compiler`, `lightweight_stack` | emitted C text; at run time the stack | `write_state`, push, pop | its output must behave as the interpreter | growth of the stack; 32-bit arithmetic beside 24-bit |
| `int24` | 24 bits | arithmetic | thread, compiler | overflow, the sign bit, `INT24_MIN / -1` |
| `string_processing.hh`, `output.cpp` | buffered bytes | UTF-8 in and out | thread, program | malformed and truncated sequences; boundaries between the widths |
| `input.cpp`, `main.cpp` | flags, the source text | parsing of flags, reading, choice of the mode | everything | which flags go together; where the source ends and the program's input begins |
| `time.hh` | none | date and time | thread | formulas only |
| `wasm/` page and worker | suspended interpreter, promises, table of threads, timer | messages for calls, steps, output and the end of a call | page, worker, interpreter | messages in an unexpected order; stop in the middle of a call or step |

Within the interpreter, interaction is by direct calls and by shared state: the
status that `tick()` leaves in a thread is the message to `run()`, and the
indices that `run()` puts aside are messages from its first loop to its second.
Nothing is persisted, and the interpreter's threads are not operating-system
threads: their interleaving is fixed by the order of the vector, which is why
that order is a correctness matter.

What makes each component correct:

* *grid*: the IP never leaves the board; a step is the documented step;
  a walk without branches is reversible, so that nothing can trap it.
* *interpreter*: each round runs every living thread exactly once; exactly the
  threads that end, split or merge leave the vector; of any number of threads
  stopped at one place at most one stays; the vector stays in the order of the
  thread numbers.
* *assembler*: every label that is used resolves to the instruction it stands
  before, and the IP cannot leave the list.
* *scanner, disassembler, compiler*: the listing behaves as the grid does.
* *stack machine*: values keep 24 bits; what is defined in the language is
  defined in the code.
* *compiled program*: stack and output are those of the interpreter; the stack
  stays inside its memory.
* *command line, UTF-8*: what is refused and what is read is what the help text
  says; no character is lost or made up, and damage stays where it is.
* *web debugger*: one call at a time; what is taken over from an expansion is its
  whole output and nothing else, but for three cases (section 3); stopping at any
  moment leaves the page usable; stepping always comes back to the user.

`PROJECT.json` lists every hazard with its line and, if one does, the property
that would notice it.

## 2. Modules

    ProgramWalker (operators) ----------------+
      |        |            |                 |
      |     Walk        GridProofs      InstructionScanner
      |      |  |        |      |          |        |
      |      | WalkProofs   |                   Disassembly --- MCDisassembly
      |    MCWalk           +--------- ScannerProofs --+
      |                                                |
      |                                      AssemblyScanner (operators)
      |                                             |        \
      |                                             |      Assembler --- MCAssembler
      |                                             |        |
      |                                             |      AssemblerProofs
    MCGrid --------- Interpreter --------------- MCAssembly
                      |        |
               ThreadPool   InterpreterProofs
          (abstract, by INSTANCE)

    Int24, Opcodes (operators)            CommandLine, Unicode (operators)
         |          |                                 |
    StackMachine  CompiledProgram (operators)      Startup --- MCStartup
         |          |                                 |
        Translation --- MCTranslation            StartupProofs
             |
      TranslationProofs                   WebDebugger --- WebDebuggerProofs

**ProgramWalker** has the grid as pure operators.  `MakeProgram` is the
constructor of `program` (drop white space, find the side, pad with NOPs);
`StepSW` ... `StepSE` are the cases of `program_walker::advance`; `Swaps` and
`ForkOf` are the switch statements of `reflect` and `branch`.  `branch` writes
out eight opcodes times six headings; they have one shape (a point that forks,
two arms that are gathered, anything else is sent back or let through), so the
model gives the opcode's fork and one rule.  The operators with the prefix
`Grid` are what the interpreter asks of a program holder.  A cell is an opcode
name, the six headings are the bit field of the code.

**Walk** is one IP on one board: `Advance` is the loop of the interpreter for a
program that cannot split, join, kill or exit.  It also holds the documented
rules as references: `RuleStep` (the README's edge rule by lines and
diagonals, no coordinate arithmetic of the code reused) and `TableHeading`
(the README's two tables, row by row).

**AssemblyScanner** has the assembler: `FirstPass` folds over the lines and
collects instructions and labels with the error exits in the code's order,
`Resolved` is the second pass, and the operators with the prefix `Assembly`
are the program holder.  A line is a record of label, name and target; a label is a
sequence, empty if there is none, as the disassembler's labels are locations: two
numbers.

**Assembler** is `get_instructions` on the text as it is written, one action per
way a turn of its loop can go (`SkipLine`, `ReadLine`, and `NothingButColons`, at
which an assertion fails), then `CheckEnd`, `Resolve` for the second pass with
the empty program that `execute` refuses, and `Advance` for a thread.  A text is a sequence
of lines written in parts; `Characters` writes them out, and `Code`, `LabelEnd`
and `Body` are the searches by which the code finds the parts again, so that
`ReadAsWritten` compares what was read with what was written.  `NoProgram` says
without any pass or order which texts are none.

**InstructionScanner** is `instruction_scanner::build_state` as a state machine.
`Take` and `Finish` are the outer loop; one turn of the inner loop, for the IP
it has reached, is one of `JumpBack` (traced before), `JoinOtherSide` (a join
traced with the other heading), `Exit`, `Emit` (any other instruction) and
`BranchPoint`.  `fragments`, `location_map`, `unvisited_fragments`, `index`,
`ip` and `fragment` are the locals of the code; an optional fragment is a
sequence of at most one.  `LocationsFit` has three parts: a location has the
operation of its IP (`LocatedAtWork`), the two sides of a join are one line
(`JoinsShareALine`), and what stands behind a location, by the next line, a jump or
the two targets of a branch, is where the walk on the grid goes on
(`GoesOnThere`, which holds in the middle of the scan as well).

**Disassembly** composes the scanner with the assembler.  `LinesOf` is one turn
of `write_state`'s inner loop with `to_str`, `Lines` all that is printed; `Load`
assembles it, and `RunBoth`, `FollowJump` and `GridRests` run the grid and the
listing side by side: one thread with the same decision at every branch, a jump
being a step of the listing alone, a NOP hidden by `-n` a step of the grid alone.
Stacks play no part: what an operation does is the same on both sides.

**Interpreter** is `interpreter<H>::run` with `thread<H>::tick` inlined,
generic in the program holder exactly as the template is: the holder is a group
of operator constants (`HolderAt`, `HolderAdvance`, ...).  The correspondence:

| Model | Code |
| --- | --- |
| `threads`, `removal_indices`, `pending_threads`, `waiting_coords` | the members and locals of the same names |
| `i`, `phase` | loop index, and which of the two loops executes |
| `TickMove`, `TickRest`, `TickSplit`, `TickKill`, `TickExit`, `TickCrash` | one iteration of the first loop, by the operation that `tick()` meets |
| `TickWait`, `TickJoin` | the `waiting` case of the switch, without and with a partner in the map |
| `EndTick`, `Erase`, `NextRound` | the sort, one iteration of the erase loop, and the append with the test for emptiness |
| `Rerun` | another program in the same process, as the web worker does; `thread_count` survives |
| `OutOfMemory` | the bound `MaxThreadCount`: memory is finite |

The indices count from 1 as TLA+ sequences do.  Stacks are abstracted: a branch
may go either way, and an operation that needs the stack may end the process
(`TickCrash`), which is what an empty stack or a zero divisor may do.  Ending is
the only outcome of that undefined behaviour which is modelled; see section 6.

**ThreadPool** is the abstract specification: what `run()` promises without
vector, indices, removal list or map.  It is a pool of threads by number; each
takes one turn per round in any order; a turn moves, rests, splits, ends, stops
or merges the thread.

**Refinement.**  `Interpreter!RunsThePool` maps the vector to the pool.  A
thread leaves the pool when its index enters `removal_indices`; a pending thread
is in the pool from its creation and has had its turn.  `Erase` then has to be a
stutter, which it is only if it removes the elements that were meant, and
`NextRound` is the abstract `NewRound`, which is enabled only if all have had
their turn.

**StackMachine** is the stack of a thread: one action performs one opcode of
`thread<>::tick` (`Push` those that only add a value, `Perform` the others), with
`Skip` for an empty stack that `-w` protects, `Quit` and `QuitUnheard` for the
ends that `-f` causes, and `GoWrong` for undefined behaviour, after which the
status `"undefined"` says that the build may do anything.  Opcodes come in any
order, which includes the order of every program.  A second stack is `parked`
while there are two threads; `Join` is `join_threads_work` with either thread
first.  **Int24** has the arithmetic with the number of bits as a constant,
**Opcodes** the opcodes by what they read.

**CompiledProgram** has the C statements that `compiler::get_c_code` prints, by
their effect on a block of `lightweight_stack.h`: cells of `HostBits` bits, a
capacity, and a push that may find no memory.  **Translation** runs both side by
side.  It follows the compiled program as long as nothing has happened that
takes the *blame* for a difference: undefined behaviour of the program, an
overflow, an operand that needs more than 24 bits where truncation does not
commute with the operation, a negative index, a character too large for UTF-8, lost
memory, or threads.  `CompiledAgrees` says that there is no other cause.  With the flags
`-w` and `-f` there is nothing to compare, as the compiler refuses them.

**Startup** is a run of the program from `argv` to its own reading of stdin: one
action per way a turn of the loop of `parse_args` can go, `ReadBuffer` and
`ReadToNull` for the two branches of `read_istream`, `Execute` for `execute` up
to the mode it chooses, and `GetChar` for GTC.  An argument is a long name, a
cluster of letters or a word; a text is a sequence of bytes.  The history is in
the invocation: the characters that were typed, and the bytes they became.
**CommandLine** has the table of flags and `flags::is_valid`, **Unicode**
`parse_unichar`, `parse_utf8` and `print_unichar`.

**WebDebugger** has the page, the worker and the interpreter that is suspended in
it, with a channel each way.  The correspondence:

| Model | Code |
| --- | --- |
| `stage` | which `await` of the page is pending: of `interpretProgram`, `expandInput`, or the first or second call of `debugProgram` |
| `Ask`, `Resolve`, `WasmCancel` | `createWorker`, what follows the promise of a call, `wasmCancel` |
| `OnEnd`, `OnOutput`, `OnCount`, `ShowRound`, `TooManyThreads`, `StepOn` | the cases of the page's `worker.onmessage` |
| `Stop`, `Click`, `ClearOutput`, `EditInput`, `StepButton`, `Timer`, `PlayPause` | the user and the timer |
| `Stdout`, `stdoutBuffer`, `IsBufferFull`, `output` | `stdout` (`wasm/in.civet:94`), the bytes it keeps until they are a character, and what `elements.stdout` has of a grid |
| `HalfReady`, `RuntimeInitialized`, `Onmessage`, `Signal` | `worker.civet` |
| `BeginRound`, `SendDebugInfo`, `PrintGrid`, `PrintByte`, `Return` | what the interpreter calls back, its output, and the end of `callInterpreter` |
| `cut`, `hasty` | history: an expansion began with bytes in `stdoutBuffer`, was stopped, or was cleared; a step to a worker that has not loaded |

`threadCount` is 0 where the code has -1.  A suspended call lets the worker's
event loop turn, a running one does not, which is why `Onmessage` has the guard
it has.  Terminating a worker discards both channels, and neither it nor
`clearOutput` empties `stdoutBuffer`.  A grid is two characters, the second of two
bytes; a program may print any bytes of wider characters, in any order.

**GridProofs**, **WalkProofs**, **ScannerProofs**, **InterpreterProofs**,
**AssemblerProofs**, **TranslationProofs**, **StartupProofs** and
**WebDebuggerProofs** have the theorems (section 4).  `GridProofs` also has what the
proofs about the scanner, the assembler and the texts share: induction over a set
(`SetInduction`), what `FlattenSeq` yields, and the associativity of `\o`.

**MCWalk, MCGrid, MCAssembly, MCAssembler, MCDisassembly, MCTranslation, MCStartup** give the
sets of programs, numbers and texts for TLC; WebDebugger needs only numbers.

## 3. What TLC checks

| Run | Module, cfg | Properties | Instance | Shows |
| --- | --- | --- | --- | --- |
| `walk` | MCWalk, MCWalk.cfg | `TypeOK`, `StepsByTheRule`, `StepsRetrace`, `HeadingsFollowTheTables`, `MirrorsLeadHome`, `ToursTheBoard` | boards of up to 4 cells of mirrors and NOPs, up to 3 of branches, mirrors and skips, empty boards to side 4, a text with white space | the IP stays on the board, steps and turns as documented, can take each step back, comes home |
| `grid` | MCGrid, MCGrid.cfg | `NothingUnreachable`, `StuckForever`, `RunsThePool` | boards of side 3 with both thread operations, mirrors, exit and skip | no assertion or `unreachable()` is reached; the interpreter refines the pool |
| `assembly` | MCAssembly, MCAssembly.cfg | `TypeOK`, `SideListsFit`, `NoMissedMeeting`, `RestsEnd`, `MeetingsHappen` | four-line programs that spawn | the indices that are put aside fit the vector; no meeting is missed; a rest ends; threads that wait together do not both stay |
| `reuse` | MCAssembly, MCReuse.cfg | `EldersFirst` | the programs whose spawn skips a line, three calls of `run()` | order and uniqueness of thread numbers, also in a reused process |
| `disassembly` | MCDisassembly, MCDisassembly.cfg | `EveryFragmentOnce`, `LocationsFit`, `DisassemblyAssembles`, `ListingFollowsGrid`, `JumpsLeadToWork`, `ScanEnds` | boards of side 3 that split, branch, turn and push, with and without `-n` | the scan fills each fragment once, with the operations of the grid in the order of the grid, and ends; the round trip: grid, listing, assembler, and the listing does what the grid does |
| `translation` | MCTranslation, MCTranslation.cfg | `CompiledAgrees`, `CompiledIsDefined`, `InsideTheBlock`, `UndefinedIsWarned` | numbers of 3 bits in ints of 5, stacks of up to 3 values, a block that grows twice | the compiled program does what the interpreter does; warnings come before the harm |
| `web_debugger` | WebDebugger, MCWebDebugger.cfg | `TypeOK`, `NothingLeftOver`, `CallsFindTheRuntime`, `OneRoundInTheTable`, `WholeUnlessCut`, `OnlyTheLastThreadWaits`, `DebuggingStarts` | rounds of up to 3 threads, 2 colours, at most 2 messages under way once the user has sent a step, 1 once a program has printed a byte | no order of messages, clicks and timers confuses a call with the next; an expansion is taken over whole |
| `startup` | MCStartup, MCStartup.cfg | `RefusedByTheHelp`, `NoFlagIgnored`, `ReadsItsShare`, `DamageIsLocal`, `ExpandReadsBack` | all 2048 sets of flags, mixtures of up to 3 of 9 arguments, texts of up to 4 characters, blocks of 4 bytes | what is refused is what the help text rules out, the pair `-a -c` left open; nothing of a text is lost |
| `assembler` | MCAssembler, MCAssembler.cfg | `ReadAsWritten`, `RefusedForCause`, `LostOnlyByALabel` | texts of three lines with two labels; a line with every mixture of parts, gaps and comments before an end, semicolons behind quotation marks among them | what is written is read; what is refused is no program; the end check is enough but for labels behind the last instruction |
| `push_integers` | MCDisassembly, MCPushing.cfg | `DisassemblyAssembles` | boards of side 2 with PSI before any cell | **violated**, see Findings |
| `spawn_order` | MCDisassembly, MCSpawnOrder.cfg | `BornInOrder` | as `disassembly` | **violated**, see Findings |
| `ill_formed` | MCStartup, MCIllFormed.cfg | `IllFormedIsReplaced` | the damaged texts of `startup` | **violated**, see Findings |

**Bounds.**  `MaxThreadCount = 6` numbers allow two splits and a merge of their
results or three splits, so three threads and more can stop at one place in one
round, with one of them from an earlier round; beyond it the process ends, as
it does without memory.  Side 3 is the smallest board with an inner cell on
each edge, an apex and two corners, so that every wrap occurs; a board of up to
four cells has side 3 and boards of side 1 and 2 occur with their degenerate
wraps.  Four lines are enough for a spawn, a join reached by both threads, a
rest that delays one, and a loop back.  `MaxRuns = 3` gives the counter two
chances to carry a number over.  The empty boards go up to side 4 because the
tour of the board depends on the side only.  The boards of the scanner need two
branch points whose ways meet, a join that is reached from both sides, and an IP
that is queued twice; side 3 with four free cells has all three (each of them is
what one of the mutants breaks).

Three bits have every case of 24: both extremes, products and sums that leave the
signed range, the unsigned range and the range of the int (two bits wider as
in the code it is eight, which only leaves fewer operations between the two
limits).  Programs push -1, 0 and 3 and compute the rest.  Three values are what
the longest reach, IDX, needs besides its index; the block starts with two cells
and grows to three and five, both in one DP2.  Blocks of four bytes are shorter
than the longest text and longer than any character, so that a character lies
across a boundary, and texts end at, before and behind one.  The characters are
the first and last of each width; the damaging bytes are one of each kind.  Three
threads are the least that have a first, a middle and a last in a round; two
colours are one too few.  Rounds count modulo 3, so that one can tell a round
from the next.  Three lines are enough for a jump over a label and to one behind the
last instruction, for two labels of one place and for a label declared twice; of a line
only its own characters matter.  `MaxUnderWay` bounds only
the user: with two, a step of the user's overtakes the page's own for the same pause,
and two of them wait in one worker.  `MaxPrinted` bounds only programs: one byte at a
time is enough to leave up to three of them in `stdoutBuffer`.

**Fairness.**  `Interpreter` assumes `WF_vars(Run)`: `run()` is a sequential
loop that waits for nothing, so it takes its next step (a thread that
reads the console blocks the process, and the liveness properties speak of
programs of `MCAssembly`, which do not read).  `Rerun` is the user's and has no
fairness.  `Walk` assumes the same of its only action.

`InstructionScanner` and `Disassembly` assume `WF_vars(Scan)`: `build_state` is a
sequential loop without input.  The runs of the two programs that follow have no
fairness.

`WebDebugger` assumes weak fairness of the worker and of the page's handler of
messages: browsers deliver messages, load workers and run what has been asked
for.  The user and the timer have none.  `Translation`, `Startup` and
`Assembler` state safety only.

**Deadlock.**  The interpreter may stop (`done` or `exited`), the scanner stops
when the worklist is empty and a listing stops at an exit, so their runs switch
deadlock checking off; `Walk` has no end and is
checked for it, and so is `WebDebugger`.  `Translation`, `Startup` and
`Assembler` stop where the program does.

**Mutants.**  Each property is shown to be able to fail: `PROJECT.json` names
for each one a definition and a mutated form of it (the operators under
`\* Mutant:` comments), a plausible slip such as an ascending sort, a missing
entry in the removal list, or a wrap without its modulus.

### Findings

* `push_integers`.  `disassembler::to_str` prints a PSI as `PSI #` and the raw
  cell behind it (`src/disassembler.cpp:50`), but the assembler takes a single
  decimal digit there and exits otherwise.  The language lets PSI push any cell
  (`README.md:144`; the interpreter at most warns), and the README says that the
  assembler interprets what the disassembler prints, with `--hide-nops` as the
  only exception (`README.md:231`).  `MCDisassembly`'s `PlainBoards` push with
  PSC, so the round trip holds there.
* `spawn_order`.  `src/instruction_scanner.cpp:102` says that TSP does not care
  which of its targets is first.  The interpreter creates the thread of the
  second target first.  For a thread that heads east this is the order of the
  grid, for one that heads west it is the opposite.  The order is that of the
  numbers, of the ticks within a round, and of the stacks in a join, while
  `tests/cli/thread_timing/index.sh:14` expects a disassembly to print what the
  grid prints.

* `ill_formed`.  `parse_utf8` converts a byte from a signed `char` to `int`
  (`src/string_processing.hh:93`), so that 0xFF is EOF.  Where a character should
  begin it decodes to -1 and not to U+FFFD, against `tests/unit/utf8.hh:36`.
  Input that a program reads comes from `getchar` and is not affected.

Met while modelling, without a run of their own: a shift by a negative or too
large amount (`src/thread.hh:417`) is the one operation, and a join with an empty
stack the one way of meeting, that `-w` does not announce, although
`README.md:191` says that warnings are printed for undefined behaviour
(`UndefinedIsWarned` states the exceptions); and the help text
(`src/input.cpp:47`) forbids `-a` with `-c` while `is_valid` accepts the pair and
`README.md:263` describes it.  `HelpAllows` is the help text, which forbids the
pair; `RefusedByTheHelp` demands neither its refusal nor its acceptance
(`Disputed`).

The compiled program keeps 32 bits where the interpreter keeps 24
(`src/compiler.cpp:63`).  For results between 2^23 and 2^24-1, which the
interpreter does not regard as overflow (`src/int24.cpp:5`), the two differ in
sign: `-1 1 UDV PTI` prints -1 and 16777215.  `README.md:70` calls stack items 24-bit
integers, `README.md:261` the compiled program a literal translation.
`CompiledAgrees` is what does hold: the two agree modulo 2^24 until a wide number is
used by an operation that is not arithmetic modulo 2^24.

The interpreter masks the index that IDX takes (`src/thread.hh:394`), the compiled program
does not: in a stack of more than 2^23 values a negative index reaches a value in the
one and is undefined in the other.  The run `translation` is too small for such a
stack; the proof of `CompiledIsDefined` could not do without the cause `index`, and
TLC shows the step with two bits and a stack of five.

Of an assembly text, a semicolon behind a quotation mark begins no comment
(`src/assembly_scanner.cpp:59`), whichever mark it is: `PSC 'c'; text` is refused as
an invalid literal, although the comment at line 53 removes unquoted semicolons and
the grammar (`README.md:235`) needs no blank before one.  `Assembler` takes the
code's rule for where a comment begins, and some texts of `MCAssembler` have such
lines; `RefusedForCause` and `ReadAsWritten` hold of them under that rule and would
not report it.  A line of colons fails the assertion at line 80; in
`Assembler` the behaviour ends there (`NothingButColons`).

A step that reaches a worker before its runtime has loaded takes the place of the
call (`wasm/worker.civet:38`): the page then waits until the user presses Stop.

`Clear output & errors` is never disabled (`wasm/index.html:115`): pressed while a
program is expanded, it empties what has come of it, and the rest is taken for the
whole.  `stdoutBuffer` (`wasm/in.civet:28`) is not emptied by `wasmCancel` or
`clearOutput`: bytes of a character that a program left unfinished join the first
wide character of the next expansion.  `WholeUnlessCut` excepts both, and Stop in the
middle of an expansion, by `cut`.
`DebuggingStarts` has this as its exception (`hasty`).  It happens only if Stop
has been pressed while the grid was being expanded: the page then goes on to the
second call of `debugProgram` in a new worker, with the step button enabled.  No
document excludes it.

Jumps also cost ticks that the grid does not spend: up to two in a row
(`JumpsLeadToWork` is the bound), so that threads which meet at a join by
counting ticks may meet in another order in the listing.  No document promises
the contrary in general, hence no finding.

## 4. What is proved

### The walk

`GridProofs` and `WalkProofs` prove, for boards of every size and every text:

| Theorem | Statement |
| --- | --- |
| `WalkStaysOnBoard` | `Spec => []TypeOK` |
| `WalkStepsByTheRule` | `Spec => []StepsByTheRule` |
| `WalkCanBeRetraced` | `Spec => []StepsRetrace` |
| `WalkFollowsTheTables` | `Spec => []HeadingsFollowTheTables` |
| `GridStaysInside` (in `GridProofs`) | the grid satisfies `HolderStaysInside` |
| `GridCanFork` (in `GridProofs`) | the grid satisfies `HolderCanFork` |

**Assumptions.**  `SourcesAreTexts`: the sources are sequences of cells.
`GridCanFork` is about programs that are `Spelled`: no cell is one of the
direction-sensitive operations, which have negative codes so that no character
of a source can be one (`src/instruction.hh:17`; the only negative cell that
decoding yields is -1, for an invalid byte, and -1 is no operation).

**Argument.**  `TypeOK` is inductive once it is known that a board exists:
`program::program` looks for the smallest triangle that holds the text, and that
there is a smallest one is `LeastNumber`, proved from the well-foundedness of
inclusion on finite sets.  The walk then is a matter of cases: six headings,
each with its corner, edge and interior.  The edge rule's reference says where a
line begins without computing it (the cell of the line that has no cell behind
it); `StartsThere` is the computation.  `StepsRetrace` is three pairs of inverse
steps, `HeadingsFollowTheTables` the 48 + 24 table entries.  The last two
theorems connect the walk to the interpreter: they turn the theorems below into
theorems about `interpreter<program_walker>`.

### The scan of the grid

`ScannerProofs` proves, for boards of every size and every set of sources:

| Theorem | Statement |
| --- | --- |
| `FragmentsFilledOnce` | `Spec => []EveryFragmentOnce` |
| `ListingFits` | `Spec => []LocationsFit` |
| `ListingIsComplete` | `Spec => []AllListed` |
| `TargetsHoldWork` | `Spec => [](JumpsHitWork /\ TargetsExist)` |
| `FragmentsEndOnce` | `Spec => []FragmentsEnd` |

`AllListed` is defined there: when the scan is done, the start is located, and with
each located IP every IP that the interpreter's threads go on to from it, by the
operators that the interpreter is given (`GridAt`, `GridSplit`, `GridJoin`,
`GridAdvance`).  With `ListingFits` this is the half of the round trip that concerns
the listing: it has everything the program can reach, once, and in the grid's order.
The last two say of the fragments what the listing (below) needs: no jump leads to
a jump, no label is left without an instruction, and no fragment runs into the one
that happens to be printed next.

**Assumption.**  `SourcesAreTexts` of `InstructionScanner`: the sources are texts
without the direction-sensitive operations (`Directed`), for the reason given above,
and of cells that have a name.

**Argument.**  `WorkInv` is `EveryFragmentOnce` without sequences: the fragments that
are still empty are those of the worklist and the one that is traced, and no two
entries of the worklist are for the same one.  It is inductive with the types, as
every new fragment is put on the worklist with its own index.  `LocationsFit` is
inductive on top of these: a trace only appends to fragments that nothing is located
in yet, so that what has been said of a location stays true (`ReachesKept`,
`GoesOnKept`), and each of the ways an iteration can go adds at most one location
(`NothingNew`, `LocatesFits`).  The place behind the last instruction of the
fragment that is traced is the IP the scan stands at; that an empty fragment will
begin with the IP that is queued for it (`WhatWaits`) is what a jump to it relies
on.  At the end no fragment is empty and nothing waits, so what follows a
location is located, and `ThreadsAdvance` compares that with the interpreter's
split and join.  `JumpInv` is the reason why a jump hits no jump: each leads to where
an IP is located, and so is the place of every other instruction, while jumps
themselves have no IP.

### The listing

The second half of `ScannerProofs` is the round trip, for boards of every size, every
set of sources, with and without the flag `-n`:

| Theorem | Statement |
| --- | --- |
| `ListingAgrees` | `DSpec => []ListingFollowsGrid` |
| `JumpsSettle` | `DSpec => []JumpsLeadToWork` |
| `AssemblesIfPrintable` | `DSpec => [](/\ Printable => DisassemblyAssembles /\ (phase = "done" /\ Assemble(Lines).error = "" => Printable))` |

`Printable` is defined there: the instructions of the fragments have names, and the
pushed number is one digit.  The theorem has both directions: without `-n` such a
listing is accepted, and no other listing is, with `-n` or without.  With `-n` a
printable listing may be refused, as the NOP that a label stood before is gone; the
other two theorems then say nothing, as there is no assembled program.

**Assumption.**  `SourcesAreTexts`, as above.

**Argument.**  `DisassemblyScans` first: a step of the composition is a step of the
scanner or leaves it alone, so all of the above holds.  Then:

1. *Layout* (`LaidOut`).  `Lines` joins the lines of all fragments with `FlattenSeq`, a
   fold.  `Flattened` says what it does: each sequence has a place, behind those
   before it.  From that, `Placed(place)` gives each location the number of its first
   line; the lines of a location are none (a hidden NOP), one, or two (a branch whose
   first target is not the next fragment).
2. *First pass* (`FirstPassReads`).  The assembler folds over the lines; what the fold
   has after each of them is proved by induction over their number
   (`SetInduction`, from the well-foundedness of inclusion on finite sets).  It
   ends with an error if, and only if, a line is not acceptable by itself or a label
   has occurred before.  Labels are locations, a location is printed at most once,
   hence no label occurs twice.
3. *Second pass* (`ListIs`).  The targets are locations that are shown, so they
   are found; `Listed` says where each instruction leads.  `FragmentsEnd` gives the
   end check: the last line is no instruction that falls through.
4. *Side by side* (`DisassemblyInv`).  That both threads are at the same operation is
   not inductive.  `Beside` has the four ways in which the listing can stand to the
   grid: at its line, or at the next one that is shown (`AtPlace`); at a jump to it
   (`BeforeIt`); at the jump that is printed behind a branch (`Turning`); or past it,
   because the grid still rests on hidden NOPs before a jump that the listing has
   made already (`Overtaken`).  TLC checked `Beside` before it was proved, and found the
   last two.

### The interpreter

`InterpreterProofs` proves, with TLAPS, for every program holder, set of
programs, thread bound and number of runs:

| Theorem | Statement |
| --- | --- |
| `TypeCorrect` | `Spec => []TypeOK` |
| `SideListsCorrect` | `Spec => []SideListsFit` |
| `UnreachableIsUnreachable` | `Spec => []NothingUnreachable` |
| `NumbersCorrect` | `Spec => []EldersFirst` |
| `MeetingsCorrect` | `Spec => []NoMissedMeeting` |
| `StuckIsForever` | `Spec => StuckForever` |

**Assumptions.**  `CountsAreNatural` types the bounds.  `HolderStaysInside` says
that a holder's `advance`, split and join lead from valid IPs to valid IPs, and
`HolderCanFork` that a split or a pair of threads waiting at one cell meets the
conditions of `split_thread` and `join_threads`.  They are what the template
needs from its argument and TLC evaluates them for both holders on each
instance: for the grid on all boards of `MCGrid` (and there they are theorems,
see above), for the assembler on all programs of `MCAssembly`.

**Argument.**  None of the properties is inductive alone.  The proof is in three
layers, each using those before it.

1. `VectorInv` joins `TypeOK` and `SideListsFit` with three facts: a thread
   idles only on an operation that rests and waits only on a `TJN`
   (`StatusFitsOp`, needed because `advance` is called only on operations that
   have a successor); the loop index is at most one past the vector and pending
   threads are active (`LoopsFit`).  That an erased index is the highest one
   left is what makes the remaining ones valid after the shift.
2. `NumberInv` adds to `EldersFirst` that no number is above the counter, with
   the one exception of the first thread of a run: it takes its number from the
   counter of the run before.  That thread is alone until it is removed, and
   until then its number need not be below those of the threads that replace it.
3. `MeetingInv` adds to `NoMissedMeeting` that each waiting thread that the loop
   has passed and that stays is the one the map knows at its place.

`StuckForever` is an action property and follows from the first layer: in a
state where all wait apart from each other, the loop only refills its map.

### The refinement

The second half of `InterpreterProofs` proves `ImplementsThePool`,
`Spec => RunsThePool`: under the same assumptions the interpreter implements `ThreadPool`.

**Argument.**  No two living threads share a number (`NumbersApart`, from
`NumberInv`), so the set `Alive` and the pool that is indexed by numbers hold the
same (`PoolValue`), and taking some threads out of the one and putting others in
is the same in the other (`PoolReplaced`).  `TickedAlive` says what any tick does
to `Alive` and to the threads that have had their turn, by the indices it removes
and the threads it lets wait; each of the six turns is an instance of it.  That
`Wait` is right to find no partner takes `MeetingInv` (`WaiterIsKnown`: whoever
waits at this place is in the map), that the new numbers are new takes
`NumbersFit` (`Counted`).  `EndTick` and `Erase` are stutters: at the end of the
loop all have had their turn, and erasing the highest removed index leaves the
threads that stay.  `NextRound` is the pool's `NewRound` or, if nobody is left,
its `Return`.

### The web debugger

`WebDebuggerProofs` proves, for every number of threads and of colours and every
bound on the messages under way:

| Theorem | Statement |
| --- | --- |
| `WebTypeCorrect` | `Spec => []TypeOK` |
| `CallsDoNotOverlap` | `Spec => []NothingLeftOver` |
| `RuntimeComesFirst` | `Spec => []CallsFindTheRuntime` |
| `OutputIsWhole` | `Spec => WholeUnlessCut` (an action property) |
| `OneRoundAtATime` | `Spec => []OneRoundInTheTable` |

**Assumption.**  `PageAssumption` types the four bounds; there is at least one
thread.

**Argument.**  The properties speak of a moment (the buttons are enabled, a call
starts), the reason for them lies in the channels.  `Inv` therefore adds to
`TypeOK` what may be under way: `LoadingInv` relates the worker's life to the
first message, `CallInv` says that the call the page awaits is in one place at
most (in the queue of the worker, kept for the runtime, in progress, or ended
with its last message in the queue of the page), and `OutputInv` splits the bytes
of a grid: unless the expansion is cut, the first of them have arrived and are what
`output` and `stdoutBuffer` show, and the rest up to `sent` is under way, in order.

`OneRoundInTheTable` needs more, as the table is right only if the messages under
way keep it right.  `TableInv` says that there is a function that foresees what
the page will know (how many threads, how many of them shown, of which round)
after each message under way: it begins with the table as it is, each message
takes it from one value to the next, and it ends with what the worker has done.
Sending extends that function at its end, receiving takes off its beginning.

### The compiled program

`TranslationProofs` proves:

| Theorem | Statement |
| --- | --- |
| `StackInItsBlock` | `Spec => []InsideTheBlock` |
| `HarmIsAnnounced` | `Spec => []UndefinedIsWarned` |
| `CompiledAgreesAlways` | `Spec => []CompiledAgrees` |
| `CompiledIsDefinedAlways` | `Spec => []CompiledIsDefined` |

**Assumptions.**  `WidthsAssumption`: the language's numbers have at least two
bits, the host's ints more than those.  `StackAssumption` types the bound on the
stacks and the numbers a program pushes.  `CapacityAssumption`: the block starts with
at least two cells (the code: four) and memory is enough for those.  That the width is
a parameter is what matters here, as TLC checks 3 and 5 bits and the code has 24
and 32.

**Argument.**  A capacity of one would not grow, as 7/4 of it is one; from two on it
does (`GrownMakesRoom`), so a push that finds the block full has a cell after
`realloc`, or is dropped.  `HarmIsAnnounced` needs no invariant: the
conditions under which a tick is undefined are compared with those under which it
warns.

`CompiledAgrees` is inductive with the bounds on both stacks, `SideBySide`.  A cell and
its value are `Alike` if they are equal as unsigned numbers, which is the same as
being congruent modulo `2^Bits` (`SameUnsigned`); a cell that is not wide *is* the
value (`NotWide`).  So each of the expressions is either a ring operation, which
keeps congruence if nothing overflows (`RingOperations`), or one of the
`Sensitive` ones, whose operands `Cause` has found to be narrow.  Three parts of the
arithmetic are not in the provers and are proved first:

* `2^n` is known to them for numerals only.  `SetInduction` is an induction over a
  set of numbers, from the well-foundedness of inclusion on finite sets; with it
  `2^n` is the number of subsets of `1 .. n` (`PowerCounts`), and what doubles these
  doubles it (`PowerNext`, `PowerSum`).
* AND, IOR and XOR are defined bit by bit.  The low bits determine a number of the host
  up to its congruence (`LowBitsDecide`), and for every choice of bits there is
  a number (`BitsExist`); hence the operations on congruent operands are congruent
  (`BitwiseOperations`).
* That the remainder of a sum or product is that of the remainders
  (`SameRemainder`, `DivModUnique`).

`CompiledIsDefined` compares, opcode by opcode, what is undefined in C with the
causes (`HarmlessIsDefined`): heights are equal, the operands that decide are not
wide.

### The assembled program

`AssemblerProofs` proves, for every set of texts:

| Theorem | Statement |
| --- | --- |
| `AssemblerTypeCorrect` | `Spec => []TypeOK` |
| `LostOnlyThere` | `Spec => []LostOnlyByALabel` |
| `WrittenIsRead` | `Spec => []ReadAsWritten` |
| `RefusalIsJustified` | `Spec => []RefusedForCause` |

**Assumptions.**  `TextsAssumption` types the texts: sequences of lines of five parts.
`WritingAssumption` says where one part ends and the next begins (`WellWritten`): no
blank or colon in a label, blanks and colons in the gap behind it, no blank in a name
nor a colon at its beginning, and a comment from the first semicolon that is not right behind a quotation mark, which is
the code's rule.  It excludes no line: TLC checks that every line of up to five
characters has exactly one such division (`EachLineIsWritten` in `MCAssembler`).  A
`" "` stands for any white space in its place, and one mark for the three letters of
an opcode or the digits of a number.  The first two theorems do not use it.

**Argument.**  `Collected` is the invariant of the first pass for the first two: every
instruction has a known name, and every label is at most the number of
instructions so far, which only grows.  The end check makes the last instruction one
that does not fall through, the second pass changes operations no more
(`ResolvedRuns`), and so a step leads into the list or to a label behind it
(`ThreadStays`).

The other two need how a line is taken apart, and what a pass over the lines adds up to.

1. *A line.*  The searches find the least index with a property, or the one behind the
   line (`FirstOfIs`, `FirstNotOfIs`).  `StatementIsLaid` gives the place of each part,
   `CodeIs` that the search for a semicolon stops at the comment and at nothing
   before it, `PlacesFound` that the searches for the ends of label and name stop
   where the parts do.  Together `LineIsRead`: `Parts(Code(Characters(w)))` are the
   parts of `w`.
2. *The lines.*  `Agrees` relates what has been collected to the lines read so far.
   `Worded` joins the lines that have an instruction with `FlattenSeq`, a fold;
   `WordedOneMore` and `LabelsOneMore` say what one more line adds to
   it, and so `LineAgrees` that `Agrees` is kept by every line that is accepted.
3. *The verdict.*  `ReadingInv` has `Agrees` for as long as there is no error, and that
   there is an error only in a text that is none.  That a line is refused makes the whole text
   none (`RefusedLine`); after the last line the four remaining causes are
   compared with the checks at the end and with the second pass (`ChecksAgree`).

### The command line and the source

`StartupProofs` proves, for every set of invocations and every size of the buffer:

| Theorem | Statement |
| --- | --- |
| `CommandLineRefused` | `Spec => []RefusedByTheHelp` |
| `FlagsAreRead` | `Spec => []NoFlagIgnored` |
| `SourceReadWhole` | `Spec => []SourceIsWhole` |
| `ShareIsRead` | `Spec => []ReadsItsShare` |
| `DamageStaysLocal` | `Spec => []DamageIsLocal` |
| `PrintedGridReadsBack` | `Spec => []ExpandReadsBack` |

`SourceIsWhole` is defined there and is the part of `ReadsItsShare` that is about
bytes: the text is what has been given, to its end or to the first NUL, and
what the program reads begins behind it, or with the first byte of stdin if the
source is in a file.

**Assumptions.**  `InvocationsAssumption` types the invocations: a command line is a
sequence of arguments of the three kinds, a text a sequence of bytes.
`BufferAssumption`: the buffer has at least one byte.  `TypedAssumption` relates the
characters that were typed to the bytes: they are their UTF-8, or, if a character is
spoilt, the bytes begin and end with the UTF-8 of what stands before and behind it,
which allows anything in its place, of any length.

**Argument.**  `RefusedByTheHelp` looks at a whole command line, `parse_args` reads
it from the left.  `ParsedInv` says what it knows before it looks at an argument:
all flags so far are in the table, none of them asks for help, the flags that are set
are theirs, there has been at most one name, and flags are still parsed
just if the first `--` has not been passed.  An argument that ends the loop then
decides the matter (`HelpIsNoRefusal`, `MisplacedIsRefused`), and behind the last
one the flags do (`FlagsDecide`), as `is_valid` accepts what the help text allows and
the disputed pair, and nothing else (`ValidOrDisputed`).  For `SourceIsWhole` the text is the beginning of
the bytes and the stream their rest after every block (`ReadInv`).

The last three theorems are about characters.  `Unichars` is a recursive function on the
positions of a text; that there is such a function is proved by induction over their number
(`Decodable`), and what it yields is then said once, by its first character
(`UnicharsIs`, `DecodesFrom`).  From there:

1. *Round trip.*  The UTF-8 of a character, at each of its four widths, is decoded to it
   whatever follows, from either source of bytes (`WholeRead`); for a sequence of them by
   induction (`TextDecoded`).  UTF-8 is as the standard defines it (`Utf8`), not
   the inverse of the code.
2. *The parts of a source.*  A byte below 128 in UTF-8 is a character of its own
   (`ByteOfChar`, `CharHasByte`).  So the NUL of `-z` and the end of the first line cut
   between characters (`TextEnds`, `ShebangIsLine`), and the bytes behind the cut are again a text.
   `InputInv` adds to `ReadInv` that what a program has got and what the
   stream still holds are, decoded, what was given to it.
3. *Damage.*  Decoding never steps over the first byte of a character: one that begins none
   is used up alone, and an ill-formed character ends before a byte that continues
   nothing, or with it (`StrayByte`, `TakesOneByte`).  From any position before a whole
   character the decoder therefore comes to that character or to the next
   (`StrayBytes`, `ReadAgain`); behind it all is in step again.  That it may
   be the next is what `DamageIsLocal` allows: the byte that shows a sequence to be ill-formed
   is used up with it, and may have begun a character.  `Framed`
   leaves out a text that now has a shebang or, with `-z`, a NUL.
4. *The grid.*  `Yields` says of bytes which cells they make, whatever follows them; it is
   proved for one cell, for blanks, and for two pieces one behind the other, and
   so for a place, a row and all that `-e` prints (`YieldsGrid`).  That the first line is
   not cut off as a shebang (`NoShebang`): it would take two cells for one, and a grid
   of two cells has a side above one, so that its first line begins with a blank.

### Only model-checked

* Liveness (`RestsEnd`, `MeetingsHappen`, `MirrorsLeadHome`, `ToursTheBoard`,
  `ScanEnds`, `OnlyTheLastThreadWaits`, `DebuggingStarts`): TLAPS has no rules for
  fairness here.
* Nothing else: every invariant that a passing run checks has its theorem.  What a
  fold or a recursive function computes is proved for the particular ones that the
  properties speak of.  They exist by an induction that the provers can be
  given only for a particular set (`SetInduction`), as the library's theorems take
  an operator; each fold and each recursion has therefore its own.

## 5. Plan

Done: the walk and the interpreter with their proofs and the refinement; the
assembler with its proofs; the scanner and the disassembler with their proofs; the
stack machine and the compiled program with their proofs; the command line with UTF-8
and its proofs; the web debugger with its proofs.  Left: the check box of the page
(see below) as an action of the user.

## 6. Not modelled

* GTI's reading: `scanf` eats what it cannot convert, which is the C library's;
  in `StackMachine` GTI delivers any number.  The console debugger takes a byte of
  the program's own input when it waits for Enter.
* `Interpreter` and `StackMachine` are not composed: in the first a branch goes
  either way and an operation that needs the stack may end the process, in the
  second opcodes come in any order.  Each therefore has more behaviours than the
  program, and what holds in them holds in it, except that behaviour after
  undefined behaviour is in neither.
* Of the listing's run, threads other than the one that is followed: which
  thread meets which depends on ticks, and there grid and listing differ.
* Cells that are no opcode: the disassembler exits at one that it reaches.
* The compiler's text: labels and gotos are the locations that
  `InstructionScanner` has; the compiled program's clock and dice.
* In `MCAssembly`, programs with a label that stands before no instruction:
  such a label can lead the IP out of the list (`LostOnlyByALabel`), which
  contradicts `HolderStaysInside`.  `Startup`'s assembly texts have no comments.
  The values of literals are not in the assembler's model.
* Of the page: `disassembleProgram`, `condense` and the assembly mode, which
  differ from the modelled calls in nothing that the protocol sees; characters of
  three bytes and more, and the error output; the delay of the timer; the first debugging session's
  `setTimeout` that sets a width; the check box that switches to assembly and,
  when unchecked, enables buttons during a call (a hazard in `PROJECT.json`);
  colours that are removed while their threads are shown.
* `compat.hh` and `any_program_holder.hh` (macros and a concept), `time.hh` (two
  formulas over the system clock), the page's styling and the example programs.
  The build is taken to define `VERSION`, so that there is a flag `--version`.
