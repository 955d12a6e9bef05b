# A TLA+ model of cpu4

cpu4 is a home-made 8-bit computer: the tables of its ALU chips and its microcode, a
simulator of its instruction set, an assembler and a linker, a C runtime in assembly, and
lcc with a back end for it.  These modules model the program parts of the repository, from the
preprocessor to the processor, check them with TLC on small instances and prove what matters
most with TLAPS.  Paths below are relative to the repository (`src/` there).

## Inventory

| Part | Source | State | Operations | What is hard | What makes it correct |
|---|---|---|---|---|---|
| UART circular buffer | `sim/cb.c` | read and write index, size, arena | push, pop | wrap-around, overwriting when full, an arena four times too small | indices and size agree; the newest bytes, in order |
| Simulator process | `sim/sim.c` | main thread, UART worker, mutex, halt flag, terminal mode | start, instruction loop, device read, `uart_thread_worker`, signals, `terminate` | two threads, end of input, signals at any point, division by the cycle count | exclusive access; FIFO; terminal restored; halt ends the process |
| Instruction set simulator | `sim/sim.c` | registers, memory, devices, section prefix | one handler per opcode, ALU | order of halves, carries between halves, prefixes, reads with side effects | words survive the stack and the frame; jumps decide comparisons; the decoder stays in step |
| ALU tables | `alu/generate_alu_table.cpp` | two chained chips | table generation, self test | one line carries a carry, a borrow or a shifted bit between the chips | the chips compute what the simulator's ALU computes |
| Microcode compiler | `microcode/mc_compiler.cpp` | tables of lines and aliases, microcode lines, image | parse, expand dashes and wildcards, compile, split into chips | wildcards, fields a dash inherits, two lines that claim one address | an image exactly when the source has a meaning, with each signal where its line names it |
| Assembler | `binutils/asm.c`, `token.c`, `labels.c`, `sections.c` | current section, labels, uses, expected operands | instructions, directives, labels, object file | the operand counter, label scopes, sums after a label, 16-bit sizes | what is accepted is encoded exactly; every use finds its label; the object file reads back |
| Linker | `binutils/link.c` | files, section lists, labels | load, select sections, sort, place, resolve | two functions that recurse through each other over circular references; four walks over lists that are sorted in between | what is kept is what the entry point needs; every address linked is that of a label in the image |
| C runtime | `binutils/crt0.s`, `crt1.s` | stack frames | multiplication, division, remainder, negation | signs, hand-counted offsets, division by zero | the results of C; the caller's stack; every call returns |
| Code generator | `lcc/src/cpu4.c`, `cpu4_impl.c` | register targets, spill slots, offset of the stack pointer | one emitter per tree operator | slots shared by nodes, offsets through pushes and calls, multi-byte comparisons | operands are still in place when they are read; the pushes are counted; the program means what C says |
| lcc: trees to code list | `lcc/src/dag.c`, `stmt.c` | hash table of nodes, forest, code list, labels | list, kill, jumps, labels, loops, switches | a loaded value is used again until something may have changed it | as above; every jump has its label |
| lcc: front end | `lcc/src/decl.c`, `expr.c`, `enode.c`, `simp.c`, `init.c`, `sym.c`, `types.c`, `tree.c` | scopes, symbols, types, tokens read, data put out | declarations, declarators, initial values, expressions, folding | conversions, folding in the host's integers, inner braces, linkage over several declarations | trees and data compute what the source means; a name is defined, exported or imported as its declarations ask |
| lcc: preprocessor | `lcc/cpp/*.c` | stack of sources, macro table, conditional stack, rows | directives, expansion, hide sets, inclusion | macros that name each other, arguments that end in a macro's name, groups skipped, line numbers | the tokens the standard asks for, each in its line; what is wrong is reported |
| lcc: the rest | `lcc/src/lex.c`, other targets, `lcc/lburg`, `lcc/tst` | | | | not modelled |
| Guest programs | `progs/` | | | | not a subject of the model |
| Compiler driver | `lcc/etc/cpu4.c` | | | | a table of command lines, not modelled |

How the parts interact: the preprocessor turns a source into rows of tokens, the front end these
into trees and data, `dag.c` and `stmt.c` the trees into a code list of dags, and the code
generator the list into assembly text that calls the routines of `crt1.s`.  The assembler turns
text into objects with label tables, the linker objects into a ROM image that starts at `crt0`; the
simulator runs it.  Inside the simulator the processor reaches the UART through the memory map,
and the UART worker thread shares the circular buffer, the mutex and the halt flag with it.  The
same instruction set exists a second time in hardware: the ALU chips and the microcode.

The seams are modelled too: `MCAssembler` requires of every object file what `Linker` assumes of
its input (`FitForLinker`), `CpuProgram` decodes what `Encoding` emits, `Runtime` and `Compiler`
run assembled text on `Cpu`, and the reference for C is one module for the two halves of the
compiler (`CSemantics`).

## Modules

| Module | What it is |
|---|---|
| `CircularBuffer` | `cb.c` as operators on the `struct circular_buffer` record |
| `UartChannel` | the abstract specification: what the UART promises the guest |
| `Simulator` | the process: main thread, worker thread, signals, input |
| `SimulatorProofs` | theorems about it |
| `Alu` | `aluop`, flags, jump conditions, `inc16` and `dec16` |
| `Cpu` | memory map, fetch, decode, every handler; one step is one `cycle()` |
| `Encoding` | the bytes the assembler emits for an instruction |
| `CpuProgram` | `Cpu` loaded with programs or images, and two history variables |
| `CpuProofs` | theorems about them |
| `AluTable`, `AluTableProofs` | the two ALU chips, the generator's own test; theorems about both |
| `Microcode`, `MicrocodeProofs` | the microcode compiler, and what a source means; theorems about it |
| `ObjectFormat` | the bytes of an object file |
| `Assembler` | `assemble()`: one step per turn of its loop, and the object file |
| `AssemblerProofs` | theorems about it |
| `ObjectFiles` | the linker's input and the lookups in it: files, sections, labels, uses |
| `LinkedImage` | the abstract specification: what an image of some object files is |
| `Linker` | `link.c`: lists, marking, sorting, placing, patching, writing |
| `LinkerProofs` | theorems about it |
| `SequenceLemmas` | lemmas on sequences that the proofs share: `FlattenSeq`, running sums, segments |
| `RuntimeLibrary` | assembly text and the program it stands for; the text of `crt1.s` |
| `Runtime` | its routines called and run on `Cpu` |
| `Dag`, `Statements` | from trees and statements to the code list |
| `CodeGenerator`, `Emission` | registers, slots and frames; the text of each operator |
| `Compiler` | all four, then linking and running the text |
| `CSemantics` | reference: C's arithmetic on bytes, in base 256; what trees and statements mean |
| `Types`, `Nodes`, `Trees` | types of C; expression trees; conversions, folding and simplification |
| `Symbols`, `Parser`, `FrontEnd` | state of the front end; recursive descent; one action per declaration or statement |
| `CSource` | reference: C programs, how they are written, what they mean |
| `SourceFiles` | the files the front end reads |
| `Preprocessor` | `lcc/cpp`: rows, directives, macros, conditions |
| `MC...` | the instances, with the references and inputs only they need |

A reference module is no model of the program: it says what the result should be and shares no
definition with the modules it judges but the shape of the data they exchange (`CSource` uses the
types of `Types`).

### CircularBuffer, UartChannel, Simulator

`cb` is the C record without its constant capacity.  `cb_create` allocates `capacity` bytes
and uses them as `capacity` ints, so only the first `capacity / sizeof(int)` elements lie in
the arena (`ArenaSlots`).  What is written elsewhere may be changed by the allocator or the C
library: the model stores `Clobbered` there, a pop of it returns any byte, and once such a
write has happened (`overrun`) the process may crash at any time (`HeapFault`).

The program counters `mpc` and `wpc` name the statement a thread is about to execute; each
statement that touches shared state is a step: `while(!halt)`, `read`, lock, push or pop,
unlock.  Push and pop are single steps because `MutualExclusion` shows that nobody else is
between a lock and an unlock at the time.  `WorkerReadEof` is the call of `read` that returns 0
(the code does not look at the result); `phantom` remembers that it happened, so that
`BufferIsNewestInput` speaks only of input that existed.  The input itself has no bound: the history
`sent` is a window on its `Remembered` newest bytes, one more than the buffer holds, which is all that
property compares.  A signal with a handler (`SIGINT`, `SIGQUIT`, `SIGTERM`) runs `terminate` on
whichever thread it hits.

What a guest instruction computes is left out here.  Between `BeginCycle` and its end (`CycleOther`,
`CycleExt`, `CycleHalt`) it may read the UART any number of times, and it may write `sol`, which terminates
inside the instruction.  `nameless` says that `op_ext` has selected one of the sections 4 to 15 and that
`print_state` may be called for it: by `cycle` in debug mode, or by `op_sim_info`.  `execute` looks
at two bits of the section, `print_state` at four, so it takes the name of the operation from behind `ops_text`
and may die of it (`PrintsBadName`; `Cpu` has the same step).

The ways to die with the terminal in raw mode are thus four: the ROM cannot be opened and `fread` is given a
null pointer (`LoadNothing`); `terminate` divides by a cycle counter of 0, before it resets the terminal; a write
outside the arena went to memory of somebody else; a section without names was printed.  `TerminalRestored` says
that there is no fifth, and that a process that exits always resets the terminal.

`UartChannel` has a queue, the position of the next byte and the last answer.  The refinement
maps the queue to the buffer's contents from the read index on.  Of every `Capacity`
consecutive bytes only the first `Reliable` are stored faithfully; the mapping instantiates it
with `ArenaSlots`, 32 of 128 in the real program.

### Alu, Cpu

The machine is one record `m`.  A handler `Op...` is a function from machine to machine, put
together from primitives named after what the C statements do (`Load`, `Store`, `SelGet`,
`SelSet`, `Imm`, `PushByte`, ...) in the order the C code calls them.  Reading memory changes
the machine (a read of the UART takes a byte), so a read is a function too and leaves its byte
in `bus`, which is 0 between cycles.  The actions are the entries of the opcode table.

Kept on purpose: ROM is writable; an unmapped address reads as 0; the section is masked with 3
by `execute` but not by `print_state` (`PrintsBadName`); undefined opcodes do not drop the section
(`BadOp`); ALU operation 13 uses an uninitialised word (`Junk`); `op_jmps` reads past its table
for condition 7 (`beyond`); debug prints read the stack through the devices (`Peek`);
`op_sim_info` reads its operand four times.  `z` is never written and is 0.

### AluTable

A chip is a function from an address (a half of A, a half of B, the operation, a carry) to a half of
the result, whether it is zero, and a carry.  `process` chains two of them and derives the flags.
`ComputesAsChips` compares every ALU instruction a program executes with the chips, the
post-increment excepted (finding `alu_inc`).

### Encoding, CpuProgram

`Encoding` gives the bytes of a mnemonic from its place in the keyword tables and the number of
operand bytes the assembler waits for.  `CpuProgram` runs `Cpu` on encoded programs and
remembers where instructions start and which calls are in progress.  `MachineSpec` starts from a
program of `Program`, or from an image of `Image` with any bytes.  The programs of `MCCpu` have a
start like that of `crt0.s`, two subroutines, and two blocks, each of which leaves the stack as it found it.

### Microcode

A line of the source is a sequence of words; there is one action per kind of line, and `ProcessDashes` and
`CompileLine` take one line of microcode a step.  A microcode word is the set of its bits that are 1.  The
second half of the module says what a source means: which sources are refused, and which signals
are active at which addresses.  Kept: an address character other than 0 and 1 ends the number, and
bits beyond the last chip are dropped without a word.  `1 << address_width` is computed in an int
(`mc_compiler.cpp:296`), so a width beyond 30 is undefined, and the address words of a line may run
past its end (`Undefined`); such sources have no meaning.

### ObjectFormat, Assembler

The source is chosen word by word while it is read: a turn of `assemble()` takes one word and what
the handler of that word takes after it, so an action is a whole handler.  `expect_arg_n` counts
operand bytes down, also below zero; `ungot` is the word put back; `eof_hit` the end of the file met in
the middle of an instruction.  `items` is a history of what was emitted where.  `create_section` keeps a
truncated name, while lookups compare whole names (`Truncated`).  A byte has three values and a
section eight bytes, so that both limits are met; words have their 16 bits (`WordSize`).  `WriteFile` makes the bytes of `ObjectFormat`; `ReadBack`
applies `deserialize_section` to them.

The properties say under which conditions they hold, because the code does not check them.
`expect_arg_n` is a char (`binutils/asm.c:82`): 256 literals where none belongs bring it back to 0,
so `AcceptedIsExact` allows a gap of 256 bytes and more (`Meets`).  `.org` may go back over what was
emitted and overwrite the id of a label (`NeverBack`), and together with `.skip` beyond 64 KiB
(`InRange`); 65 536 labels use all ids (`IdsSuffice`).  `UsesResolve` and `FitForLinker` name those
conditions; in the run the first one fails in some states, and nothing reaches the others.

### ObjectFiles, LinkedImage, Linker

An input is a sequence of files, a file a sequence of sections; a section is named by its node,
the pair of its file and its place there.  Of a section's bytes the model keeps their number, its
labels and its uses of labels.  A use is a pair of the label mask together with the entry whose id
the data hold at that address; uses are taken to occupy different bytes.

`sects` gives each name of a section the index of its list in the C array; a list holds the
sections of that name in the order of the files (`ListOrder`).  `BuildLists` numbers the names as
they are met; `Sort` numbers them by `sect_comparator`, which is all that `qsort` promises.  `stack` is
the C stack of the recursion: one frame per call of `require_section` in progress with the next
label it will look at; `require_label` marks a section and pushes a frame in one step, since nothing
comes between.  `RequireNext` is one turn of the loop.  Placing, patching and writing walk the
lists; `visited` is what the walk has passed, and `Following` the section it comes to next.
`position` are the positions of the labels, which `linker_offset_labels` changes in place;
`linked` are the words patched in.  `failed` is `exit(1)` with a message.

`LinkedImage` knows nothing of lists and walks.  From any object files it either refuses, which it
may only if no section exports `__entry` or something the entry point leads to needs a name that
is nowhere to be found, or it makes an image: the kept sections are a set closed under needs that
holds only what the entry point leads to, they lie one after the other from 0 on with the start
section first and code before data, and every use of a label that has one possible definition
holds the place of that definition modulo 64 KiB.  The refinement mapping takes the places from
`written`, where the bytes went in the file, and not from `start`, where the linker thought they
would go.  Where a name has several possible definitions `LinkedImage` leaves open which one is
kept and says nothing of the address: the code keeps one by the order of names and links one by
the order of files, and no document says which is meant.

Object files are as the assembler writes them (`InputAssumption`): one entry per name in a section,
every use of a label in the label table, and sections of one name executable alike, because the
assembler decides that by the name (`start_section` among them, `binutils/asm.c:27-36`).

### RuntimeLibrary, Runtime

The library is copied line by line as tuples.  `RuntimeLibrary` also resolves the labels of a text and
gives instructions of `Encoding`.  A task of `Runtime` pushes two arguments and room for the result, calls, and halts.
The expected result is computed on bytes by the arithmetic of `CSemantics`, because 32 bits do not fit TLC's integers.

### Dag, Statements, CodeGenerator, Emission, Compiler, CSemantics

A tree is `[op, t, size, kids, sym]` and a node of a dag the same with numbers of nodes for trees.
`Dag` follows `listnodes`, `node`, `kill` and the hash table; `Statements` the code list with `definelab`,
`jump` and `equatelab`.  `CodeGenerator` gives every node a register or slots, `Emission` has one
operator per emitter of `cpu4_impl.c` and counts `sp`, the growth of the stack.  `Compiler` is the
order of it all: one action per statement parsed, per root generated, per root emitted, per entry of
the code list passed; then the texts are linked behind `crt0` and `Run` is a cycle of `Cpu`.
`misread` is a history: the operands that were no longer where the generator had put them when
their text was written.

### Types, Nodes, Trees, Symbols, Parser, FrontEnd, CSource

The front end is a recursive descent that changes global state on its way.  `Symbols` collects that
state in a record, and every function of `Parser` takes it and returns it with what it has read.
`Trees` has the functions of `enode.c`, `simp.c` and `expr.c` that build nodes; they call each other and
are the cases of one recursive operator, `Build`, chosen by the name of the function, because TLC
estimates the cost of mutually recursive operators by following every call, and needs minutes for
what is a second in this form.  For the same reason values are often passed as parameters instead of named by LET.

`FrontEnd` reads a file one declaration or statement at a time.  Files of a family begin alike:
the common beginning is read once, and `Continue` then chooses the rest.  That is how the files are
presented, the program has no such step: what was taken for the end of the file is looked at again as its next token.

`CSource` writes programs as trees, prints them as tokens, and interprets them on unbounded integers
and a memory of bytes.  `MCFrontEnd` evaluates the trees of the front end by `CSemantics` and compares.

### Preprocessor, MCPreprocessor

A turn of `process()` is two steps: `ReadRow` takes a row from the current source, and one action per
directive, or `TextRow` for text, deals with it.  A row is a sequence of tokens with types, white
space and hide sets, as `tokenrow` is.  Where `gatherargs` loops for ever the input is `hung`.

`MCPreprocessor` builds files from items (rows, definitions, groups, inclusions), writes them down as
text, and computes from the items what the standard makes of them: expansion with hide sets, where the
standard leaves open whether a macro that reaches past the end of its own replacement may be
expanded again, so either answer is accepted.

## Runs

| Run | Shows | Bounds |
|---|---|---|
| `simulator` | types, exclusive access, indices, contents, terminal, refinement of the channel, termination after halt, progress of a guest read | 4 elements of which 2 in the arena, bytes 0 and 1, typed without end, the 5 newest remembered |
| `cpu` | well-formed machine, words through stack and frame, `adjust_sp` against the sequence in its comment, decoder in step, calls and returns, comparisons, ALU against the chips | 96 bytes of ROM, 32 of RAM at the top, the UART at 0x4000; all pairs of blocks, every block as an image, images no assembler emits; a byte may be typed at any time; 280 668 states |
| `linker` | types, recursion entered once per section, needs met and nothing else kept, resolution never fails after marking, refinement of `LinkedImage` | three files (or two, without the start file), sections out of twelve, up to two in each of the last two files: 5916 inputs, of which 1967 link |
| `assembler` | what is accepted is encoded exactly, uses and sums mean what was written, one section per name, the object file reads back and fits the linker | every source of up to four words with their followers out of 34; sections of 8 bytes |
| `runtime` | results of C, caller's stack, return of every call | every routine, operands at the edges of its width and of both signs, division by zero |
| `compiler` | compiled units compute what C says; operands in place, pushes counted, slots within the frame, jumps land, text untouched, termination | eight units: aliases, common subexpressions, decisions, loops, switches, recursion, blocks, widths, with several inputs each |
| `microcode` | an image exactly when the source has a meaning, and the right one | addresses of three characters, up to three lines, every fault of a line: 7193 sources |
| `frontend` | trees, data and linkage mean what the source means | fifteen families, some 5400 files; 299 without a defined meaning are skipped |
| `preprocessor` | the standard's tokens in their lines, and errors where there are some | ten families, some 19 000 sources; five conditionals deep, three inclusions deep, a long of 16 bits |
| `orders` (violation) | two words are exchanged into decreasing order | one unit |
| `jmps` (violation) | a `jmps` without condition falls through | as `cpu` |
| `alu_inc` (violation) | `alu inc` leaves A alone | as `cpu` |

The bounds suffice for the cases that matter: input without end wraps a buffer of four, fills it,
overflows it and leaves the arena; two byte values tell a lost byte from a doubled one.  Register
width is never reduced, so the carries between halves are real (the stack starts at 0xFFFF,
pointer blocks step over 0xFFFF, and the comparison blocks take all pairs of 0, 1, 127, 128 and
255).  The three parts of `WordsRestored` apply the handlers to every reachable machine, so they
are tried on many more states than those in which the instruction is next.  Their guards say that
the two bytes lie in RAM.

The sections of `MCLinker` hold local labels, exports, names defined twice or nowhere, references
within a file, across files and in circles, an empty section, a second start section, one section of
65535 bytes with which every later address wraps, and offsets of 3 and -1.  All combinations with one
`main` are linked.

The front end's families: pairs of operators, folds of constants, halves of words, multiplications and
divisions by powers of two, zeros and ones, casts, updates, choices, objects, declarators,
initial values, scopes, tags, linkage, functions.  Each crosses the types and the edge values of its
subject.  The preprocessor's: macros that name each other, arguments (with `#`, `##`, and calls
within calls), rows, groups, nesting, inclusion, conditions, `defined`, lines, errors.

Deadlock is checked in every run but `compiler` and `frontend`, whose subjects stop: a machine that
has halted, a file that has been read.  Elsewhere what has ended stutters through an action of its own.

## Fairness

`Simulator` assumes weak fairness of the main thread's steps and of the worker's steps: the
operating system schedules both.  Typing, signals and the end of input are owed to nobody, and
a pthread mutex is not fair: the worker may release it and take it again before the guest wakes up.
It can do so for ever while bytes arrive without a pause, as from a pipe, and after the end of input,
when `read` returns at once.  Hence `ReadReturns` excepts the runs in which the worker takes the mutex
infinitely often: if it does not, every read of the guest gets it.  Without the exception the property is
violated, before the end of input as well as after it.  `HaltEndsProcess` needs no fairness of the worker: it may be blocked in `read` for ever.

`Runtime` and `Compiler` are single processes in a loop: their one assumption, weak fairness of the
whole next-state relation, is that a program that is run goes on.  It is spelled out (`Cycles`, `Goes`:
infinitely often a step, or infinitely often none is possible) because evaluating ENABLED of all handlers is
slow.  `CallReturns` and `Terminates` then say that no loop of the library or of the generated code
runs for ever.  The other modules have no liveness properties.

## Proofs

| Theorem | Statement | Argument |
|---|---|---|
| `TypeCorrect` | `Spec => []TypeOK` | inductive; the cases that matter are push and pop |
| `BufferAccessExclusive` | `Spec => []MutualExclusion` | inductive together with the type |
| `BufferIndicesAgree` | `Spec => []CbIndicesAgree` | lemmas on `cb_push` and `cb_pop`: index arithmetic modulo the capacity |
| `TerminalIsRestored` | `Spec => []TerminalRestored` | strengthened by: before the ROM is loaded no cycle has been counted |
| `ImplementsChannel` | `Spec => ChannelSpec` | a push is a `Put`, a pop a `Get` or `GetNothing`, all else stutters; rests on the index invariant |
| `BufferHoldsNewestInput` | `Spec => []BufferIsNewestInput` | strengthened by the byte the worker holds between `read` and push, which is the next one of the input |
| `SubtractionDecidesOrders` | `Orders` after a subtraction, for all operands | the flags in terms of the operands, then each condition |
| `CarryChains` | `WideArithmetic` for all words and flags | the sum of the halves with the carry between them |
| `MachineTypeCorrect` | `Spec => []TypeOK` of `Cpu` | one lemma per primitive, then one per handler |
| `ComparisonsDecideOrder` | `Spec => ComparisonsOrder` | the type invariant and `SubtractionDecidesOrders`, for `cmp` and `cmps2` |
| `WordsAreRestored` | `Spec => []WordsRestored` | each handler is put together from its primitives on any well-formed machine, with the two bytes in RAM; two's complement of the offsets |
| `ProgramsRunOnMachine` | `MachineSpec => []TypeOK /\ [][Next]_m` | a program's code is bytes, so the machine it is loaded into is well formed |
| `DecoderTakesWhatIsEmitted` | `MachineSpec => [][OperandsTaken]_m` | the operand bytes each handler takes, against `expect_arg`, opcode by opcode |
| `ProgramsStayInSync` | `MachineSpec /\ [][Conventional]_vars => []InSync` | `RunsInSync` below |
| `CallsReturnHome` | `MachineSpec /\ [][Conventional]_vars /\ [][KeepsReturns]_vars => ReturnsHome` | `ReturnsSaved` below, together with `RunsInSync` |
| `OwnTestPasses` | the generator's self test, for all operands, carries and operations | each operation of a chip in arithmetic, then the chain of two |
| `SimulatorComputesAsChips` | `Spec => ComputesAsChips` | the chain against `aluop`, for the flags of a well-formed machine |
| `LinkerTypeCorrect` | `Spec => []TypeOK` of `Linker` | inductive; the number of names is finite, the searches stay among the sections |
| `RecursionIsBounded` | `Spec => []RecursionBounded` | part of the marking invariant: only unmarked sections are entered |
| `NeedsAreMet` | `Spec => []NeedsMet` | the marking invariant below |
| `NothingUnneededKept` | `Spec => []OnlyNeeded` | what is entered is a candidate for a need of a section that is marked |
| `LinkerKeepsPromise` | `Spec => ImageSpec`: `Linker` implements `LinkedImage` | the walks below; the last step of the writing is the one step of `LinkedImage`, every other stutters |
| `LinkingFindsAgain` | `Spec => LinkingNeverFails` | from `NeedsMet`: a need that is met has a candidate, and of finitely many candidates one is first in the order of search |
| `TypesKept` | the sections, labels, uses and counters of `Assembler` keep their types | one lemma per action |
| `SectionsFoundAgain` | `Spec => []OneSectionPerName` | a section is made only when the search by the whole name found none |
| `AcceptedSourcesAreExact` | `Spec => []AcceptedIsExact` | what the counter says is missing is the gap at the end of the section, modulo 256 |
| `UsesAreResolved` | `Spec => []UsesResolve` | every use keeps its place, its bytes and the entry it was given; ids are given in turn |
| `WrittenFilesFit` | `Spec => []FitForLinker` | the invariant of `UsesAreResolved`, part by part against `ObjectFiles` |
| `FilesReadBack` | `Spec => []ReadBack` | a word from its two bytes, a section between what stands before and behind it, then section by section through the file |
| `ImagesAreMicrocode` | `Spec => []ImageIsMicrocode` of `Microcode` | `MicrocodeInv` below, one part per phase of the compiler |

`NeedsMet` alone is not inductive: while the recursion runs, most needs are still open.  The
invariant `Marking` of `LinkerProofs` says that every label a marked section lacks is met by a
marked section or still ahead in a frame of that section (`MetOrOpen`), and that a section has at
most one frame.  A call of `require_label` opens all labels of the section it enters and closes the
one it was made for; a return closes nothing, because its frame has passed all labels.

The bytes a handler takes are counted the way the handler is built: each primitive of `Cpu` is shown to leave
`p` and the section alone (`Stays`), or to take a number of bytes (`Takes`); `Imm` is the only one that
takes any.  `StepExecutes` puts this together for every action of the opcode table as the table
`Operands`, and `MnemonicCoded` compares it with what `gen_instruction` and `expect_arg` give for the mnemonic
of that opcode.  `DecoderTakesWhatIsEmitted` is this comparison along a step, for every image.

For `InSync` the invariant also has to say what lies in memory.  `RunsInSync` says that the ROM holds
the code of the program, and that the processor is between two instructions with no section
selected, or behind the prefix byte of one with that section selected.  `ProgramLaidOut` says where in the code each
instruction lies.  A program can leave this state: it may write over its code, run off its end or
jump into an instruction, and nothing in the simulator or the assembler prevents that.  So the
theorem assumes `Conventional` of each step: the ROM keeps its contents, there is an instruction
after the one that runs, and a transfer of control leads to an instruction of the program.  It does not
mention the decoder: that the instructions in between, with their operands and prefixes, are
decoded as they were assembled is what is proved.  The programs of the `cpu` run satisfy it and
use it in full: calls, returns, taken and passed jumps, and instructions of all three tables.

A call comes home if its return address is still where the call pushed it.  `ReturnsSaved` says so of
every call in progress: the two bytes at and below the caller's stack pointer are the halves of the address of
the instruction after the call.  That this instruction, found in the text, is also where `p` stands
when `call` or `calls` pushes it rests on `RunsInSync`.  A program can lose a return address, too, and nothing in the
machine forbids it, so the theorem assumes `KeepsReturns` of each step: no store hits the return
address of a call in progress, a `ret` finds the stack pointer where its call left it, and calls are
made with the stack in RAM.  So the caller's stack pointer comes back by assumption; what is proved
is that the address popped is the right one, with the halves in the right order, through any
nesting and whatever is typed meanwhile.  The programs of the `cpu` run keep these conventions in every step.

`ImageSpec` asks for an invariant of each of the four walks (`ImageInv`): what has been passed is
exactly what comes before the present section in the order of the lists; the starts given, and
later the places written, form a chain in which each is the end of the one before; labels have been
moved by the start of their section in the sections passed and in no other, and a word patched is the
place of its label.  The order of a list is that of the files, so all four walks meet the sections
in the same order, and the start the linker computed is the place the bytes get, modulo 64 KiB.

The steps of the assembler are put into a few kinds by what they do to the counter, the items and the
labels: nothing (`Quiet`), an item begins (`Begun`), an operand is taken (`Counted`), another section
is selected (`Selected`), a label gets its entry (`LabelPut`) or is used (`UsePut`).  Each action is shown to be
of one kind once (`StepKinds`), and each invariant is then shown for the kinds.  `ExactInv` says that
all items but the last of the current section are closed (`ItemsClosed`), that the other sections are
closed (`OthersClosed`), and that the current one owes what the counter says (`CurrentOwes`); surplus
literals make the counter negative and never bring it back before it has wrapped.  `UsesInv` says
that uses stay where they were put and find their entry (`MasksInv`), that the entry is the one meant
(`MeantInv`), that no section has two entries of a name (`NamesOnce`), and that the ids are 0, 1, ... in the
order in which labels were met (`IdsInv`).  The sum after a label is defined by a recursive
function; that it is the sum that was written follows by looking at the first term, if any, at which two
sums differ (`LeastNatural`).

`Serialized` puts the sections one behind the other with `FlattenSeq`.  `PiecesLie` says that every piece
then stands between what is ahead of it and what comes after, `SectionReadBack` that a section so placed is read
back and the reader ends up at the next one; `FileReadBack` follows by looking at the first section, if
any, that is not read where it should be.

The meaning of a microcode source is stated on the lines of the source, the compiler works on tables
and walks them one after the other.  While a source is read, `TablesRead` says that each table holds, for
each name defined in a line so far, what the last such line gives it, and `LinesRead` that the
lines of microcode are the lines of the code section in their `order`, each with the signals its
words stand for at that line.  `DashesInv` splits them at the row of `process_dashes`: before it every dash
has the character of the nearest line above that has none there (`Resolved`), from it on the lines are as they were
written.  `CompileInv` says that the rows compiled cover addresses of their own, that `visited_mask` is exactly
these, and that the image has at each address the bits that the line covering it gives (`Lit`).  Between the two
stand lemmas on numbers: the addresses of a mask are those whose binary digits it covers
(`str_to_bin` against halving), and the word of a line does not depend on the order of its signals, as no bit is
active high under one name and low under another.  Every step that refuses, or is undefined, is
shown to do so on a source without meaning (`GivesUp`).

The theorems hold for every value of the constants allowed by `CbAssumption`, `RememberedAssumption` of `Simulator`, `CpuAssumption`,
`ProgramAssumption` of `CpuProgram` (a program is instructions with the operand bytes they need, and fits into
the ROM), `InputAssumption`, `ByteAssumption` of `ObjectFormat`, and `SourceAssumption`, `SizeAssumption` and
`SectionAssumption` of `Assembler`, and `WordAssumption` of `Microcode` (a line has a word, a word a character, numbers are 0 to 63): any number
of files, sections and labels, any source.  The sets of images, of bytes that may be typed and of
uninitialised words are constants, so `MachineTypeCorrect`, `ComparisonsDecideOrder`, `WordsAreRestored` and
`SimulatorComputesAsChips` speak of every program.

Model-checked only:
* The liveness properties `HaltEndsProcess`, `ReadReturns`, `CallReturns` and `Terminates`: fairness is out of
  the prover's reach.
* `Runtime`: its properties speak of one text of some hundred instructions, run from start to end, and its
  reference for C uses the module `Bitwise`, from which nothing can be proved.
* All of lcc: most of its modules hold RECURSIVE operators.

## Findings

* The two- and four-byte orders (`lcc/src/cpu4_impl.c:957` and its siblings) let the low bytes decide also
  when the high bytes differ, against the repository's sort test (`lcc/tst/sort.c:27`).  Run `orders`.
* `op_jmps` (`sim/sim.c:706`) has no table entry for the unconditional jump that the assembler
  encodes as 0 (`binutils/asm.c:210`) and that the compiler emits for computed jumps
  (`lcc/src/cpu4_impl.c:713`).  Run `jmps`.
* ALU operation 5 (`sim/sim.c:366`) is a post-increment, so `alu inc` changes nothing; the ALU
  table generator has `A + 1` (`alu/generate_alu_table.cpp:92`).  Run `alu_inc`.

## Known defects the models keep

What follows was met while modelling.  Unless a property says so, the models have it as the code
has it, and the inputs of the passing runs stay away from it.

Code generator and runtime:
* `CVU` and `CVI` extend by the sign of the type converted to (`cpu4_impl.c:483-500`, against `lcc/tst/cq.c:1057-1059`).
* A signed right shift is logical; the one-byte shift uses whatever carry there is.
* `MODI2` and `MODI4` give the remainder the quotient's sign (`RemainderSignLost`).
* A result kept in a slot is overwritten by the evaluation of a later call's arguments, as in `f(a) + g(b + 1)`.
* `intr_fn` loads its first operand for the second when that one is in a slot; `shl4` and `shr4` shift a shared
  operand in place; `alu_unary4` gives up unless its slot is its operand's.
* Slots of shared nodes are never freed; offsets of high bytes are not checked by `off_fail`; a
  function that returns a char reads its arguments one byte off; `asgn_op` relies on a static buffer.
* `crt0.s` reserves no room for the result of `main`.
* `defstring` (`cpu4.c:90-133`) writes other control characters as decimal numbers after a backslash, which the assembler
  does not know (`binutils/token.c:52-66`).

Front end:
* A difference of pointers is extended to long without its sign (`enode.c:512-520`); `unsigned short` with
  `int` gives `int`; `sizeof` is `unsigned long`.
* A parameter with the name of its function leaves that function imported and defined.
* `1 << 15` and products beyond 31 bits overflow the host's integers.

Preprocessor:
* A name of a macro with parameters that ends an argument, a condition or the file makes `gatherargs`
  loop for ever (`macro.c:245`); at the end of a line in front of a directive it swallows the directive.
* Operators of equal priority in `#if` associate to the right; `a ? b ? c : d : e` is an error; `?:` takes the type of the
  operand chosen; a comma and an open parenthesis only warn.
* `#elif` is evaluated though a group was taken, and in an included file may continue a group of the including one; `#error` only warns; `# <number>` is obeyed in a skipped group.
* `#x` loses the space that stood in front of what a macro put there, and a line's end in an argument.
* A `#` without parameter or a `##` at the border is reported only on expansion; `substargs` looks one token past the row;
  white space in a list of parameters counts when a definition is repeated.
* A file without a final newline merges with the next line marker.

Simulator:
* `print_state` (`sim/sim.c:1001`) looks behind `ops_text` when the section is 4 to 15.
* A ROM that cannot be opened is read all the same (`sim/sim.c:1091`), and `terminate` divides by zero before the first
  cycle is counted (`:1066`); both leave the terminal raw.
* The worker may starve a guest that reads the UART (`:129`, `:144`), and pushes stale bytes after the end of input (`:128`).
* A typed 0 looks like an empty queue to the guest (`:143`).

Assembler:
* Sums with a `+` after a `-` lose a term (`binutils/labels.c:109`); `UsesResolve` excepts them.
* A name of a section longer than 31 characters is kept cut and never found again, so each use makes another section
  (`binutils/asm.c:41`, `:61`); `OneSectionPerName` excepts it.

Elsewhere: 911 labels wrap the assembler's 16-bit sizes and 65 536 its ids; 256 surplus literals go
unnoticed (`binutils/asm.c:82`); `.org` and `.skip` are not checked against the size of a section;
more than 255 files or names wrap the linker's counters;
`//` comments skip the newline without counting it (`lcc/src/lex.c:255-265`).

## Not modelled

Text the programs print, timing (`usleep`, the time statistics), the terminal's flags beyond
raw and original, `argv` and file errors (but for a ROM that cannot be opened).  Signals without a handler
(`SIGHUP`, `SIGPIPE`, `SIGKILL` and the like), which end the simulator as they end any process, with the terminal as it was.  In the linker: more than 255 files or names of
sections, and `fl_remove_unused_sections` = 0, which nothing sets.  In the simulator process the memory `malloc` returns is
assumed to be there.  A signal that interrupts `printf` or `exit` is taken as harmless.

In the assembler and the microcode compiler: how a line is cut into words.  In the preprocessor: trigraphs,
wide literals, two points in a row, `__DATE__` and `__TIME__`, include directories, `-M`, the limits of buffers.
In the front end: floating point, long long, const and volatile, bit fields, identifier lists,
structures returned by functions or chosen by `?:`, and the paths on which the source is
illegal.  Between front end and code generator: goto, the jump table of a dense switch, assignment of
structures, profiling and debug events.

Not modelled at all: lcc's scanner, its other targets, the generator lburg, the tests of lcc 4.2, `lcc/src/cpu4_1.c` (an older back end that is not built), the driver (a table of command lines), and the
guest programs of `progs/`.

## Plan

1. `CircularBuffer`, `UartChannel`, `Simulator` and its proofs: done.
2. `Alu`, `Cpu`, `Encoding`, `CpuProgram`, `AluTable` and their proofs: done.
3. `ObjectFiles`, `LinkedImage`, `Linker` and its proofs: done.
4. `Assembler`, `ObjectFormat`, `Microcode`: done.
5. `Runtime`, the compiler from preprocessor to text, run on `Cpu`: done, but for what is listed above.
6. Proofs about the assembler, the linker's image, words in the stack and frame, the contents of the
   buffer, the object file read back: done.
7. Proofs about the decoder: it takes what the assembler emits, for every program: done.
8. Proofs about returns under the conventions of calls, and about the microcode compiler: done.
9. Open: the scanner, between `Preprocessor` and `FrontEnd`; structures in the code generator.
