# Verification of the Frost32 processor

Frost32 is a four-stage pipelined 32-bit processor in SystemVerilog
(`src/hdl/src`), with an assembler and a disassembler in C++
(`src/assembler_disassembler`). This directory models the processor cycle by
cycle in TLA+, model-checks that it implements its instruction set, and proves
that it does, and the invariants its stages rely on, for every word width, memory
and program. It also models the tools line by line, in a row: a file is assembled,
the output is disassembled, and the listing is assembled again. It checks, and
proves for every file that keeps to two rules, where the assembler puts what,
which sources it refuses, and that processor and debug display read in the
output what the source says; and it checks that the listing assembles to the
same output.

## 1. The system

### Components, state, operations

| component | source (`hdl/src/`) | state | operations |
|---|---|---|---|
| pipeline | `frost32_cpu_module` | `pc`, stall counter and state, the instructions in decode and execute, forwarding registers, write port, commands to the units, the bus, `ireta`, `idsta`, `ie`, latched signed comparisons | four always blocks (fetch, decode, execute, write back), all on the same clock edge |
| decoder | `instr_decoder_module` | none | fields of a word to control signals |
| register file | `register_file_module` | 16 registers, three read-data registers | write, three synchronous reads with bypass |
| main memory | `main_mem_module` | RAM, read-data register | one access per edge |
| ALU | `alu_module` | none | sixteen operations |
| multiplier | `arithlog_modules`, `Multiplier32` | operands, three partial products, handshake | accept, partial products, sum |
| divider | `arithlog_modules`, `NonRestoringDivider` | remainder and divisor, quotient digits, counters, handshake | accept, take magnitudes, iterate, correct, finish |
| test bench | `test_bench`, `clock_generator_modules` | interrupt pin | a random interrupt |
| debug decoder | `debug_instr_decoder.header` | none | a decoded instruction to its text in the simulation |
| assembler (`assembler_disassembler/src/`) | `assembler_class`, `main`, `AssemblerGrammar.g4` | option `-a` or `-b`, parse tree, pass, program counter, current scope, stack of child numbers, output | parse, two passes over the tree |
| symbol table | `scoped_table_base_class`, `symbol_table_classes` | tree of scopes with the symbols of each | make a scope, find, find or insert |
| encoding tables | `encoding_stuff_class` | none | name to opcode, opcode to name |
| disassembler | `disassembler_class`, `DisassemblerGrammar.g4` | line, listing | a line of addresses or digits to a line of a source |

### How they interact

The stages share registers and have no handshake with one another. The fetch
stage owns the memory bus and `pc`; it also makes the accesses of loads and
stores and decides branches, jumps and calls. The decode stage owns the stall
counter and the stall state, responds to interrupts and writes `ireta`, `idsta`
and `ie`. The execute stage takes its operands from the last two results or
from the register file, which was read with the register numbers of the decode
stage a cycle earlier. The write-back stage puts the last result on the register
file's write port, a cycle after it was computed. The multiplier and the divider
have `can_accept_cmd` and `data_ready`, and the processor looks at neither: it
stalls for a fixed number of cycles.

The assembler visits the syntax tree twice. The first pass makes the scopes and
binds each label to the program counter it finds; names in expressions are 0. The
second one goes through the same scopes, by counting the children of each, and
writes the output: data, and an `@` line where the program counter has jumped.
The output is text for `$readmemh`, with two digits (`-a`) or up to a constant's
digits (`-b`) to a line; main memory is loaded from it, and the disassembler
reads it. Opcodes and fields are written down three times: in the tables of the
tools, in the packed structs and enumerations of the decoder, and in the debug
decoder.

### What is hard

Everything is a matter of one cycle. The stall counters stand for the time
branches, memory and units take; a result is found on one of three paths
depending on how far apart two instructions are; a store may hit the word that
has just been fetched; an interrupt may come at any edge, in front of an
instruction that stalls, or while the special registers change. The divider has
a data race between two always blocks. In the assembler the first pass decides
all addresses without knowing the value of any name, and everything the second
pass does depends on being where the first one was. `PROJECT.json` lists each hazard with its
line and the properties that watch it.

### What makes each component correct

- pipeline: the architectural state changes as if instructions were executed one
  at a time (`ImplementsIsa`); for that, the fetched word is current
  (`FetchCoherence`), operands are the newest (`OperandsAreNewest`), memory is
  written by stores only (`MemWrittenOnlyByStores`), the units are ready in time
  (`MultiplierInTime`, `DividerInTime`), stalls end (`StallsEnd`);
- multiplier and divider: each accepted command is answered, by its own result
  (`MultiplierAnswers`, `DividerAnswers`);
- register file, memory, decoder and ALU: what they do for the pipeline is part
  of the properties above;
- assembler and symbol table: every line's bytes are at the line's address and a
  name stands for its innermost label, above or below (`OutputIsTheAssembly`);
  for that, both passes are in the same scope in the same line
  (`ScopesReplayed`) and give a label the same address
  (`LabelsKeepTheirAddress`); a source that has an error is rejected, and no other
  one but for the instructions that cannot be written (`RejectsExactly`);
- encoding tables, decoder and debug decoder: the processor reads from memory
  what the programmer wrote (`CpuReadsWhatWasWritten`), and the simulation shows
  it (`DebugShowsWhatWasWritten`);
- disassembler: its listing assembles to the same bytes at the same addresses
  (`ListingReassembles`).

## 2. The modules

| module | contents |
|---|---|
| `Frost32Word` | words, half words, bytes, sign extension; parameters `Width`, `Byte`, `Imm12Mod` |
| `InstrDecoder` | opcodes, conditions, `Decode`; parameters `Reg`, `Code` |
| `RegisterFile`, `MainMem`, `Multiplier32`, `NonRestoringDivider` | one component each: variables, initial state, step |
| `Frost32Alu` | the ALU as an operator |
| `Frost32Cpu` | the processor with all its units: `Cycle(interrupt)` is one clock edge |
| `Frost32CpuProperties` | what the stages rely on from one another |
| `Frost32Isa` | the abstract specification: one action per kind of instruction |
| `Frost32CpuRefinement` | the mapping from the pipeline to `Frost32Isa` |
| `Frost32CpuDocs` | statements of comments and documents that the code does not fulfil |
| `CommandUnit` | the abstract specification of an arithmetic unit |
| `MultiplierBench`, `DividerBench` | a unit by itself with an arbitrary user, and its mapping to `CommandUnit` |
| `EncodingStuff` | opcode tables, encoders, pseudo instructions |
| `AssemblerGrammar` | lines, expressions, spelling of names, what the parser and the visitors refuse |
| `Vmem` | the text between the tools and memory, and `$readmemh` |
| `ScopedTable` | the tree of scopes as operators |
| `Assembler` | parse and two passes: one action per kind of line |
| `Disassembler` | one action per kind of line of its input |
| `DebugDecoder` | the fields of a word as `InstrDecoder` reads them, and the text the simulation shows |
| `AssemblerProperties` | the layout and the meaning of names, stated on the source, and the properties |
| `Toolchain` | `Assembler`, `Disassembler` and `Assembler` again, one after the other; comparison with the processor's and the debug decoder's reading |
| `MCFrost32`, `MCRefinement`, `MCMultiplier`, `MCDivider`, `MCAssembler`, `MCToolchain` | constants for the runs |
| `Frost32WordProofs` | lemmas about remainders, quotients, words and the multiplier's partial products |
| `Frost32CpuProofs` | theorems about the pipeline, and about multiplier and divider in it |
| `Frost32CpuRefinementProofs` | the pipeline implements the instruction set |
| `MultiplierBenchProofs` | the multiplier as a `CommandUnit` |
| `NonRestoringDividerProofs`, `DividerBenchProofs` | the divider by itself, and as a `CommandUnit` |
| `AssemblerProofs` | the scopes, labels and addresses in the assembler's two passes, the meaning of names, and what the output says when it is read back |
| `EncodingProofs` | the encoding as assembler, processor, debug decoder and disassembler know it; what the assembler makes of a source, which sources it refuses, and what processor and debug decoder read in the output |

### From the code to the model

- A step is a rising clock edge. Each always block is a conjunct of
  `Frost32Cpu!Cycle`, and each branch of it a named action: `FetchMemAccess`,
  `FetchAfterStall`, ... for 1477-1912, `DecodeInStall`, `DecodeStalls`, ... for
  1915-2209, `ExecuteStage` for 2238-2551, `WriteBackStage` for 2555-2567.
  Non-blocking assignments are primed variables; wires are operators.
- `mde` is `__multi_stage_data_execute`, `fwd0` and `fwd1` the pairs
  `prev_written_reg_index_n`, `n_reg_data_n`; `pc_val` is the only part of
  `__multi_stage_data_instr_decode` that is a register; `special` is the copy of
  `ireta` and `idsta` that travels with an instruction; `cond` the latched
  signed comparisons.
- The execute stage acts in every cycle of a stall, not once per instruction.
  `ExecuteResult` therefore depends on the stall counter exactly where the code
  does (multiply, divide, loads) and is repeated elsewhere (calls).
- A memory word is a number; `Code` gives the bit fields of a word read as an
  instruction. Data and instructions are the same words, so a program can write
  itself.
- The stall counter has six bits, or five under `OPT_FAST_DIV`, and a length is
  cut to them (`CutToCounter`). That the longest stall fits is an assumption
  (`StallCounterAssumption`): 39 in 64, 23 in 32 and 15 in 32 or 64 for the three
  builds of a processor of 32 bits.
- The interrupt pin is any value at any edge. `in.wait_for_mem` is the constant
  0, as in `main_mem_module.src.sv:380`.
- Registers without an initial value: the multiplier's data registers start with
  any word of `PowerUp`. The register file's and the multiplier's command
  inputs are not initialised either; an unknown enable counts as "no" in
  simulation and flip-flops power up low in the FPGA the project is built for, so
  the model starts them at 0. The divider's registers are two-state (`bit`)
  variables, which start at 0.
- The divider's first always block uses blocking assignments, and the second one
  reads the same variables. `blocking_first` is the order of the two; both orders
  are initial states, in the processor's runs too.
- `file` is what the assembler is given, `source` the part of it that the parser
  keeps; `Parse` is the constructor. A file is the sequence of its lines in the
  order the visitor meets them. The braces of a `scopedLines` are lines:
  `EnterScope` is `visitScopedLines` up to its inner lines, `LeaveScope` the rest.
  A `stray` line is one whose first token starts no line. `program` is `line*`
  without the end of the file (`AssemblerGrammar.g4:4-6`), so the first stray
  line or surplus `}` outside a scope ends the source without an error, and what
  follows is ignored; in a scope, both a stray line and a missing `}` are errors.
- An expression is the sequence of its operands and operators in the order in
  which `__num_stack` is pushed and popped.
- A node of the symbol table is its number in `__node_pool`. Symbols are found
  and changed through pointers in the code; here the node and the name say which
  symbol it is.
- `status` is "error" where the code calls `err` and exits, and "crashed" where
  a signal (`%` by 0) or an uncaught exception (`at()` of a table) ends it.
- `vmem`, `out` and the disassembler's input are lines of `Vmem`: an `@` with its
  digits, or groups of digits that spaces divide. Digits are counted as the code
  prints them: two for a byte, none in front of an address, so that an `@` below
  0x10 has one digit, of which the disassembler's lexer makes no token.
- The text of an instruction is its name, the kinds of its operands, register
  numbers and the value of its expression. Names are those of the tables;
  `Spelled` says where the grammar's token has another spelling.
- Numbers are those of 32 bits, which the output shows; TLC's numbers are as wide.
  A logical shift to the right takes a negative number for one of 64 bits without
  sign (`ShiftedRight`, `assembler_class.cpp:1470-1477`); run `toolchain` has one
  whose result fits.
  No source moves the program counter below 0.

## 3. What is checked

### The processor

All runs of the processor use words of 8 bits (`Byte = 4`: half words have 4
bits), 16 words of memory, and four registers (zero, two general ones, lr). A word is an index into a pool of 50
instructions (`MCFrost32!Pool`). `ImplementsIsa` uses the mapping in
`Frost32CpuRefinement`: at an edge outside a stall the architectural state is
read off the pipeline, counting the result that is still on its way; during a
stall the history variable `arch` keeps the one of the last such edge.

| run | programs | properties |
|---|---|---|
| `isa` | two set-up instructions, then all sequences of three out of 14 instructions that compute, load and store over two registers; the same with 16 instructions that compute, branch, jump and call, signed and unsigned; a handler and all pairs out of 12 instructions that stall or use the interrupt registers, interrupts at any edge | `ImplementsIsa` |
| `pipeline` | every instruction of the pool before each of six that use its result, interrupts at any edge, two power-up values | `TypeOK`, `FetchCoherence`, `OperandsAreNewest`, `MultiplierInTime`, `DividerInTime`, `MemWrittenOnlyByStores`, `StallsEnd` |
| `divider` | words of 4 bits, eight operands with the extremes of both signs, signed and unsigned, commands at any time, both orders of the always blocks, builds with one, two and four iterations per cycle | `DividerAnswers` |
| `multiplier` | words of 4 bits, all operands, commands at any time, two power-up values | `MultiplierAnswers` |
| `muli`, `signed_call`, `call_lr` | one program each | violated: section 5 |

**Why the bounds are enough.** A result travels through two forwarding registers
and the bypass: an instruction affects another one as "not yet in the register
file" at most three instructions later, so sequences of three after a
set-up contain every distance. Sequences loop when they branch back or return,
so longer runs occur as well. A stall is at most 11 cycles at this width and
one instruction is in it at a time. Eight-bit words keep the ratio of byte, half
word and word, on which `cpyhi`, the sign extensions and the multiplier depend.
The divider's time is `Width / IterationsPerCycle` iterations plus a constant,
in the model and in the code; the run has the three numbers of iterations the
build's options choose from, and the processor's runs the source's two.

**What the runs leave out.** `isa` replaces three kinds of instruction (`muli`,
signed conditional calls, calls that take an operand from `lr`) by a reserved
word, because the code does not do what the documents say for them; `pipeline`
includes them.

**Fairness.** `StallsEnd` assumes `WF_vars(Next)`: the clock never stops. Every
always block runs at every edge, so nothing else is needed. The units' benches
assume the same of their clock; `CommandUnit` then asks that every accepted
command be answered.

### The assembler and the tools

| run | inputs | properties |
|---|---|---|
| `toolchain` | files (below) for the assembler, whose output goes through the disassembler to the assembler again, and hand-written text of up to three lines for the disassembler; `-a` and `-b` | `OutputIsTheAssembly`, `RejectsExactly`, `ScopesReplayed`, `LabelsKeepTheirAddress`, `CpuReadsWhatWasWritten`, `DebugShowsWhatWasWritten`, `ListingReassembles` |
| `shadow`, `org`, `nor`, `readmemh` | the sources or instructions in question | violated: section 5 |

The files of `toolchain` are all of these:

- well-nested files of up to seven lines of `{`, `}`, `a:` and `.db a`;
- well-nested files of up to four lines of eleven kinds, with branches, `jmpa`,
  `.org`, `.space`, `.db8`, `.db16`, a division by a name and uses of the program
  counter;
- files of up to four lines of eight kinds in any order, well nested or not, with
  stray lines and instructions that cannot be written;
- every binary operator with a number or the program counter on its left and, on
  its right, a number, 0, a label below, and each unary operator; a logical shift
  of a negative number;
- a constant that fails and one after it that does not, a `.org` whose quotient by
  0 counts as 0 and a remainder behind it that this makes fail, an instruction
  with operands that it does not have;
- every instruction and pseudo instruction, with four choices of registers and
  immediates at the ends of their fields, at 0 and at 4096;
- data words that look like an instruction, or like none.

**Why the bounds are enough.** Seven lines hold three scopes, nested or beside
one another, or two with a label or a use in front of, in and behind them: every
way in which a child can be counted wrongly or a name be found in the wrong
scope. The program counter's history is one pair of numbers, so two lines that
move it around two that generate data show every order. The encoders treat each
register number and each field alike; values at the ends of a field show one that
is shifted or cut. The disassembler looks at one line at a time and at its number
of digits; the assembler's counter and the loader's address are what a line
leaves to the next.

**What the runs leave out.** The files have no label under one of the same name
above it in an enclosing scope, and no name in `.org` or `.space`: there the code
does not do what is said of it (`shadow`, `org`). No shift is by a negative
amount, which C++ leaves undefined. `CpuReadsWhatWasWritten` and
`DebugShowsWhatWasWritten` ask nothing of a file in which a `.org` puts one line
on top of another. `ListingReassembles` is about texts whose lines read back: not
an `@` below 0x10; not a branch, whose listing shows the word's immediate
(`disassembler_class.cpp:173-178`) where the assembler expects the target and
takes the offset itself (`assembler_class.cpp:1916`); not group 6, `nor`,
`nori`, `sgtu` and `sgts` (section 5); not words whose unused bits are set, which
no listing shows. Deadlock is not checked, because the tools stop when they are
done.

## 4. What is proved

TLAPS checks nineteen theorems. Eight are of the processor, for every `Width`,
`Byte`, register set, instruction coding, memory size, program, ALU and power-up
value that satisfies the assumptions named in the modules (`Width` is up to 49, so
that a division's stall fits its counter in each build); two are of a unit by
itself; nine are of the tools, for every file or for every instruction and word.

- `PipelineImplementsIsa` (`RSpec /\ []Conforms => ImplementsIsa`): the
  refinement. `Conforms` says that the instruction in the execute stage is none
  of the three kinds that section 5 shows to do something else: `muli`, a call
  with a signed condition, a call that reads `lr`. Nothing is assumed of data, of
  reserved words, of programs that write themselves or of interrupts.
  `ConformingProgramsImplementIsa` needs no hypothesis about the behaviour: if no
  word codes one of those, every program is executed as the instruction set says
  (the coding of run `isa` is like that).

- `TypeCorrect` (`Spec => []TypeOK`). `TypeOK` is inductive. The wires get their
  types first (`Decode`, `Forward`, branch destinations, results), then there is
  one lemma per stage and one per unit. The arithmetic on words is in
  `Frost32WordProofs`.
- `FetchesCoherently` (`Spec => []FetchCoherence`). Uses the types of the bus and
  of the stall state. The invariant is inductive because it includes the last
  cycle of a stall: there the request for the next word is out, it is not a write,
  and the refill follows.
- `OperandsCorrect` (`Spec => []OperandsAreNewest`). The invariant is not
  inductive by itself. `OperandInv` adds three facts: the write port carries the
  second-to-last result (`ForwardingAgrees`); during a stall the decoder sees
  the word the execute stage keeps (`StallKeepsInstr`), so a stalled
  instruction's registers are read again in every cycle; and the data last read
  for each register is the register file's, or the value it had before a write
  that is still in the forwarding registers (`ReadAgrees`).
- `StoresOnly` (`Spec => MemWrittenOnlyByStores`), from `OperandInv`, because the
  store's operands must still be the same in the cycle after the request, and
  from the fact that a write on the bus was put there by the store in the
  execute stage (`WriteIsFromStore`).
- `ProductsInTime` (`Spec => []MultiplierInTime`). The strengthening is a
  timetable: for each value of the stall counter, the state of the multiplier
  and the contents of its partial products. The product is right because
  `x1*y1*Half*Half` is a multiple of the word modulus (`LowWordOfProduct`).
- `QuotientsInTime` (`Spec => []DividerInTime`). The arithmetic comes first, in
  `NonRestoringDividerProofs`. With `u` = 2 to the power of how many digits
  there are so far, and `h` the number they make (1 for a digit 1, 0 for a digit
  -1), the loop keeps (`Partial`) that the remainder is `p = u*num - D*(2*h - u
  + 1)` with `-D <= p < D`, where `D` is the shifted denominator. That a new
  digit has a bit of its own in the quotient needs `2 ^ (k + 1) = 2 * 2 ^ k`,
  which is obtained without induction: `2 ^ k` counts the subsets of a set of
  `k` elements (`FiniteSetTheorems`). Then the phases of a division (`Accepted`,
  `Sized`, `Iterating`, `Iterated`, `SignsPutBack`, `Ready`) follow one another
  in both orders of the always blocks, and `Frost32CpuProofs` ties each phase to a
  value of the stall counter, as for the multiplier. The order in which the
  second block reads old values takes one cycle more, and the stall has room for
  it. `IterationsAssumption` keeps the eight-bit counters below their sign bits:
  with 128 bits and one iteration per cycle, the second order loads a command
  twice.
- `MultiplierImplementsUnit` (`BSpec => Unit!SafeSpec`): a refinement. Alone,
  with a user that gives any command at any edge, the multiplier takes a command
  only when idle, and each of its answers is the low word of the product of the
  last command taken. The invariant says that a busy multiplier holds the
  operands of the last command, or their partial products.
- `DividerImplementsUnit` (`BSpec => Unit!SafeSpec`): the same for the divider,
  in each of its three builds and both orders of its always blocks. The invariant
  says that the divider waits or is in one of the phases above with the last
  accepted command; the last remainder (`LastRemainder`) is kept along with the
  quotient. The promise is stated with signed numbers and truncation towards
  zero (`Answers`), the code works with magnitudes and puts the signs back;
  `AnswersAre` shows that they agree for every pair of words, the most negative
  one included, whose magnitude only an unsigned word holds.
- `AlwaysScopesReplayed` (`ASpec => []ScopesReplayed`): whatever braces and labels
  a file has, the second pass is always in the node that the first pass made for
  the scope the line is in. All it assumes of a file is that it is a finite
  sequence (in `SourcesAssumption`). First come facts about the source alone. Behind a
  `}` the braces around a line are those around the `{` it closes (`BehindClose`);
  each place has an innermost scope (`EveryPlace`: the least place without one
  would follow a place that has one); a scope that begins inside another is not
  its sibling (`NoSibling`). What the parser keeps has no `}` too many
  (`ParsedIs`). The invariant `Replayed` then says what the code never writes
  down. The tree (`TreeOf`) has, for each scope that began before the line, the
  node of the scope around it as its parent, and as its children exactly the
  scopes directly in it, in the order of the source. The stack of the second pass
  (`StackOf`) has one number for the line and one for each brace around it: how
  many children of that scope begin before it. The child the code takes is the
  one behind those (`ChildFound`), so it is there, and it is the right one.
- `SecondPassKeepsAddresses` (`ASpec /\ [](Unshadowed /\ NamelessMoves) =>
  LabelsKeepTheirAddress`): the second pass finds each label at the address the
  first one gave it, for every file that keeps to two rules. No label comes behind
  one of its name in a scope around it (`Unshadowed`), and no `.org` or `.space`
  reads a name (`NamelessMoves`): the runs `shadow` and `org` show that either is
  needed. Nothing else is restricted: forward references, names that are bound
  nowhere and expressions that fail are included. `SourcesAssumption` says what the
  parser makes of a line: finite lists of tokens and expressions, data of one, two
  or four bytes (`IsLine`). The argument has three parts. How far a line moves the
  program counter depends on the line only, although the two passes give names
  different values (`Follows`: a word takes four bytes whatever its immediate is,
  and `ExpandSize` says that a pseudo instruction expands to the same number of
  words for every value). So two walks over the source
  through the same lines are at the same addresses (`FollowsOnce`). The lookup goes
  from a scope to the ones around it and ends, because parents have smaller
  numbers (`FindHere`, `FindNowhere`, `FindIs`); with `Unshadowed` it finds a
  label of the scope itself or nothing, when a label is bound. The invariant
  (`Kept`) is about an assignment `A` of addresses to lines that obeys `Follows`:
  in the first pass, up to the current line, the tables hold exactly the labels
  above with their addresses in `A` (`TablesAre`); in the second they hold all
  labels, and the program counter is at `A` of the current line, so
  binding a label again changes nothing.
- `InstructionsAreReadAsWritten`: an instruction of the tables, with any registers,
  any immediate and at any address, is encoded as a word in which the decoder's
  structs and enumerations find the same operation, registers and immediate, and
  which the debug display shows as the same text. It is a statement about three
  definitions of one encoding (assembler, hardware, simulation), with no behaviour
  in it. The fields are treated as arithmetic: a word is a sum of fields that do
  not overlap (`EncodedIs`), and the sum gives the fields back (`FieldsOfWord`).
  The tables are compared with the enumerations entry by entry (`Entries0` to
  `Entries6`); that an entry is in one place only (`EntryIsUnique`) makes the
  opcode that is looked up the one that is read.
- `WordsAreReadAsWritten`: the same for each word that a line of a source is
  assembled to, if the line is one that the visitors know and the tables have
  (`~Eek`, `~LookupThrows`), pseudo instructions included: they stand for
  instructions with registers and immediates of their own, each at an address of
  its own (`ExpandInSource`).
- `ListedWordsEncode`: the text the disassembler gives for a word is encoded as that
  word, wherever it is put, unless the word is a branch, of group 6, or has bits
  its listing does not show (`ShownInFull`). Together with the theorems above, the
  four tools agree on all words but those.
- `AssemblesTheSource` (`ASpec /\ [](Unshadowed /\ NamelessMoves /\ InMemory /\
  Numbered) => []OutputIsTheAssembly`): for every such file, the output, loaded
  into memory, has each line's bytes at the line's address, with the address of
  the innermost label, above or below, for each name. To the two rules of
  `SecondPassKeepsAddresses` it adds that addresses are below 2 ^ 31 (`InMemory`)
  and that expressions have numbers for values (`Numbered`: a shift by a negative
  amount, which C++ leaves undefined, has none in the model). Numbers are integers
  without a width there: of a file whose values do not fit into the 64 bits of the
  code's, the theorem says nothing of use. The proof is described below.
- `RejectsTheErroneous` (`ASpec /\ [](Unshadowed /\ NamelessMoves /\ InMemory) =>
  []RejectsExactly`): the assembler finishes with no file that has an error; it
  stops with an error only for those and for the four documented instructions of
  section 5 that it cannot take, which are no errors of a source; and it is killed
  only by what `Crashing` lists. An assembler that takes those instructions, or
  reports a remainder by 0, has the property as well.
  The files that fail are what this is about, so nothing is asked of their
  expressions. Described below.
- `CpuReadsTheSource`, `DebugShowsTheSource` (`TSpec /\ [](stage = "assembling" =>
  Unshadowed /\ NamelessMoves /\ InMemory /\ Numbered) => []...` of
  `CpuReadsWhatWasWritten` and `DebugShowsWhatWasWritten`): the whole way from a
  line of text to the decoder. If no `.org` puts one line on top of another
  (`Disjoint`), the four bytes at an instruction's address are all its own
  (`Alone`), so the word read there is the one it is encoded as (`WordRead`), and
  `WordsAreReadAsWritten` says what the decoder and the debug display find in it.
  The names in it have the values of their labels, as in `AssemblesTheSource`.

**The proof about the assembler.** `OutputIsTheAssembly` speaks of the source only:
`Layout` gives each line its address by recursion, a name means the innermost
of its labels around the line. The assembler knows neither; it has a
counter, a tree and an output. The inductive invariant ties the two together:

- `Replayed`, `Kept`: the visitor is in the right scope, and counter and tables
  agree with some addresses that obey `Follows` (the two theorems above).
- `Placed`: those addresses are `Layout`'s. `Layout` obeys `Follows` too
  (`LayoutFollows`), and from one address `Follows` leads to one next address
  only; both begin at 0. Of a line behind an instruction that the visitors do not
  know `Layout` says nothing of use, but the first pass does not get there
  (`NotPast`).
- `Known`: the instructions of the lines the visitor has gone past are known to the
  visitors and in the tables.
- `Emitted`: in the second pass, the output so far, loaded, is the bytes of the lines
  so far, each put over those above (`Tells`, `IsOver`, `Pieces`); and the
  address the loader is at is the last one the assembler has written to
  (`pc.prev`), so that an `@` line is missing exactly where none is needed.

A step then needs two things. The value of an expression is the one of the
source (`ValuesAre`): the search goes up from node to parent, and the labels it can
meet are those of the scopes around the line, the innermost first
(`FindInnermost`, `FindNothing`, `NamesMean`). And what a word or a constant prints is
read back as its bytes, with `-a` and with `-b` (`GenLoads`): digits by digits
(`HexDigitsAre`, `HexValueOfDigits` for an address, which has as many as it
needs; `ByteSaid`, `WordSaid` for data). At the end the bytes are put together in
another order than `Overlay` has them, which `OverlayIs` shows not to matter.

For `RejectsExactly` the invariant is `Replayed`, `Kept`, `Placed`, `Known` and `Judged`.
`Judged` says what the program has found right of the lines so far (`Passed`: no
crash in the first pass, no failure in the second, no label twice in its scope)
and, when it has ended, what is wrong with the source. Three facts carry it.
The first pass has no errors in expressions (`NoErrorAtFirst`). The
grammar, the three visitors and the tables, each with a list of names of its own,
let an instruction through all together exactly if it is documented, or
misspelled as the grammar has it, and none of those of section 5 (`Accepted`;
`AcceptedIsInGrammar`, `AcceptedIsVisited`, `TakenIsAccepted`,
`OnlyMisspelledThrow`, over all entries of the tables and all kinds of operands). A
symbol table that holds exactly the labels so far (`TablesAre`) finds a name
in the block level exactly if a label of it has been in this scope
(`LabelJudged`).

While these were proved, four things in the properties turned out to be said wrongly
and have been corrected. A line of data evaluates its constants at their own
addresses, not at the line's (`ExprsAt`): before, `RejectsExactly` was false for
`.db 1, 1 / .`. `Layout` evaluates a `.org` as the first pass does: before, it was
false for `.org 1 + 5 / 0` with a remainder by `. - 1` behind it. An instruction
that no table has is an error too (`Unknown`). And a source's registers and
immediates are those its kinds of operands allow (`IsLine`). The files of run
`toolchain` have these cases now.

**The proof of the refinement.** At an edge outside a stall the mapping is the
pipeline itself (`ArchIsView`), so everything hard is inside a stall, when `arch`
is the state before an instruction that is half done. The invariant (`RInv`) says
how far it has got:

- `StallFitsInstr`, `InstrIsTheInstr`: the stall is the one of the instruction in
  the execute stage, no longer than that, and this instruction is the one memory
  held at the architectural pc. `muli` breaks the first; a store into the code
  that follows would break the second without the refetch (`FetchCoherence`).
- `RegistersKept`, `HandedOn`: the execute stage hands on a result in every cycle
  of a stall, not at its end. For multiplications, divisions and calls that result
  is there early, and may be a wrong one (0, an old quotient) until the last
  cycle; `HandedOn` names the register it is for, and every other register's
  newest value is still the architectural one. So the operands, which are
  read anew in each cycle (`OperandInv`), stay those of the beginning
  (`StallOperands`), except after `call lr` has replaced its own.
- `SpecialsKept`: `ireta`, `idsta` and `ie` are written with one cycle left, but
  `ireta` for an interrupt when its response begins.
- `MemoryKept`: a store is in memory one cycle before its end, a load's answer is
  there in its last.
- `Latched`, `GoesOn`: signed comparisons are latched, and then the next address
  is requested, in time and from those operands.
- `CommandsGiven`: from the second cycle on the units have the operands; that the
  result is there in the last is `MultiplierInTime` and `DividerInTime`.

There is a lemma for each part in a cycle of a stall, one for each kind of stall
at its end (`StallIsInstr`) and one for each group of instructions that do not
stall (`NoStallIsInstr`); `TypeCorrect`, `FetchesCoherently`, `OperandInv`,
`MemInv` and the two timetables are used and not proved again.

**Only model-checked:** of `MultiplierAnswers` and `DividerAnswers`, that an
answer comes; `StallsEnd`; and `ListingReassembles`. Liveness under fairness and
`ENABLED` are beyond this prover, and so are the library's induction theorems,
which take an operator as a parameter. `AssemblerProofs` has induction on a set of
numbers instead (`Induction`, from `LeastNatural`), with which the recursive
functions over lines, words, tokens and digits are followed. The same could be
done for the disassembler; `ListedWordsEncode` proves the part of
`ListingReassembles` that is about one word, and what is left to the run
`toolchain` is that the disassembler's counter, its `@` lines and the directives
of the listing put every word back where it was. The theorems about the tools
share the hypotheses that the runs `shadow` and `org` show to be needed; nothing
is claimed of files that break them.

## 5. Where the code and the documents disagree

In the processor:

- **`muli`** is given a stall counter and no stall state
  (`frost32_cpu_module.src.sv:2039-2043`), so after its stall the fetch stage goes
  on as after the stall before it: after reset the program starts again, after a
  branch it branches, after `reti` it jumps to `ireta`. Run `muli`.
- **Signed conditional calls** overwrite `lr` when they are not made, if the
  comparison latched by an earlier branch, jump or call was true (2403-2422). Run
  `signed_call`.
- **`call lr`** goes to the address after itself: `lr` has its new value by the
  time it is read as the destination (1306-1341, 662-696). Run `call_lr`.

In the tools:

- **Labels in inner scopes.** The check for duplicates looks in the current scope,
  but a label is bound with `find_or_insert`, which finds one of an enclosing
  scope first (`assembler_class.cpp:281-291`). `a: { a: a: }` is accepted, and the
  outer `a` moves. Run `shadow`.
- **`.org` and `.space` with names.** A name is 0 in the first pass, so the two
  passes put what follows at different addresses (1204-1219, 1511-1515). Run `org`.
- **`nor`, `nori`, `sgtu`, `sgts`** are documented and cannot be assembled with
  all their operands. `nor` is missing in the visitor (371-392), `nori` in the
  grammar (`AssemblerGrammar.g4:61-70`). The tokens of the other two are spelled
  `gltu` and `glts` (`AssemblerGrammar.g4:501-502`); with that spelling the lookup
  in the tables throws `std::out_of_range`, which nothing catches. Run `nor`.
- **`$readmemh`.** The output has a token for each byte or half word and counts
  addresses in bytes; the memory it is loaded into
  (`main_mem_module.src.sv:319-322`, 395) has cells of 32 bits and counts those.
  `README.md:102-103` says the output is for `readmemh()`. Run `readmemh`.

Not shown by a run: signed branches, jumps and calls take one cycle more than
`README.md` says; the comment at 161 says `pc` is written by the decode stage,
and the fetch stage writes it; stores of bytes and half words write the whole
word, as the memory ignores the access size (the model does too); `reti` takes
three cycles counted as `README.md` counts the others, and it says two. The
disassembler decodes group 6 with the fields and names of group 4
(`disassembler_class.cpp:122-127`), so `ei` is listed as `cne zero, zero, zero`.
`10 - 2 - 3` is 11 in the assembler, because the grammar nests `+` and `-` to the
right; a remainder by 0, or by a label, which is 0 in the first pass, ends the
assembler with an arithmetic exception (the model does it too: `Crashing`).

## 6. What is not modelled

- **Assembler:** how an expression nests (the files are written in the order of
  evaluation); syntax errors within a line and the parser's recovery, as the
  program ends at the first; numbers beyond 32 bits; warnings.
- **Disassembler:** syntax errors of its input, which consists of addresses and
  digits here.
- **Grammars and command line:** the parsers ANTLR generates; the usage message.
- **String pool** (`allocation_stuff.cpp`): makes equal strings one object. Names
  are values in the models.
- **Test bench:** the dump and the monitored address, which nothing reads.
- **Cache:** definitions without a module.
- **`arithlog_modules.src.sv`:** the shifters, adders, restoring and long dividers
  are commented out. `Compare` is instantiated by the decoder, and in the model
  it is `CompareLtu`.
- **Debug decoder:** the wording of reserved opcodes and other `$display`s.
- **Generated and superseded sources:** `hdl/frost32_cpu.sv` (a concatenation of
  the sources modelled) and the `.old` file; editor syntax.
- **`liborangepower`:** vendored; of it the assembler uses bit fields and the pair
  of a previous and a current value, which are modelled.
- **`wait_for_mem`:** the memory of this repository never waits
  (`main_mem_module.src.sv:380`), so nothing can be said of a memory that does.

## 7. Plan

Done: words, decoder, register file, memory, units, processor, instruction set,
refinement, the unit specifications; encoding, grammar, symbol table, assembler,
disassembler, debug decoder, and their composition; nineteen theorems, which state
every safety property of the passing runs but one. Left: `ListingReassembles` as
a theorem, for which the disassembler needs an invariant like `Emitted`, and its
listing the conclusion of `AssemblesTheSource`.
