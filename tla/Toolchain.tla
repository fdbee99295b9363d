------------------------------ MODULE Toolchain ------------------------------
(***************************************************************************)
(* The tools in a row: a file is assembled, the output is disassembled,    *)
(* and the listing is assembled again.  Text for the disassembler may also *)
(* be written by hand.                                                     *)
(***************************************************************************)
EXTENDS AssemblerProperties, Disassembler, DebugDecoder

CONSTANT VmemFiles   \* what is written by hand for the disassembler

VARIABLE stage       \* "assembling", "disassembling", "reassembling"

tvars == <<avars, dvars, stage>>

TInit ==
  \/ AInit /\ DInit /\ stage = "assembling"
  \/ /\ AStart(<<>>)
     /\ \E lines \in VmemFiles : vmem = lines
     /\ line = 1 /\ listing = <<>> /\ dstatus = "running"
     /\ stage = "disassembling"

AssemblerRuns ==
  /\ stage \in {"assembling", "reassembling"}
  /\ ANext
  /\ UNCHANGED <<dvars, stage>>

PipeToDisassembler ==
  /\ stage = "assembling" /\ status = "done"
  /\ Start(out)
  /\ stage' = "disassembling"
  /\ UNCHANGED avars

DisassemblerRuns ==
  /\ stage = "disassembling"
  /\ DNext
  /\ UNCHANGED <<avars, stage>>

PipeToAssembler ==
  /\ stage = "disassembling" /\ dstatus = "done"
  /\ stage' = "reassembling"
  /\ Restart(listing)
  /\ UNCHANGED dvars

TNext == AssemblerRuns \/ PipeToDisassembler \/ DisassemblerRuns \/ PipeToAssembler

TSpec == TInit /\ [][TNext]_tvars

(***************************************************************************)
(* Properties.                                                             *)
(***************************************************************************)
WordAt(image, a) ==
  HexValue(TwoDigits(image[a]) \o TwoDigits(image[a + 1])
             \o TwoDigits(image[a + 2]) \o TwoDigits(image[a + 3]))

\* No line is put on top of another by a .org.
Disjoint ==
  LET Extent(i) == Layout[i] .. Layout[i + 1] - 1
      Filled == LinesOf("instr") \cup LinesOf(".db")
  IN \A i, j \in Filled : i # j => Extent(i) \cap Extent(j) = {}

Assembled == stage = "assembling" /\ status = "done" /\ Disjoint

\* What the immediate of a text is as a field: cut to 16 bits, or to 12 with a
\* sign; of a branch, the distance from the following instruction.
ImmField(t, address) ==
  CASE t.args = "Branch" -> (t.imm - address - 4) % 2 ^ 16
    [] t.args = "TwoRegsOneSimmLdst" -> Signed12(t.imm % 2 ^ 12) % 2 ^ 16
    [] OTHER -> t.imm % 2 ^ 16

\* The processor reads `text' in the word at an address.
ReadAsWritten(text, address, word) ==
  LET read == Hardware!Decode(RawFields(word))
  IN /\ OperOf(read) = IF text.name = "cpy" THEN text.args ELSE text.name
     /\ <<read.ra, read.rb, read.rc>> = <<text.ra, text.rb, text.rc>>
     /\ read.imm = ImmField(text, address)

\* The debug display shows `text', with the immediate as the field it has.
ShownAsWritten(text, address, word) ==
  Shown(Hardware!Decode(RawFields(word)))
    = [text EXCEPT !.imm = ImmField(text, address)]

\* What the processor does with the word at an instruction's address is what the
\* programmer wrote there: the operation has the written name and operands, its
\* registers are the written ones, its immediate is the written one, and a branch
\* goes to its label.  The assembler's tables and fields and the decoder's structs
\* and enumerations are two definitions of one encoding, kept by hand in two
\* languages (assembler_class.hpp:109-215, instr_decoder_package.pkg.sv:62-304).
CpuReadsWhatWasWritten ==
  Assembled => \A w \in Written :
    ReadAsWritten(w.text, w.address, WordAt(Loaded, w.address))

\* The simulation's debug display of an instruction is its text in the source,
\* with the immediate as the field it has in the word
\* (debug_instr_decoder.header.sv:7-777).
DebugShowsWhatWasWritten ==
  Assembled => \A w \in Written :
    ShownAsWritten(w.text, w.address, WordAt(Loaded, w.address))

\* A word that is listed under a name, with the bits its listing does not show
\* being 0.
ShownInFull(word) ==
  LET group == Bits(word, 31, 28)
  IN /\ group \in {0, 3, 4} => Bits(word, 15, 4) = 0
     /\ group = 1 /\ OpcodeIn(word, 1) >= 14 => Bits(word, 23, 20) = 0
     /\ group = 5 => IF OpcodeIn(word, 5) < 8 THEN Bits(word, 15, 4) = 0
                     ELSE Bits(word, 19, 16) = 0

\* The assembler does not read back: an "@" below 0x10, which has one digit; a
\* branch, which is listed with its distance in the place of its target; group 6,
\* which is listed as group 4 (disassembler_class.cpp:122-127); nor and nori with
\* all operands; sgtu and sgts, which the lexer spells in another way; unused bits
\* that are not 0.
ReadsBack(l) ==
  LET word == HexValue(Digits(l))
  IN IF l.at \/ Len(Digits(l)) # 8 THEN IsToken(l) \/ l.groups = <<>>
     ELSE HasName(word) =>
            /\ Bits(word, 31, 28) \notin {2, 6}
            /\ Disassemble(word).text.name \notin {"nor", "nori", "sgtu", "sgts"}
            /\ ShownInFull(word)

\* The disassembler undoes the assembler: the listing of any text that consists
\* of lines that read back is assembled without an error, and gives the same bytes
\* at the same addresses, with -a and with -b.
ListingReassembles ==
  (/\ stage = "reassembling" /\ status \in {"done", "error", "crashed"}
   /\ \A i \in DOMAIN vmem : ReadsBack(vmem[i]))
    => status = "done" /\ Loaded = ImageOf(vmem)

(***************************************************************************)
(* What documents of the repository say, and the code does not do (see     *)
(* README.md).                                                             *)
(***************************************************************************)
\* Every instruction of docs/outputs/instruction_set.md can be assembled.
DocumentedInstructionsAssemble == status \notin {"error", "crashed"}

\* "the assembler generates Verilog VMEM format data for use with `readmemh()`"
\* (README.md:102-103): the words of memory are those of the program.
MemoryHoldsTheProgram ==
  Assembled => \A w \in Written :
    LET cell == w.address \div 4
    IN /\ cell \in DOMAIN ReadMemH(out)
       /\ ReadMemH(out)[cell] = WordAt(Image, w.address)
==============================================================================
