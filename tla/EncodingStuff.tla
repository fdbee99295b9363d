---------------------------- MODULE EncodingStuff ----------------------------
(***************************************************************************)
(* Instructions as text and as 32-bit words: the opcode tables             *)
(* (encoding_stuff_class.cpp), the assembler's encoders and its expansions *)
(* of pseudo instructions.                                                 *)
(*                                                                         *)
(* The text of an instruction is its name, the kinds of its operands       *)
(* (EncodingStuff's ArgsType, and a few more for pseudo instructions), the *)
(* register numbers and the value of its expression.  What a text does not *)
(* have is 0, which is also what the visitors pass for it.                 *)
(***************************************************************************)
EXTENDS Integers, Sequences

TEMP == 12   \* __get_reg_temp_index()

Text(name, args, ra, rb, rc, imm) ==
  [name |-> name, args |-> args, ra |-> ra, rb |-> rb, rc |-> rc, imm |-> imm]

(***************************************************************************)
(* The tables.  An opcode is the position of the instruction in its group. *)
(***************************************************************************)
Named(args, names) == [i \in DOMAIN names |-> <<names[i], args>>]

Iog0 == Named("ThreeRegs",
  <<"add", "sub", "sltu", "slts", "sgtu", "sgts", "mul", "and", "orr", "xor",
    "nor", "lsl", "lsr", "asr", "udiv", "sdiv">>)

Iog1 ==
  Named("TwoRegsOneImm", <<"addi", "subi", "sltui">>)
    \o <<<<"sltsi", "TwoRegsOneSimm">>, <<"sgtui", "TwoRegsOneImm">>,
         <<"sgtsi", "TwoRegsOneSimm">>>>
    \o Named("TwoRegsOneImm", <<"muli", "andi", "orri", "xori", "nori", "lsli",
                                "lsri", "asri">>)
    \o <<<<"addsi", "OneRegOnePcOneSimm">>, <<"cpyhi", "OneRegOneImm">>>>

Iog2 == Named("Branch", <<"bne", "beq", "bltu", "bgeu", "bleu", "bgtu", "blts",
                          "bges", "bles", "bgts">>)

Iog3 == Named("ThreeRegs", <<"jne", "jeq", "jltu", "jgeu", "jleu", "jgtu",
                             "jlts", "jges", "jles", "jgts">>)

Iog4 == Named("ThreeRegs", <<"cne", "ceq", "cltu", "cgeu", "cleu", "cgtu",
                             "clts", "cges", "cles", "cgts">>)

Iog5 ==
  Named("ThreeRegsLdst",
        <<"ldr", "ldh", "ldsh", "ldb", "ldsb", "str", "sth", "stb">>)
    \o Named("TwoRegsOneSimmLdst",
        <<"ldri", "ldhi", "ldshi", "ldbi", "ldsbi", "stri", "sthi", "stbi">>)

Iog6 == <<<<"ei", "NoArgs">>, <<"di", "NoArgs">>, <<"cpy", "OneIretaOneReg">>,
          <<"cpy", "OneRegOneIreta">>, <<"cpy", "OneIdstaOneReg">>,
          <<"cpy", "OneRegOneIdsta">>, <<"reti", "NoArgs">>>>

Iog == [g \in 0 .. 6 |-> CASE g = 0 -> Iog0 [] g = 1 -> Iog1 [] g = 2 -> Iog2
                           [] g = 3 -> Iog3 [] g = 4 -> Iog4 [] g = 5 -> Iog5
                           [] g = 6 -> Iog6]

Ops(g) == {op \in 0 .. 15 : op + 1 \in DOMAIN Iog[g]}

IsOp(g, op, text) == Iog[g][op + 1] = <<text.name, text.args>>

GroupOf(text) == CHOOSE g \in 0 .. 6 : \E op \in Ops(g) : IsOp(g, op, text)

\* Otherwise .at(name) throws std::out_of_range.
InTables(text) == \E g \in 0 .. 6 : \E op \in Ops(g) : IsOp(g, op, text)

OpcodeOf(text) == LET g == GroupOf(text)
                  IN CHOOSE op \in Ops(g) : IsOp(g, op, text)

(***************************************************************************)
(* Encoding.  clear_and_set_bits_with_range keeps the low bits of a value. *)
(***************************************************************************)
Field(x, hi, lo) == (x % 2 ^ (hi - lo + 1)) * 2 ^ lo
Bits(word, hi, lo) == (word \div 2 ^ lo) % 2 ^ (hi - lo + 1)

EncodeRegs(g, ra, rb) == Field(g, 31, 28) + Field(ra, 27, 24) + Field(rb, 23, 20)

EncodeThreeRegs(g, text) ==
  EncodeRegs(g, text.ra, text.rb) + Field(text.rc, 19, 16)
    + Field(OpcodeOf(text), 3, 0)

EncodeImm16(g, text, imm) ==
  EncodeRegs(g, text.ra, text.rb) + Field(OpcodeOf(text), 19, 16)
    + Field(imm, 15, 0)

\* Mutant: the immediate and the opcode change places.
EncodeSimm12InLowBits(text) ==
  EncodeRegs(5, text.ra, text.rb) + Field(text.imm, 11, 0)
    + Field(OpcodeOf(text), 15, 12)

EncodeSimm12(text) ==
  EncodeRegs(5, text.ra, text.rb) + Field(text.imm, 15, 4)
    + Field(OpcodeOf(text), 3, 0)

\* __encode_relative_branch, for a branch at address pc.
BranchImmediate(text, pc) == text.imm - pc - 4

Encode(text, pc) ==
  LET g == GroupOf(text)
  IN CASE g = 1 -> EncodeImm16(1, text, text.imm)
       [] g = 2 -> EncodeImm16(2, text, BranchImmediate(text, pc))
       [] text.args = "TwoRegsOneSimmLdst" -> EncodeSimm12(text)
       [] OTHER -> EncodeThreeRegs(g, text)

(***************************************************************************)
(* Pseudo instructions.                                                    *)
(***************************************************************************)
Cpya(ra, imm) == <<Text("addi", "TwoRegsOneImm", ra, 0, 0, imm),
                   Text("cpyhi", "OneRegOneImm", ra, 0, 0, imm \div 2 ^ 16)>>

To(name, ra, rb, rc) == <<Text(name, "ThreeRegs", ra, rb, rc, 0)>>

TwoRegsToThree(text) ==
  CASE text.name = "inv" -> To("nor", text.ra, text.rb, 0)
    [] text.name = "cpy" -> To("add", text.ra, text.rb, 0)
    [] OTHER -> To(text.name, text.ra, text.ra, text.rb)

OneRegOneImmToTwo(text) ==
  LET Alu(name, args, rb) == <<Text(name, args, text.ra, rb, 0, text.imm)>>
  IN CASE text.name = "invi" -> Alu("nori", "TwoRegsOneImm", 0)
       [] text.name = "cpyi" -> Alu("addi", "TwoRegsOneImm", 0)
       [] text.name = "cpya" -> Cpya(text.ra, text.imm)
       [] text.name = "cpyhi" -> <<text>>
       [] text.name \in {"sltsi", "sgtsi"} ->
            Alu(text.name, "TwoRegsOneSimm", text.ra)
       [] OTHER -> Alu(text.name, "TwoRegsOneImm", text.ra)

OneRegToOthers(text) ==
  CASE text.name = "jmp"  -> To("jeq", 0, 0, text.ra)
    [] text.name = "call" -> To("ceq", 0, 0, text.ra)
    [] text.name = "inc"  ->
         <<Text("addi", "TwoRegsOneImm", text.ra, text.ra, 0, 1)>>
    [] text.name = "dec"  ->
         <<Text("subi", "TwoRegsOneImm", text.ra, text.ra, 0, 1)>>

AbsoluteToRegister == [jmpa |-> "jeq", calla |-> "ceq", jmpane |-> "jne",
                       jmpaeq |-> "jeq", callane |-> "cne", callaeq |-> "ceq"]

Expand(text) ==
  CASE text.name \in DOMAIN AbsoluteToRegister ->
         Cpya(TEMP, text.imm)
           \o To(AbsoluteToRegister[text.name], text.ra, text.rb, TEMP)
    [] text.args = "TwoRegs"      -> TwoRegsToThree(text)
    [] text.args = "OneRegOneImm" -> OneRegOneImmToTwo(text)
    [] text.args = "OneReg"       -> OneRegToOthers(text)
    [] text.name = "bra" -> <<Text("beq", "Branch", 0, 0, 0, text.imm)>>
    [] text.args = "OneRegOnePc" ->
         <<Text("addsi", "OneRegOnePcOneSimm", text.ra, 0, 0, 0)>>
    [] OTHER -> <<text>>

\* The words of a text at address pc.
Words(text, pc) ==
  LET basic == Expand(text)
  IN [i \in DOMAIN basic |-> Encode(basic[i], pc + 4 * (i - 1))]
==============================================================================
