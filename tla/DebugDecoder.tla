----------------------------- MODULE DebugDecoder -----------------------------
(***************************************************************************)
(* How the processor reads a word, by the packed structs and enumerations  *)
(* of instr_decoder_package.pkg.sv and its decoder, and how the simulation *)
(* shows it (debug_instr_decoder.header.sv, in the build with              *)
(* OPT_DEBUG_INSTR_DECODER): the same encoding, kept by hand once more.    *)
(***************************************************************************)
EXTENDS EncodingStuff

Hardware == INSTANCE InstrDecoder WITH
              Width <- 32, Byte <- 256, Imm12Mod <- 4096, Reg <- 0 .. 15,
              Code <- <<>>

RawFields(word) ==
  LET group == Bits(word, 31, 28)
  IN [group  |-> group,
      ra     |-> Bits(word, 27, 24),
      rb     |-> Bits(word, 23, 20),
      rc     |-> Bits(word, 19, 16),
      imm    |-> IF group = 5 THEN Bits(word, 15, 4) ELSE Bits(word, 15, 0),
      opcode |-> IF group \in {1, 2} THEN Bits(word, 19, 16)
                 ELSE Bits(word, 3, 0)]

\* The enumerators of an opcode, without what they say of the operands.  The
\* opcodes behind the end of a list are called "bad".
Oper == <<
  <<"add", "sub", "sltu", "slts", "sgtu", "sgts", "mul", "and", "orr", "xor",
    "nor", "lsl", "lsr", "asr", "udiv", "sdiv">>,
  <<"addi", "subi", "sltui", "sltsi", "sgtui", "sgtsi", "muli", "andi", "orri",
    "xori", "nori", "lsli", "lsri", "asri", "addsi", "cpyhi">>,
  <<"bne", "beq", "bltu", "bgeu", "bleu", "bgtu", "blts", "bges", "bles",
    "bgts", "bintsenabled", "bintsdisabled">>,
  <<"jne", "jeq", "jltu", "jgeu", "jleu", "jgtu", "jlts", "jges", "jles",
    "jgts">>,
  <<"cne", "ceq", "cltu", "cgeu", "cleu", "cgtu", "clts", "cges", "cles",
    "cgts">>,
  <<"ldr", "ldh", "ldsh", "ldb", "ldsb", "str", "sth", "stb", "ldri", "ldhi",
    "ldshi", "ldbi", "ldsbi", "stri", "sthi", "stbi">>,
  <<"ei", "di", "OneIretaOneReg", "OneRegOneIreta", "OneIdstaOneReg",
    "OneRegOneIdsta", "reti">> >>

OperOf(out) == IF out.opcode + 1 \in DOMAIN Oper[out.group + 1]
               THEN Oper[out.group + 1][out.opcode + 1] ELSE "bad"

(***************************************************************************)
(* The cases, one operator for each group: the name and the fields of      *)
(* `out' that the format string shows, in the places it shows them.        *)
(***************************************************************************)
OnlyName(name) == Text(name, "NoArgs", 0, 0, 0, 0)

ShowGroup0(oper, out) == Text(oper, "ThreeRegs", out.ra, out.rb, out.rc, 0)

ShowGroup1(oper, out) ==
  CASE oper = "addsi" -> Text(oper, "OneRegOnePcOneSimm", out.ra, 0, 0, out.imm)
    [] oper = "cpyhi" -> Text(oper, "OneRegOneImm", out.ra, 0, 0, out.imm)
    [] oper \in {"sltsi", "sgtsi"} ->
         Text(oper, "TwoRegsOneSimm", out.ra, out.rb, 0, out.imm)
    [] OTHER -> Text(oper, "TwoRegsOneImm", out.ra, out.rb, 0, out.imm)

ShowGroup2(oper, out) ==
  CASE oper = "bad" -> OnlyName(oper)
    [] oper \in {"bintsenabled", "bintsdisabled"} ->
         Text(oper, "OneImm", 0, 0, 0, out.imm)
    [] OTHER -> Text(oper, "Branch", out.ra, out.rb, 0, out.imm)

ShowGroup3(oper, out) ==
  IF oper = "bad" THEN OnlyName(oper)
  ELSE Text(oper, "ThreeRegs", out.ra, out.rb, out.rc, 0)

ShowGroup4(oper, out) ==
  IF oper = "bad" THEN OnlyName(oper)
  ELSE Text(oper, "ThreeRegs", out.ra, out.rb, out.rc, 0)

\* Mutant: the immediate forms are shown as the forms with registers.
ShowGroup5WithRegs(oper, out) ==
  Text(oper, "ThreeRegsLdst", out.ra, out.rb, out.rc, 0)

ShowGroup5(oper, out) ==
  IF out.opcode < 8
  THEN Text(oper, "ThreeRegsLdst", out.ra, out.rb, out.rc, 0)
  ELSE Text(oper, "TwoRegsOneSimmLdst", out.ra, out.rb, 0, out.imm)

ShowGroup6(oper, out) ==
  IF oper \in {"ei", "di", "reti", "bad"} THEN OnlyName(oper)
  ELSE Text("cpy", oper, out.ra, 0, 0, 0)

Shown(out) ==
  LET oper == OperOf(out)
  IN CASE out.group = 0 -> ShowGroup0(oper, out)
       [] out.group = 1 -> ShowGroup1(oper, out)
       [] out.group = 2 -> ShowGroup2(oper, out)
       [] out.group = 3 -> ShowGroup3(oper, out)
       [] out.group = 4 -> ShowGroup4(oper, out)
       [] out.group = 5 -> ShowGroup5(oper, out)
       [] out.group = 6 -> ShowGroup6(oper, out)
==============================================================================
