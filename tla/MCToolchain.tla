----------------------------- MODULE MCToolchain -----------------------------
EXTENDS Toolchain, MCAssembler

\* Every instruction of the tables; registers and immediates at the ends of
\* their fields, negative ones and one of 31 bits included.
Imms == {0, 1, 2 ^ 11, -(2 ^ 11), 2 ^ 15 - 1, -1, 305419896}
Targets == {0, 64, 8192}

RegChoices == {<<0, 0, 0>>, <<15, 9, 1>>, <<1, 15, 9>>, <<9, 1, 15>>}

Cut(args, regs) ==
  CASE args \in {"ThreeRegs", "ThreeRegsLdst"} -> regs
    [] args \in {"OneRegOnePcOneSimm", "OneRegOneImm", "OneReg", "OneRegOnePc",
                 "OneIretaOneReg", "OneRegOneIreta", "OneIdstaOneReg",
                 "OneRegOneIdsta"} -> <<regs[1], 0, 0>>
    [] args \in {"NoArgs", "OneImm"} -> <<0, 0, 0>>
    [] OTHER -> <<regs[1], regs[2], 0>>

ImmsOf(name, args) ==
  CASE args \in {"Branch", "OneImm"} -> Targets
    [] args \in {"TwoRegsOneImm", "TwoRegsOneSimm", "OneRegOnePcOneSimm",
                 "OneRegOneImm", "TwoRegsOneSimmLdst"} -> Imms
    [] OTHER -> {0}

TextsOf(names) ==
  {Text(na[1], na[2], regs[1], regs[2], regs[3], imm) :
     na \in names, regs \in {Cut(n[2], r) : n \in names, r \in RegChoices},
     imm \in UNION {ImmsOf(n[1], n[2]) : n \in names}}

AllTexts(names) == UNION {TextsOf({n}) : n \in names}

Basic(groups) == UNION {{Iog[g][i] : i \in DOMAIN Iog[g]} : g \in groups}

Pseudo ==
  ({"inv", "cpy", "add", "nor", "sdiv"} \X {"TwoRegs"})
    \cup ({"invi", "cpyi", "cpya", "addi", "nori", "sltsi", "sgtsi"}
            \X {"OneRegOneImm"})
    \cup ({"jmp", "call", "inc", "dec"} \X {"OneReg"})
    \cup ({"jmpa", "calla", "bra"} \X {"OneImm"})
    \cup ({"jmpane", "jmpaeq", "callane", "callaeq"} \X {"TwoRegsOneImm"})
    \cup {<<"cpy", "OneRegOnePc">>}

\* A minus sign is an operator.
Literal(n) == IF n < 0 THEN <<Num(-n), Op("neg")>> ELSE <<Num(n)>>

LineOf(text) == Instr([text EXCEPT !.imm = 0],
                      IF WithImm(text.args) THEN Literal(text.imm) ELSE <<>>)

FilesOf(names) ==
  {<<Org(<<Num(a)>>), LineOf(text)>> : a \in {0, 4096}, text \in AllTexts(names)}

\* Words that look like an instruction, or like none: a reserved group, a reserved
\* opcode, bits that are not shown.
Data == {<<Db(4, <<Literal(n)>>)>> :
           n \in {7 * 2 ^ 28 + 1, 3 * 2 ^ 28 + 15, 6 * 2 ^ 28 + 10, 2 ^ 28 + 5,
                  2 ^ 20, 17, -(2 ^ 28) * 5, -1}}

ToolchainSources ==
  MCSources \cup FilesOf((Basic(0 .. 6) \cup Pseudo) \ Unassembled) \cup Data

MCVmemFiles ==
  UNION {[1 .. n -> {AtLine(<<1, 0>>), AtLine(<<4>>), HexLine(<<>>), HexLine(<<<<7>>>>),
                     HexLine(<<<<15, 15>>>>), HexLine(<<<<1>>, <<2>>>>),
                     HexLine(<<<<1, 2, 3>>, <<4, 5, 6>>>>),
                     HexLine(<<<<0, 1>>, <<2, 3, 0, 0, 0, 8>>>>),
                     HexLine(<<<<8, 1, 2, 3, 4, 5, 6, 7>>>>)}] : n \in 1 .. 3}

\* One of the documented instructions that cannot be written.
DocumentedSources ==
  {<<LineOf(text)>> : text \in AllTexts(Unassembled)}

\* Two instructions.
ProgramSources == {<<Cpy, Cpy>>}
NoVmemFiles == {}
==============================================================================
