------------------------------ MODULE Disassembler ------------------------------
(***************************************************************************)
(* The disassembler (disassembler_class.cpp): each line of its input gives *)
(* at most one line of a source.                                           *)
(***************************************************************************)
EXTENDS AssemblerGrammar, Vmem

VARIABLES
  vmem,      \* standard input
  line,      \* the line the visitor is at
  listing,   \* standard output: lines of a source
  dstatus    \* "idle", "running", "done", "error" (exit(1))

dvars == <<vmem, line, listing, dstatus>>

(***************************************************************************)
(* Words.                                                                  *)
(***************************************************************************)
\* The words of group 6 are looked up in the tables of group 4.
TableOf(group) == IF group = 6 THEN 4 ELSE group

\* Mutant: the opcode is in the same place in every group.
OpcodeInLowBits(word, group) == Bits(word, 3, 0)

OpcodeIn(word, group) ==
  IF group \in {1, 2} THEN Bits(word, 19, 16) ELSE Bits(word, 3, 0)

\* s16 simm12 : 12
Signed12(x) == IF x >= 2 ^ 11 THEN x - 2 ^ 12 ELSE x

HasName(word) ==
  LET group == Bits(word, 31, 28)
  IN group \in 0 .. 6 /\ OpcodeIn(word, group) \in Ops(TableOf(group))

DotDb(word, size) == Db(size, <<<<Num(word)>>>>)

Disassemble(word) ==
  LET group == Bits(word, 31, 28)
      entry == Iog[TableOf(group)][OpcodeIn(word, group) + 1]
      Shows(kinds, x) == IF entry[2] \in kinds THEN x ELSE 0
      imm == IF entry[2] = "TwoRegsOneSimmLdst" THEN Signed12(Bits(word, 15, 4))
             ELSE Bits(word, 15, 0)
  IN Instr(Text(entry[1], entry[2],
                Bits(word, 27, 24),
                Shows({"ThreeRegs", "TwoRegsOneImm", "TwoRegsOneSimm", "Branch",
                       "ThreeRegsLdst", "TwoRegsOneSimmLdst"}, Bits(word, 23, 20)),
                Shows({"ThreeRegs", "ThreeRegsLdst"}, Bits(word, 19, 16)), 0),
           IF entry[2] \in {"ThreeRegs", "ThreeRegsLdst"} THEN <<>>
           ELSE <<Num(imm)>>)

(***************************************************************************)
(* Lines.                                                                  *)
(***************************************************************************)
\* FragHexNum has two characters or more.  Of a shorter line the lexer makes no
\* token: it prints a message and goes on behind it.
IsToken(l) == Len(Digits(l)) > 1 \/ Len(l.groups) > 1

OnToken == dstatus = "running" /\ line \in DOMAIN vmem /\ IsToken(vmem[line])

Show(lines) ==
  /\ listing' = listing \o lines
  /\ line' = line + 1
  /\ UNCHANGED <<vmem, dstatus>>

Start(lines) ==
  /\ vmem' = lines /\ line' = 1 /\ listing' = <<>>
  /\ dstatus' = "running"

SkipLine ==
  /\ dstatus = "running" /\ line \in DOMAIN vmem
  /\ ~IsToken(vmem[line])
  /\ Show(<<>>)

\* visitLine: TokOrg.
VisitOrg ==
  /\ OnToken /\ vmem[line].at
  /\ Show(<<Org(<<Num(HexValue(Digits(vmem[line])))>>)>>)

\* visitLine: TokHexNum.
VisitHexNum ==
  /\ OnToken /\ ~vmem[line].at
  /\ LET data == HexValue(Digits(vmem[line]))
         num_good_chars == Len(Digits(vmem[line]))
     IN CASE num_good_chars \notin {2, 4, 8} ->
               dstatus' = "error" /\ UNCHANGED <<vmem, line, listing>>
          [] num_good_chars = 8 /\ HasName(data) -> Show(<<Disassemble(data)>>)
          [] OTHER -> Show(<<DotDb(data, num_good_chars \div 2)>>)

Finish ==
  /\ dstatus = "running" /\ line = Len(vmem) + 1
  /\ dstatus' = "done"
  /\ UNCHANGED <<vmem, line, listing>>

DInit == vmem = <<>> /\ line = 1 /\ listing = <<>> /\ dstatus = "idle"

DNext == SkipLine \/ VisitOrg \/ VisitHexNum \/ Finish
==============================================================================
