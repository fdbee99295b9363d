------------------------------ MODULE Frost32Isa ------------------------------
(***************************************************************************)
(* The Frost32 instruction set: what a program sees.  One step executes    *)
(* one whole instruction, or responds to an interrupt between two          *)
(* instructions.  There is no pipeline, no stall, no forwarding: this is   *)
(* the machine the cycle-accurate processor has to implement.              *)
(*                                                                         *)
(* Memory is the memory of main_mem_module.src.sv: every access is to the  *)
(* whole word the address falls in.                                        *)
(***************************************************************************)
EXTENDS InstrDecoder

CONSTANTS
  MemWords,        \* number of memory words
  Alu(_, _, _)     \* Alu(oper, a, b)

VARIABLES
  regs,    \* the general purpose registers
  pc,      \* address of the next instruction to execute
  ireta,   \* interrupt return address
  idsta,   \* interrupt destination address
  ie,      \* interrupts enabled
  mem      \* memory, by word

vars == <<regs, pc, ireta, idsta, ie, mem>>

Init ==
  /\ regs = [r \in Reg |-> 0]
  /\ pc = 0
  /\ ireta = 0
  /\ idsta = 0
  /\ ie = FALSE
  /\ mem \in [0 .. MemWords - 1 -> Word]

CellOf(addr) == (addr \div 4) % MemWords

\* The instruction at pc, its operands, and the address after it.
Instr     == DecodeWord(mem[CellOf(pc)])
Ra        == regs[Instr.ra]
Rb        == regs[Instr.rb]
Rc        == regs[Instr.rc]
Following == Trunc(pc + 4)

\* Register "zero" is always zero.
WriteReg(r, value) == IF r = 0 THEN regs ELSE [regs EXCEPT ![r] = value]

Holds(condition) ==
  CASE condition = CtNe  -> Ra # Rb
    [] condition = CtEq  -> Ra = Rb
    [] condition = CtLtu -> Ra < Rb
    [] condition = CtGeu -> Ra >= Rb
    [] condition = CtLeu -> Ra <= Rb
    [] condition = CtGtu -> Ra > Rb
    [] condition = CtLts -> Signed(Ra) < Signed(Rb)
    [] condition = CtGes -> Signed(Ra) >= Signed(Rb)
    [] condition = CtLes -> Signed(Ra) <= Signed(Rb)
    [] condition = CtGts -> Signed(Ra) > Signed(Rb)
    [] condition = CtIntsEnabled  -> ie
    [] condition = CtIntsDisabled -> ~ie
    [] OTHER -> FALSE

\* Division truncates towards zero; dividing by zero gives zero.
UnsignedQuotient(num, denom) == IF denom = 0 THEN 0 ELSE num \div denom

Magnitude(w) == IF Signed(w) < 0 THEN Trunc(-w) ELSE w

SignedQuotient(num, denom) ==
  LET q == UnsignedQuotient(Magnitude(num), Magnitude(denom))
  IN  IF (Signed(num) < 0) # (Signed(denom) < 0) THEN Trunc(-q) ELSE q

ThreeRegisterResult ==
  CASE Instr.opcode = Mul_ThreeRegs  -> Trunc(Rb * Rc)
    [] Instr.opcode = Udiv_ThreeRegs -> UnsignedQuotient(Rb, Rc)
    [] Instr.opcode = Sdiv_ThreeRegs -> SignedQuotient(Rb, Rc)
    [] OTHER -> Alu(Instr.opcode, Rb, Rc)

ImmediateResult ==
  CASE Instr.opcode = Cpyhi_OneRegOneImm -> Instr.imm * Half + (Ra % Half)
    [] Instr.opcode = Addsi_OneRegOnePcOneSimm ->
         Trunc(pc + SignExtHalf(Instr.imm))
    [] Instr.opcode = Muli_TwoRegsOneImm -> Trunc(Rb * Instr.imm)
    [] Instr.opcode \in {Sltsi_TwoRegsOneSimm, Sgtsi_TwoRegsOneSimm} ->
         Alu(Instr.opcode, Rb, SignExtHalf(Instr.imm))
    [] OTHER -> Alu(Instr.opcode, Rb, Instr.imm)

(***************************************************************************)
(* The instructions, by opcode group.                                      *)
(***************************************************************************)
Arithmetic ==
  /\ Instr.group \in {0, 1}
  /\ regs' = WriteReg(Instr.ra, IF Instr.group = 0 THEN ThreeRegisterResult
                                                   ELSE ImmediateResult)
  /\ pc' = Following
  /\ UNCHANGED <<ireta, idsta, ie, mem>>

Branch ==
  /\ Instr.group = 2
  /\ pc' = IF Holds(Instr.condition_type)
           THEN Trunc(Following + SignExtHalf(Instr.imm)) ELSE Following
  /\ UNCHANGED <<regs, ireta, idsta, ie, mem>>

Jump ==
  /\ Instr.group = 3
  /\ pc' = IF Instr.condition_type < Bad0_Iog3 /\ Holds(Instr.condition_type)
           THEN Rc ELSE Following
  /\ UNCHANGED <<regs, ireta, idsta, ie, mem>>

\* lr gets the return address only if the call is made.
Call ==
  /\ Instr.group = 4
  /\ IF Instr.condition_type < Bad0_Iog3 /\ Holds(Instr.condition_type)
     THEN pc' = Rc /\ regs' = WriteReg(LR, Following)
     ELSE pc' = Following /\ regs' = regs
  /\ UNCHANGED <<ireta, idsta, ie, mem>>

LdstAddress ==
  Trunc(Rb + IF Instr.opcode >= 8 THEN SignExtHalf(Instr.imm) ELSE Rc)

LoadedValue(type, word) ==
  CASE type = Ld32  -> word
    [] type = LdU16 -> word % Half
    [] type = LdS16 -> SignExtHalf(word % Half)
    [] type = LdU8  -> word % Byte
    [] type = LdS8  -> SignExtByte(word % Byte)

Load ==
  /\ Instr.group = 5 /\ Instr.ldst_type \in Loads
  /\ regs' = WriteReg(Instr.ra,
                      LoadedValue(Instr.ldst_type, mem[CellOf(LdstAddress)]))
  /\ pc' = Following
  /\ UNCHANGED <<ireta, idsta, ie, mem>>

Store ==
  /\ Instr.group = 5 /\ Instr.ldst_type \in Stores
  /\ mem' = [mem EXCEPT ![CellOf(LdstAddress)] = Ra]
  /\ pc' = Following
  /\ UNCHANGED <<regs, ireta, idsta, ie>>

InterruptsStuff ==
  /\ Instr.group = 6 /\ Instr.opcode # Reti_NoArgs
  /\ ie'    = CASE Instr.opcode = Ei_NoArgs -> TRUE
                [] Instr.opcode = Di_NoArgs -> FALSE
                [] OTHER -> ie
  /\ ireta' = IF Instr.opcode = Cpy_OneIretaOneReg THEN Ra ELSE ireta
  /\ idsta' = IF Instr.opcode = Cpy_OneIdstaOneReg THEN Ra ELSE idsta
  /\ regs'  = CASE Instr.opcode = Cpy_OneRegOneIreta -> WriteReg(Instr.ra, ireta)
                [] Instr.opcode = Cpy_OneRegOneIdsta -> WriteReg(Instr.ra, idsta)
                [] OTHER -> regs
  /\ pc' = Following
  /\ UNCHANGED mem

Reti ==
  /\ Instr.group = 6 /\ Instr.opcode = Reti_NoArgs
  /\ pc' = ireta
  /\ ie' = TRUE
  /\ UNCHANGED <<regs, ireta, idsta, mem>>

\* The instruction at pc is not executed: ireta says where to come back to.
Interrupt ==
  /\ ie
  /\ ireta' = pc
  /\ pc' = idsta
  /\ ie' = FALSE
  /\ UNCHANGED <<regs, idsta, mem>>

Next ==
  Arithmetic \/ Branch \/ Jump \/ Call \/ Load \/ Store \/ InterruptsStuff
    \/ Reti \/ Interrupt

Spec == Init /\ [][Next]_vars
==============================================================================
