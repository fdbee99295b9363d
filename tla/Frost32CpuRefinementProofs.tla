---------------------- MODULE Frost32CpuRefinementProofs ----------------------
(***************************************************************************)
(* The pipeline implements the instruction set, for every word size, every *)
(* assignment of instructions to words, every program, every ALU, number   *)
(* of iterations per cycle, power-up value and order of the divider's      *)
(* always blocks, and any behaviour of the interrupt pin.                  *)
(*                                                                         *)
(* The history variable `arch' stays as it is while an instruction stalls. *)
(* The invariant says how far the instruction has got: what the stages     *)
(* have changed already, and what they still hold of the state before.  At *)
(* the end of the stall all of it is one step of the instruction set.      *)
(***************************************************************************)
EXTENDS Frost32CpuRefinement, Frost32CpuProofs

\* The instructions with which the processor does what the documents say.  Those
\* that are left out are muli, which is given a stall counter and no stall state
\* (2039 - 2043); a call with a signed condition, which hands on lr by the
\* comparison latched last (2403 - 2422); and a call that reads lr, which has its
\* new value by then (662 - 696, 1306 - 1341).
Conforming(instr) ==
  /\ ~(instr.group = 1 /\ instr.opcode = Muli_TwoRegsOneImm)
  /\ instr.group = 4 /\ instr.condition_type < Bad0_Iog3 =>
       /\ instr.condition_type \notin SignedConditions
       /\ LR \notin {instr.ra, instr.rb, instr.rc}

\* The instruction in the execute stage is one of them.
Conforms == Conforming(mde.instr)

(***************************************************************************)
(* The next instruction of the instruction set, its operands and what      *)
(* follows from them.                                                      *)
(***************************************************************************)
TheInstr     == DecodeWord(arch.mem[CellOf(arch.pc)])
TheRa        == arch.regs[TheInstr.ra]
TheRb        == arch.regs[TheInstr.rb]
TheRc        == arch.regs[TheInstr.rc]
TheFollowing == Trunc(arch.pc + 4)
TheAddress   ==
  Trunc(TheRb + IF TheInstr.opcode >= 8 THEN SignExtHalf(TheInstr.imm) ELSE TheRc)

TheCompare == [lts |-> Signed(TheRa) <  Signed(TheRb),
               ges |-> Signed(TheRa) >= Signed(TheRb),
               les |-> Signed(TheRa) <= Signed(TheRb),
               gts |-> Signed(TheRa) >  Signed(TheRb)]

TheCondition ==
  LET ct == TheInstr.condition_type
  IN  CASE ct = CtNe  -> TheRa # TheRb
        [] ct = CtEq  -> TheRa = TheRb
        [] ct = CtLtu -> TheRa < TheRb
        [] ct = CtGeu -> TheRa >= TheRb
        [] ct = CtLeu -> TheRa <= TheRb
        [] ct = CtGtu -> TheRa > TheRb
        [] ct = CtLts -> TheCompare.lts
        [] ct = CtGes -> TheCompare.ges
        [] ct = CtLes -> TheCompare.les
        [] ct = CtGts -> TheCompare.gts
        [] ct = CtIntsEnabled  -> arch.ie
        [] ct = CtIntsDisabled -> ~arch.ie
        [] OTHER -> FALSE

(***************************************************************************)
(* The invariant.                                                          *)
(***************************************************************************)
\* Stalls that are not for the instruction in the execute stage.
NoInstrStalls == {"StInit", "StRespondToInterrupt"}

IsSigned == mde.instr.condition_type \in SignedConditions

ArchTypeOK ==
  arch \in [regs : [Reg -> Word], pc : Word, ireta : Word, idsta : Word,
            ie : BOOLEAN, mem : [Cell -> Word]]

\* Outside of a stall the architectural state is what the pipeline shows.
ArchIsView == ~InStall => arch = View

\* The first value of the counter in a stall of this kind.
LongestStall ==
  CASE stall_state = "StMulDiv" -> IF IsMultiply THEN 5 ELSE STALL_COUNTER_DIVIDE_32
    [] stall_state = "StCtrlFlowBranch" -> IF IsSigned THEN 3 ELSE 2
    [] stall_state = "StCtrlFlowJumpCall" -> IF IsSigned THEN 4 ELSE 3
    [] stall_state = "StMemAccess" -> 3
    [] OTHER -> 2

\* The stall is that of the instruction in the execute stage, and not longer.
StallFitsInstr ==
  InStall =>
    /\ stall_counter \in 1 .. LongestStall
    /\ stall_state \in NoInstrStalls =>
         mde.instr.group = 0 /\ mde.instr.opcode = 0 /\ mde.instr.ra = 0
    /\ stall_state = "StInit" => arch.pc = 0
    /\ stall_state = "StMulDiv" => mde.instr.group = 0 /\ (IsMultiply \/ IsDivide)
    /\ stall_state = "StCtrlFlowBranch" =>
         mde.instr.group = 2 /\ mde.instr.condition_type < Bad2_Iog2
    /\ stall_state = "StCtrlFlowJumpCall" =>
         mde.instr.group \in {3, 4} /\ mde.instr.condition_type < Bad0_Iog3
    /\ stall_state = "StMemAccess" => mde.instr.group = 5
    /\ stall_state = "StOtherInterruptsStuff" =>
         /\ mde.instr.group = 6
         /\ mde.instr.opcode \in {Ei_NoArgs, Di_NoArgs, Cpy_OneIretaOneReg,
                                  Cpy_OneIdstaOneReg}
    /\ stall_state = "StReti" =>
         mde.instr.group = 6 /\ mde.instr.opcode = Reti_NoArgs

\* That instruction is the one at the architectural pc.
InstrIsTheInstr ==
  InStall /\ stall_state \notin NoInstrStalls =>
    /\ mde.instr = TheInstr /\ mde.pc_val = arch.pc
    /\ mde.instr = DecodeWord(mde.raw)

\* The execute stage works in every cycle of a stall.  These registers may have
\* got a value before the stall is over.
HandedOn ==
  CASE stall_state = "StMulDiv" /\ stall_counter # LongestStall ->
         {mde.instr.ra} \ {0}
    [] /\ stall_state = "StCtrlFlowJumpCall" /\ mde.instr.group = 4
       /\ TheCondition -> {LR}
    [] OTHER -> {}

\* The newest value of every other register is the architectural one.
RegistersKept ==
  InStall => \A r \in Reg \ HandedOn : Newest(r) = arch.regs[r]

Finishes(opcode) ==
  stall_counter = 1 /\ stall_state = "StOtherInterruptsStuff"
    /\ mde.instr.opcode = opcode

\* The interrupt registers are written when one cycle is left, but ireta, which
\* is written when the response to an interrupt begins.
SpecialsKept ==
  InStall =>
    /\ ireta = IF Finishes(Cpy_OneIretaOneReg) THEN TheRa
               ELSE IF stall_state = "StRespondToInterrupt" THEN arch.pc
               ELSE arch.ireta
    /\ idsta = IF Finishes(Cpy_OneIdstaOneReg) THEN TheRa ELSE arch.idsta
    /\ ie = CASE \/ Finishes(Ei_NoArgs)
                 \/ stall_counter = 1 /\ stall_state = "StReti" -> TRUE
              [] \/ Finishes(Di_NoArgs)
                 \/ stall_counter = 1 /\ stall_state = "StRespondToInterrupt" -> FALSE
              [] OTHER -> arch.ie
    /\ stall_state = "StRespondToInterrupt" => arch.ie

IsStore == stall_state = "StMemAccess" /\ mde.instr.ldst_type \in Stores

\* Memory is written in the second-to-last cycle of the store's stall, at the
\* store's address and with its value; a load's answer is there in the last.
MemoryKept ==
  InStall =>
    /\ mem = IF IsStore /\ stall_counter = 1
             THEN [arch.mem EXCEPT ![CellOf(TheAddress)] = TheRa] ELSE arch.mem
    /\ stall_state = "StMemAccess" /\ stall_counter = 2 =>
         bus.addr = TheAddress /\ (IsStore => WriteEnable(bus) /\ bus.data = TheRa)
    /\ stall_state = "StMemAccess" /\ stall_counter = 1 /\ ~IsStore =>
         in_data = arch.mem[CellOf(TheAddress)]

\* Signed comparisons are latched by the time the next address is decided.
Latched ==
  InStall /\ stall_counter <= 2
    /\ stall_state \in {"StCtrlFlowBranch", "StCtrlFlowJumpCall"} /\ IsSigned
  => cond = TheCompare

\* Where the instruction set goes on.
Target ==
  CASE stall_state = "StInit"               -> arch.pc
    [] stall_state = "StReti"               -> arch.ireta
    [] stall_state = "StRespondToInterrupt" -> arch.idsta
    [] stall_state = "StCtrlFlowBranch" ->
         IF TheCondition THEN Trunc(TheFollowing + SignExtHalf(TheInstr.imm))
                         ELSE TheFollowing
    [] stall_state = "StCtrlFlowJumpCall" ->
         IF TheCondition THEN TheRc ELSE TheFollowing
    [] OTHER -> TheFollowing

\* In the last cycle of a stall that address has been requested.
GoesOn == stall_counter = 1 => pc = Target

\* From the second cycle on the units have the operands.
CommandsGiven ==
  InStall /\ stall_state = "StMulDiv" /\ stall_counter # LongestStall =>
    /\ IsMultiply => mul_in.x = TheRb /\ mul_in.y = TheRc
    /\ IsDivide => /\ div_in.num = TheRb /\ div_in.denom = TheRc
                   /\ div_in.unsgn_or_sgn = (TheInstr.opcode = Sdiv_ThreeRegs)

RInv ==
  /\ ArchTypeOK /\ ArchIsView /\ StallFitsInstr /\ InstrIsTheInstr
  /\ RegistersKept /\ SpecialsKept /\ MemoryKept /\ Latched /\ GoesOn
  /\ CommandsGiven

(***************************************************************************)
(* The instruction set in the terms of the processor.                      *)
(***************************************************************************)
\* The words of the instruction set are the processor's.
LEMMA SameWords ==
  /\ \A x : InstrSet!Trunc(x) = Trunc(x)
  /\ \A x : InstrSet!Signed(x) = Signed(x)
  /\ \A x : InstrSet!SignExtHalf(x) = SignExtHalf(x)
  /\ \A x : InstrSet!SignExtByte(x) = SignExtByte(x)
  /\ InstrSet!Half = Half /\ InstrSet!WordMod = WordMod
  /\ InstrSet!Word = Word
  BY DEF InstrSet!Trunc, Trunc, InstrSet!Signed, Signed, InstrSet!SignExtHalf,
     SignExtHalf, InstrSet!SignExtByte, SignExtByte, InstrSet!Half, Half,
     InstrSet!WordMod, WordMod, InstrSet!Word, Word

\* The instruction set decodes as the processor does.
LEMMA SameDecoder == \A w : InstrSet!DecodeWord(w) = DecodeWord(w)
  BY DEF InstrSet!DecodeWord, DecodeWord, InstrSet!Decode, Decode,
    InstrSet!SignExtImm12, SignExtImm12, InstrSet!Half, Half,
    InstrSet!CausesStall, CausesStall, InstrSet!CompareLtu, CompareLtu,
    InstrSet!Mul_ThreeRegs, Mul_ThreeRegs,
    InstrSet!Udiv_ThreeRegs, Udiv_ThreeRegs,
    InstrSet!Sdiv_ThreeRegs, Sdiv_ThreeRegs,
    InstrSet!Muli_TwoRegsOneImm, Muli_TwoRegsOneImm,
    InstrSet!Bad2_Iog2, Bad2_Iog2, InstrSet!Bad0_Iog3, Bad0_Iog3,
    InstrSet!Ei_NoArgs, Ei_NoArgs, InstrSet!Di_NoArgs, Di_NoArgs,
    InstrSet!Cpy_OneIretaOneReg, Cpy_OneIretaOneReg,
    InstrSet!Cpy_OneIdstaOneReg, Cpy_OneIdstaOneReg,
    InstrSet!Reti_NoArgs, Reti_NoArgs

\* The terms the instructions are defined with are those of the invariant.
LEMMA SameTerms ==
  /\ InstrSet!Instr = TheInstr
  /\ InstrSet!Ra = TheRa /\ InstrSet!Rb = TheRb /\ InstrSet!Rc = TheRc
  /\ InstrSet!Following = TheFollowing
  /\ InstrSet!LdstAddress = TheAddress
  /\ \A addr : InstrSet!CellOf(addr) = CellOf(addr)
<1>1. InstrSet!Instr = TheInstr /\ \A addr : InstrSet!CellOf(addr) = CellOf(addr)
  BY SameDecoder DEF InstrSet!Instr, TheInstr, InstrSet!CellOf, CellOf
<1>2. InstrSet!Ra = TheRa /\ InstrSet!Rb = TheRb /\ InstrSet!Rc = TheRc
  BY <1>1 DEF InstrSet!Ra, InstrSet!Rb, InstrSet!Rc, TheRa, TheRb, TheRc
<1>3. InstrSet!Following = TheFollowing
  BY SameWords DEF InstrSet!Following, TheFollowing
<1>4. InstrSet!LdstAddress = TheAddress
  BY <1>1, <1>2, SameWords DEF InstrSet!LdstAddress, TheAddress
<1> QED
  BY <1>1, <1>2, <1>3, <1>4

\* The condition of a branch, jump or call.
LEMMA SameCondition == InstrSet!Holds(TheInstr.condition_type) = TheCondition
<1> DEFINE ct == TheInstr.condition_type
<1> HIDE DEF ct
<1>1. InstrSet!Holds(ct) =
        CASE ct = CtNe  -> TheRa # TheRb
        [] ct = CtEq  -> TheRa = TheRb
        [] ct = CtLtu -> TheRa < TheRb
        [] ct = CtGeu -> TheRa >= TheRb
        [] ct = CtLeu -> TheRa <= TheRb
        [] ct = CtGtu -> TheRa > TheRb
        [] ct = CtLts -> Signed(TheRa) < Signed(TheRb)
        [] ct = CtGes -> Signed(TheRa) >= Signed(TheRb)
        [] ct = CtLes -> Signed(TheRa) <= Signed(TheRb)
        [] ct = CtGts -> Signed(TheRa) > Signed(TheRb)
        [] ct = CtIntsEnabled  -> arch.ie
        [] ct = CtIntsDisabled -> ~arch.ie
        [] OTHER -> FALSE
  BY SameTerms, SameWords DEF InstrSet!Holds,
    CtNe, CtEq, CtLtu, CtGeu, CtLeu, CtGtu, CtLts, CtGes, CtLes, CtGts,
    CtIntsEnabled, CtIntsDisabled,
    InstrSet!CtNe, InstrSet!CtEq, InstrSet!CtLtu, InstrSet!CtGeu, InstrSet!CtLeu,
    InstrSet!CtGtu, InstrSet!CtLts, InstrSet!CtGes, InstrSet!CtLes,
    InstrSet!CtGts, InstrSet!CtIntsEnabled, InstrSet!CtIntsDisabled
<1> QED
  BY <1>1 DEF TheCondition, TheCompare, ct

\* The registers after r is written with value.
Written(r, value) == IF r = 0 THEN arch.regs ELSE [arch.regs EXCEPT ![r] = value]

RestUnchanged == arch'.ireta = arch.ireta /\ arch'.idsta = arch.idsta /\ arch'.ie = arch.ie

\* Results of the instruction set in the processor's terms.
LEMMA SameResults ==
  /\ InstrSet!ThreeRegisterResult =
       CASE TheInstr.opcode = Mul_ThreeRegs  -> Trunc(TheRb * TheRc)
         [] TheInstr.opcode = Udiv_ThreeRegs -> InstrSet!UnsignedQuotient(TheRb, TheRc)
         [] TheInstr.opcode = Sdiv_ThreeRegs -> InstrSet!SignedQuotient(TheRb, TheRc)
         [] OTHER -> Alu(TheInstr.opcode, TheRb, TheRc)
  /\ TheInstr.opcode # Muli_TwoRegsOneImm =>
       InstrSet!ImmediateResult =
         CASE TheInstr.opcode = Cpyhi_OneRegOneImm ->
                TheInstr.imm * Half + (TheRa % Half)
           [] TheInstr.opcode = Addsi_OneRegOnePcOneSimm ->
                Trunc(arch.pc + SignExtHalf(TheInstr.imm))
           [] TheInstr.opcode \in {Sltsi_TwoRegsOneSimm, Sgtsi_TwoRegsOneSimm} ->
                Alu(TheInstr.opcode, TheRb, SignExtHalf(TheInstr.imm))
           [] OTHER -> Alu(TheInstr.opcode, TheRb, TheInstr.imm)
<1>1. InstrSet!ThreeRegisterResult =
       CASE TheInstr.opcode = Mul_ThreeRegs  -> Trunc(TheRb * TheRc)
         [] TheInstr.opcode = Udiv_ThreeRegs -> InstrSet!UnsignedQuotient(TheRb, TheRc)
         [] TheInstr.opcode = Sdiv_ThreeRegs -> InstrSet!SignedQuotient(TheRb, TheRc)
         [] OTHER -> Alu(TheInstr.opcode, TheRb, TheRc)
  BY SameTerms, SameWords DEF InstrSet!ThreeRegisterResult,
     InstrSet!Mul_ThreeRegs, Mul_ThreeRegs, InstrSet!Udiv_ThreeRegs,
     Udiv_ThreeRegs, InstrSet!Sdiv_ThreeRegs, Sdiv_ThreeRegs
<1>2. ASSUME TheInstr.opcode # Muli_TwoRegsOneImm
      PROVE  InstrSet!ImmediateResult =
         CASE TheInstr.opcode = Cpyhi_OneRegOneImm ->
                TheInstr.imm * Half + (TheRa % Half)
           [] TheInstr.opcode = Addsi_OneRegOnePcOneSimm ->
                Trunc(arch.pc + SignExtHalf(TheInstr.imm))
           [] TheInstr.opcode \in {Sltsi_TwoRegsOneSimm, Sgtsi_TwoRegsOneSimm} ->
                Alu(TheInstr.opcode, TheRb, SignExtHalf(TheInstr.imm))
           [] OTHER -> Alu(TheInstr.opcode, TheRb, TheInstr.imm)
  BY <1>2, SameTerms, SameWords DEF InstrSet!ImmediateResult,
     InstrSet!Cpyhi_OneRegOneImm, Cpyhi_OneRegOneImm,
     InstrSet!Addsi_OneRegOnePcOneSimm, Addsi_OneRegOnePcOneSimm,
     InstrSet!Muli_TwoRegsOneImm, Muli_TwoRegsOneImm,
     InstrSet!Sltsi_TwoRegsOneSimm, Sltsi_TwoRegsOneSimm,
     InstrSet!Sgtsi_TwoRegsOneSimm, Sgtsi_TwoRegsOneSimm
<1> QED
  BY <1>1, <1>2

\* The lemmas from here on give an instruction of the instruction set from what
\* has happened to the architectural state.
LEMMA IsaArithmetic ==
  ASSUME TheInstr.group \in {0, 1}, RestUnchanged, arch'.mem = arch.mem,
         arch'.pc = TheFollowing,
         arch'.regs = Written(TheInstr.ra, IF TheInstr.group = 0
                                           THEN InstrSet!ThreeRegisterResult
                                           ELSE InstrSet!ImmediateResult)
  PROVE  InstrSet!Next
  BY SameTerms DEF InstrSet!Next, InstrSet!Arithmetic, InstrSet!WriteReg,
     RestUnchanged, Written

LEMMA IsaBranch ==
  ASSUME TheInstr.group = 2, RestUnchanged, arch'.mem = arch.mem,
         arch'.regs = arch.regs,
         arch'.pc = IF TheCondition
                    THEN Trunc(TheFollowing + SignExtHalf(TheInstr.imm))
                    ELSE TheFollowing
  PROVE  InstrSet!Next
  BY SameTerms, SameCondition, SameWords
     DEF InstrSet!Next, InstrSet!Branch, RestUnchanged

LEMMA IsaJump ==
  ASSUME TheInstr.group = 3, RestUnchanged, arch'.mem = arch.mem,
         arch'.regs = arch.regs,
         arch'.pc = IF TheInstr.condition_type < Bad0_Iog3 /\ TheCondition
                    THEN TheRc ELSE TheFollowing
  PROVE  InstrSet!Next
  BY SameTerms, SameCondition
     DEF InstrSet!Next, InstrSet!Jump, RestUnchanged, Bad0_Iog3,
         InstrSet!Bad0_Iog3

LEMMA IsaCall ==
  ASSUME TheInstr.group = 4, RestUnchanged, arch'.mem = arch.mem,
         IF TheInstr.condition_type < Bad0_Iog3 /\ TheCondition
         THEN arch'.pc = TheRc /\ arch'.regs = Written(LR, TheFollowing)
         ELSE arch'.pc = TheFollowing /\ arch'.regs = arch.regs
  PROVE  InstrSet!Next
  BY SameTerms, SameCondition
     DEF InstrSet!Next, InstrSet!Call, RestUnchanged, InstrSet!WriteReg, Written,
         Bad0_Iog3, InstrSet!Bad0_Iog3, LR, InstrSet!LR

\* The value a load of this type takes from a word.
Loaded(type, word) ==
  CASE type = Ld32  -> word
    [] type = LdU16 -> word % Half
    [] type = LdS16 -> SignExtHalf(word % Half)
    [] type = LdU8  -> word % Byte
    [] type = LdS8  -> SignExtByte(word % Byte)

LEMMA IsaLoad ==
  ASSUME TheInstr.group = 5, TheInstr.ldst_type \in Loads, RestUnchanged,
         arch'.mem = arch.mem, arch'.pc = TheFollowing,
         arch'.regs = Written(TheInstr.ra, Loaded(TheInstr.ldst_type,
                                             arch.mem[CellOf(TheAddress)]))
  PROVE  InstrSet!Next
<1>1. \A type, word : InstrSet!LoadedValue(type, word) = Loaded(type, word)
  BY SameWords DEF InstrSet!LoadedValue, Loaded, Ld32, LdU16, LdS16, LdU8, LdS8,
     InstrSet!Ld32, InstrSet!LdU16, InstrSet!LdS16, InstrSet!LdU8, InstrSet!LdS8
<1>2. InstrSet!Loads = Loads
  BY DEF InstrSet!Loads, Loads, Ld32, LdU16, LdS16, LdU8, LdS8,
     InstrSet!Ld32, InstrSet!LdU16, InstrSet!LdS16, InstrSet!LdU8, InstrSet!LdS8
<1> QED
  BY <1>1, <1>2, SameTerms
     DEF InstrSet!Next, InstrSet!Load, InstrSet!WriteReg, Written, RestUnchanged

LEMMA IsaStore ==
  ASSUME TheInstr.group = 5, TheInstr.ldst_type \in Stores, RestUnchanged,
         arch'.mem = [arch.mem EXCEPT ![CellOf(TheAddress)] = TheRa],
         arch'.pc = TheFollowing, arch'.regs = arch.regs
  PROVE  InstrSet!Next
<1>1. InstrSet!Stores = Stores
  BY DEF InstrSet!Stores, Stores, St32, St16, St8,
     InstrSet!St32, InstrSet!St16, InstrSet!St8
<1> QED
  BY <1>1, SameTerms DEF InstrSet!Next, InstrSet!Store, RestUnchanged

LEMMA IsaInterruptsStuff ==
  ASSUME TheInstr.group = 6, TheInstr.opcode # Reti_NoArgs,
         arch'.ie = (CASE TheInstr.opcode = Ei_NoArgs -> TRUE
                      [] TheInstr.opcode = Di_NoArgs -> FALSE
                      [] OTHER -> arch.ie),
         arch'.ireta = IF TheInstr.opcode = Cpy_OneIretaOneReg THEN TheRa
                       ELSE arch.ireta,
         arch'.idsta = IF TheInstr.opcode = Cpy_OneIdstaOneReg THEN TheRa
                       ELSE arch.idsta,
         arch'.regs = (CASE TheInstr.opcode = Cpy_OneRegOneIreta ->
                              Written(TheInstr.ra, arch.ireta)
                        [] TheInstr.opcode = Cpy_OneRegOneIdsta ->
                              Written(TheInstr.ra, arch.idsta)
                        [] OTHER -> arch.regs),
         arch'.pc = TheFollowing, arch'.mem = arch.mem
  PROVE  InstrSet!Next
<1>1. InstrSet!InterruptsStuff
  BY SameTerms DEF InstrSet!InterruptsStuff, InstrSet!WriteReg, Written,
     Reti_NoArgs, Ei_NoArgs, Di_NoArgs, Cpy_OneIretaOneReg, Cpy_OneRegOneIreta,
     Cpy_OneIdstaOneReg, Cpy_OneRegOneIdsta,
     InstrSet!Reti_NoArgs, InstrSet!Ei_NoArgs, InstrSet!Di_NoArgs,
     InstrSet!Cpy_OneIretaOneReg, InstrSet!Cpy_OneRegOneIreta,
     InstrSet!Cpy_OneIdstaOneReg, InstrSet!Cpy_OneRegOneIdsta
<1> QED
  BY <1>1 DEF InstrSet!Next

LEMMA IsaReti ==
  ASSUME TheInstr.group = 6, TheInstr.opcode = Reti_NoArgs,
         arch'.pc = arch.ireta, arch'.ie = TRUE, arch'.regs = arch.regs,
         arch'.ireta = arch.ireta, arch'.idsta = arch.idsta,
         arch'.mem = arch.mem
  PROVE  InstrSet!Next
  BY SameTerms DEF InstrSet!Next, InstrSet!Reti, Reti_NoArgs,
     InstrSet!Reti_NoArgs

LEMMA IsaInterrupt ==
  ASSUME arch.ie, arch'.pc = arch.idsta, arch'.ie = FALSE,
         arch'.ireta = arch.pc, arch'.regs = arch.regs,
         arch'.idsta = arch.idsta, arch'.mem = arch.mem
  PROVE  InstrSet!Next
  BY DEF InstrSet!Next, InstrSet!Interrupt

(***************************************************************************)
(* What every edge does to the newest values, and the types of the view.   *)
(***************************************************************************)
\* What the execute stage hands on becomes the newest value of its register.
LEMMA NewestSteps ==
  ASSUME TypeOK, ExecuteStage, WriteBackStage,
         RegFileStep(write_port, Decoded.ra, Decoded.rb, Decoded.rc),
         NEW r \in Reg
  PROVE  Newest(r)' = ViewOfRegister(r)
<1>1. /\ fwd0' = ExecuteResult /\ write_port'.en
      /\ write_port'.sel = fwd0.index /\ write_port'.data = fwd0.data
  BY DEF ExecuteStage, WriteBackStage
<1>2. regfile'[r] = IF write_port.en /\ write_port.sel # 0 /\ write_port.sel = r
                    THEN write_port.data ELSE regfile[r]
  BY DEF RegFileStep, TypeOK, RegFileTypeOK, WritePort
<1>3. CASE r = 0
  BY <1>3 DEF Newest, ViewOfRegister
<1>4. CASE r # 0 /\ ExecuteResult.index = r
  BY <1>1, <1>4 DEF Newest, ViewOfRegister
<1>5. CASE r # 0 /\ ExecuteResult.index # r /\ fwd0.index = r
  BY <1>1, <1>5 DEF Newest, ViewOfRegister
<1>6. CASE r # 0 /\ ExecuteResult.index # r /\ fwd0.index # r
  BY <1>1, <1>2, <1>6 DEF Newest, ViewOfRegister
<1> QED
  BY <1>3, <1>4, <1>5, <1>6

\* The view has the types of the architectural state.
LEMMA ViewType ==
  TypeOK => View \in [regs : [Reg -> Word], pc : Word, ireta : Word,
                      idsta : Word, ie : BOOLEAN, mem : [Cell -> Word]]
<1> SUFFICES ASSUME TypeOK
             PROVE View \in [regs : [Reg -> Word], pc : Word, ireta : Word,
                             idsta : Word, ie : BOOLEAN, mem : [Cell -> Word]]
  OBVIOUS
<1>1. \A r \in Reg : Newest(r) \in Word
  BY ZeroAndLr DEF TypeOK, RegFileTypeOK, WritePort, Newest
<1>2. \A r \in Reg : ViewOfRegister(r) \in Word
  BY <1>1, ExecuteResultType DEF ViewOfRegister
<1> QED
  BY <1>2 DEF View, TypeOK, MemTypeOK

\* The types of the instruction at the architectural pc and of its operands.
LEMMA TheTypes ==
  ASSUME ArchTypeOK
  PROVE  /\ TheInstr \in DecodedInstr
         /\ TheInstr.ra \in Reg /\ TheInstr.rb \in Reg /\ TheInstr.rc \in Reg
         /\ TheInstr.imm \in HalfWord /\ TheInstr.opcode \in Opcode
         /\ TheInstr.group \in 0 .. 6 /\ TheInstr.ldst_type \in 0 .. 7
         /\ TheInstr.condition_type \in Opcode
         /\ TheRa \in Word /\ TheRb \in Word /\ TheRc \in Word
         /\ arch.pc \in Word /\ arch.mem \in [Cell -> Word]
         /\ arch.regs \in [Reg -> Word]
         /\ arch.mem[CellOf(arch.pc)] \in Word
<1>1. arch.pc \in Word /\ arch.mem \in [Cell -> Word] /\ arch.regs \in [Reg -> Word]
  BY DEF ArchTypeOK
<1>2. arch.mem[CellOf(arch.pc)] \in Word
  BY <1>1, CellTypes
<1>3. TheInstr \in DecodedInstr
  BY <1>2, DecodedTypes DEF TheInstr
<1>4. TheInstr.ra \in Reg /\ TheInstr.rb \in Reg /\ TheInstr.rc \in Reg
  BY <1>3 DEF DecodedInstr
<1> QED
  BY <1>1, <1>2, <1>3, <1>4 DEF DecodedInstr, TheRa, TheRb, TheRc

\* The instructions that stall, by group.
LEMMA StallingInstrs ==
  ASSUME NEW w \in Word
  PROVE  LET d == DecodeWord(w)
         IN  /\ d.group = 0 => (d.causes_stall <=>
                  d.opcode \in {Mul_ThreeRegs, Udiv_ThreeRegs, Sdiv_ThreeRegs})
             /\ d.group = 1 => (d.causes_stall <=> d.opcode = Muli_TwoRegsOneImm)
             /\ d.group = 2 => (d.causes_stall <=> d.condition_type < Bad2_Iog2)
             /\ d.group \in {3, 4} =>
                  (d.causes_stall <=> d.condition_type < Bad0_Iog3)
             /\ d.group = 5 => d.causes_stall
             /\ d.group = 6 => (d.causes_stall <=>
                  d.opcode \in {Ei_NoArgs, Di_NoArgs, Cpy_OneIretaOneReg,
                                Cpy_OneIdstaOneReg, Reti_NoArgs})
<1> DEFINE in == Code[w]
<1>1. in \in RawInstr
  BY CodeAssumption
<1>2. in.opcode \in 0 .. 15
  BY <1>1 DEF RawInstr, Opcode
<1>3. DecodeWord(w) = Decode(in)
  BY DEF DecodeWord
<1> HIDE DEF in
<1>4. \A op \in 0 .. 15 : CompareLtu(op, Bad0_Iog3, 4) = 1 <=> op < Bad0_Iog3
  <2>1. 2 ^ 4 = 16 /\ 2 ^ (4 + 1) = 32
    OBVIOUS
  <2>2. \A op \in 0 .. 15 :
          ((op + (32 - 1 - 10) + 1) \div 16) % 2 = 1 <=> op < 10
    OBVIOUS
  <2> QED
    BY <2>1, <2>2 DEF CompareLtu, Bad0_Iog3
<1>5. CASE in.group > 6
  BY <1>3, <1>5 DEF Decode, Mul_ThreeRegs, Udiv_ThreeRegs, Sdiv_ThreeRegs
<1>6. CASE ~(in.group > 6)
  <2>1. /\ Decode(in).group = in.group /\ Decode(in).opcode = in.opcode
        /\ Decode(in).causes_stall = CausesStall(in.group, in.opcode)
        /\ in.group \in {2, 3, 4} => Decode(in).condition_type = in.opcode
    BY <1>6 DEF Decode
  <2> QED
    BY <1>2, <1>3, <1>4, <2>1 DEF CausesStall
<1> QED
  BY <1>5, <1>6

(***************************************************************************)
(* The operands of an instruction that stalls.                             *)
(***************************************************************************)
\* What depends on the architectural state alone stays as it stays.
LEMMA SameArch ==
  ASSUME arch' = arch
  PROVE  /\ TheInstr' = TheInstr /\ TheRa' = TheRa /\ TheRb' = TheRb
         /\ TheRc' = TheRc /\ TheFollowing' = TheFollowing
         /\ TheAddress' = TheAddress /\ TheCompare' = TheCompare
         /\ TheCondition' = TheCondition
<1>1. TheInstr' = TheInstr /\ TheFollowing' = TheFollowing
  BY DEF TheInstr, TheFollowing
<1>2. TheRa' = TheRa /\ TheRb' = TheRb /\ TheRc' = TheRc
  BY <1>1 DEF TheRa, TheRb, TheRc
<1>3. TheAddress' = TheAddress /\ TheCompare' = TheCompare
  BY <1>1, <1>2 DEF TheAddress, TheCompare
<1>4. TheCondition' = TheCondition
  BY <1>1, <1>2, <1>3 DEF TheCondition
<1> QED
  BY <1>1, <1>2, <1>3, <1>4

\* While an instruction stalls, and has not handed on a result for one of its own
\* operands, the operands are those of the architectural state.
LEMMA StallOperands ==
  ASSUME TypeOK, OperandsAreNewest, StallFitsInstr, InstrIsTheInstr,
         RegistersKept, Conforms, InStall, stall_state \notin NoInstrStalls,
         stall_state = "StMulDiv" => stall_counter = LongestStall
  PROVE  RaData = TheRa /\ RbData = TheRb /\ RcData = TheRc
<1>1. /\ mde.instr = TheInstr
      /\ mde.instr.ra \in Reg /\ mde.instr.rb \in Reg /\ mde.instr.rc \in Reg
  BY InstrTypes DEF InstrIsTheInstr
<1>2. {mde.instr.ra, mde.instr.rb, mde.instr.rc} \cap HandedOn = {}
  <2>1. CASE stall_state = "StMulDiv"
    BY <2>1 DEF HandedOn
  <2>2. CASE stall_state = "StCtrlFlowJumpCall" /\ mde.instr.group = 4
    BY <2>2 DEF HandedOn, StallFitsInstr, Conforms, Conforming
  <2>3. CASE stall_state # "StMulDiv"
             /\ ~(stall_state = "StCtrlFlowJumpCall" /\ mde.instr.group = 4)
    BY <2>3 DEF HandedOn
  <2> QED
    BY <2>1, <2>2, <2>3
<1>3. \A r \in {mde.instr.ra, mde.instr.rb, mde.instr.rc} :
        Newest(r) = arch.regs[r]
  BY <1>1, <1>2 DEF RegistersKept
<1> QED
  BY <1>1, <1>3 DEF OperandsAreNewest, TheRa, TheRb, TheRc

\* Conditions that have been computed from those operands.
LEMMA StallConditions ==
  ASSUME RaData = TheRa, RbData = TheRb, mde.instr = TheInstr,
         IsSigned => cond = TheCompare
  PROVE  /\ mde.instr.condition_type < Bad0_Iog3 /\ mde.instr.condition_type \in Opcode
              => (CallCondition <=> TheCondition)
         /\ mde.instr.condition_type \in Opcode /\ ie = arch.ie
              => (BranchCondition <=> TheCondition)
<1> DEFINE ct == mde.instr.condition_type
<1>0. ct \in SignedConditions => cond = TheCompare
  BY DEF IsSigned
<1>1. ct = TheInstr.condition_type
  OBVIOUS
<1> HIDE DEF ct
<1>2. ASSUME ct \in 0 .. 9 PROVE CallCondition <=> TheCondition
  <2>1. CASE ct \in {0, 1, 2, 3, 4, 5}
    BY <1>1, <2>1 DEF CallCondition, TheCondition, ct,
       CtNe, CtEq, CtLtu, CtGeu, CtLeu, CtGtu, CtLts, CtGes, CtLes, CtGts,
       CtIntsEnabled, CtIntsDisabled
  <2>2. CASE ct \in {6, 7, 8, 9}
    <3>1. cond = TheCompare
      BY <1>0, <2>2 DEF SignedConditions, CtLts, CtGts
    <3> QED
      BY <1>1, <2>2, <3>1 DEF CallCondition, TheCondition, ct,
         CtNe, CtEq, CtLtu, CtGeu, CtLeu, CtGtu, CtLts, CtGes, CtLes, CtGts,
         CtIntsEnabled, CtIntsDisabled
  <2> QED
    BY <1>2, <2>1, <2>2
<1>3. ASSUME ct \in 10 .. 15 PROVE ~CallCondition
  BY <1>3 DEF CallCondition, ct,
     CtNe, CtEq, CtLtu, CtGeu, CtLeu, CtGtu, CtLts, CtGes, CtLes, CtGts
<1>4. ASSUME ct \in 10 .. 15, ie = arch.ie
      PROVE  ((ct = 10 /\ ie) \/ (ct = 11 /\ ~ie)) <=> TheCondition
  BY <1>1, <1>4 DEF TheCondition, ct,
     CtNe, CtEq, CtLtu, CtGeu, CtLeu, CtGtu, CtLts, CtGes, CtLes, CtGts,
     CtIntsEnabled, CtIntsDisabled
<1>5. ct < Bad0_Iog3 /\ ct \in Opcode => ct \in 0 .. 9
  BY DEF Bad0_Iog3, Opcode
<1>6. ASSUME ct \in Opcode, ie = arch.ie PROVE BranchCondition <=> TheCondition
  <2>1. CASE ct \in 0 .. 9
    BY <1>2, <2>1 DEF BranchCondition, ct, CtIntsEnabled, CtIntsDisabled
  <2>2. CASE ct \in 10 .. 15
    <3>1. ~CallCondition
      BY <1>3, <2>2
    <3>2. BranchCondition <=> ((ct = 10 /\ ie) \/ (ct = 11 /\ ~ie))
      BY <3>1 DEF BranchCondition, ct, CtIntsEnabled, CtIntsDisabled
    <3> QED
      BY <1>4, <1>6, <2>2, <3>2
  <2> QED
    BY <1>6, <2>1, <2>2 DEF Opcode
<1> QED
  BY <1>2, <1>5, <1>6 DEF ct

\* The divider's quotient is the instruction set's; dividing by zero gives zero.
LEMMA QuotientOfInstr ==
  ASSUME TypeOK
  PROVE  LET num   == div_in.num
             denom == div_in.denom
         IN  (IF denom = 0 THEN 0 ELSE Quotient)
               = IF div_in.unsgn_or_sgn THEN InstrSet!SignedQuotient(num, denom)
                                        ELSE InstrSet!UnsignedQuotient(num, denom)
<1> DEFINE num   == div_in.num
           denom == div_in.denom
           size(w) == IF Signed(w) < 0 THEN Trunc(-w) ELSE w
<1>1. num \in Word /\ denom \in Word /\ div_in.unsgn_or_sgn \in BOOLEAN
  BY DEF TypeOK
<1>2. /\ \A w : InstrSet!Magnitude(w) = size(w)
      /\ InstrSet!UnsignedQuotient(num, denom) = IF denom = 0 THEN 0 ELSE num \div denom
      /\ InstrSet!SignedQuotient(num, denom) =
           LET q == IF size(denom) = 0 THEN 0 ELSE size(num) \div size(denom)
           IN  IF (Signed(num) < 0) # (Signed(denom) < 0) THEN Trunc(-q) ELSE q
  <2>1. \A w : InstrSet!Magnitude(w) = size(w)
    BY SameWords DEF InstrSet!Magnitude
  <2>2. \A a, b : InstrSet!UnsignedQuotient(a, b) = IF b = 0 THEN 0 ELSE a \div b
    BY DEF InstrSet!UnsignedQuotient
  <2> HIDE DEF size
  <2> QED
    BY <2>1, <2>2, SameWords DEF InstrSet!SignedQuotient
<1>3. CASE denom = 0
  <2>1. size(0) = 0 /\ Trunc(-0) = 0
    BY WordSizes DEF Signed, Trunc
  <2> HIDE DEF size
  <2> QED
    BY <1>2, <1>3, <2>1
<1>4. CASE denom # 0
  <2>1. size(denom) # 0
    <3>1. CASE Signed(denom) < 0
      <4>1. WordMod - denom \in Word /\ WordMod - denom # 0
        BY <1>1, <1>4, WordSizes DEF Word
      <4>2. Trunc((WordMod - denom) + (-1) * WordMod) = WordMod - denom
        BY <4>1, TruncIs
      <4>3. (WordMod - denom) + (-1) * WordMod = -denom
        BY <1>1, WordSizes DEF Word
      <4> QED
        BY <3>1, <4>1, <4>2, <4>3
    <3> QED
      BY <1>4, <3>1
  <2>2. CASE div_in.unsgn_or_sgn
    BY <1>2, <1>4, <2>1, <2>2 DEF Quotient
  <2>3. CASE ~div_in.unsgn_or_sgn
    BY <1>2, <1>4, <2>3 DEF Quotient
  <2> QED
    BY <1>1, <2>2, <2>3
<1> QED
  BY <1>3, <1>4

\* What the pipeline relies on, besides the refinement's own invariant.
InStep ==
  TypeOK /\ FetchCoherence /\ MemInv /\ MultiplierInTime /\ DividerInTime

\* The register the execute stage hands on in a stall, whatever the value.
LEMMA StallHandsOnIndex ==
  ASSUME InStep, RInv, Conforms, InStall
  PROVE  /\ stall_state = "StMulDiv" => ExecuteResult.index = mde.instr.ra
         /\ stall_state \in NoInstrStalls => ExecuteResult.index = 0
         /\ stall_state \in {"StCtrlFlowBranch", "StOtherInterruptsStuff", "StReti"}
              => ExecuteResult.index = 0
         /\ stall_state = "StCtrlFlowJumpCall" =>
              /\ mde.instr.group = 3 => ExecuteResult.index = 0
              /\ mde.instr.group = 4 => ExecuteResult =
                   [index |-> IF TheCondition THEN LR ELSE 0, data |-> TheFollowing]
         /\ stall_state = "StMemAccess" =>
              ExecuteResult = IF stall_counter = 1 /\ mde.instr.ldst_type \in Loads
                              THEN ToRa(LoadedValue) ELSE Nothing
<1>1. fwd0 \in [index : Reg, data : Word] /\ Nothing.index = 0
  BY DEF InStep, TypeOK, Nothing
<1>2. StallFitsInstr /\ InstrIsTheInstr
  BY DEF RInv
<1>3. CASE stall_state = "StMulDiv"
  BY <1>2, <1>3 DEF StallFitsInstr, ExecuteResult, ToRa, IsMultiply, IsDivide, NoInstrStalls
<1>4. CASE stall_state \in NoInstrStalls
  <2>1. mde.instr.group = 0 /\ mde.instr.opcode = 0 /\ mde.instr.ra = 0
    BY <1>2, <1>4 DEF StallFitsInstr
  <2>2. ~IsMultiply /\ ~IsDivide
    BY <2>1 DEF IsMultiply, IsDivide, Mul_ThreeRegs, Udiv_ThreeRegs, Sdiv_ThreeRegs
  <2>3. ExecuteResult.index = 0
    BY <2>1, <2>2 DEF ExecuteResult, ToRa
  <2> QED
    BY <1>4, <2>3 DEF NoInstrStalls
<1>5. CASE stall_state \in {"StCtrlFlowBranch", "StOtherInterruptsStuff", "StReti"}
  <2>1. \/ mde.instr.group = 2
        \/ /\ mde.instr.group = 6
           /\ mde.instr.opcode \in {Ei_NoArgs, Di_NoArgs, Cpy_OneIretaOneReg,
                                    Cpy_OneIdstaOneReg, Reti_NoArgs}
    BY <1>2, <1>5 DEF StallFitsInstr
  <2>2. ~IsMultiply /\ ~IsDivide
    BY <2>1 DEF IsMultiply, IsDivide
  <2>3. mde.instr.group = 2 => ExecuteResult = Nothing
    BY <2>2 DEF ExecuteResult
  <2>4. mde.instr.group = 6 => /\ mde.instr.opcode # Cpy_OneRegOneIreta
                               /\ mde.instr.opcode # Cpy_OneRegOneIdsta
    BY <2>1 DEF Ei_NoArgs, Di_NoArgs, Cpy_OneIretaOneReg, Cpy_OneIdstaOneReg,
       Reti_NoArgs, Cpy_OneRegOneIreta, Cpy_OneRegOneIdsta
  <2>5. mde.instr.group = 6 => ExecuteResult = Nothing
    BY <2>2, <2>4 DEF ExecuteResult
  <2> QED
    BY <1>1, <1>5, <2>1, <2>3, <2>5 DEF NoInstrStalls
<1>6. CASE stall_state = "StMemAccess"
  BY <1>1, <1>2, <1>6, SMTT(30) DEF StallFitsInstr, ExecuteResult, IsMultiply, IsDivide
<1>7. CASE stall_state = "StCtrlFlowJumpCall" /\ mde.instr.group = 3
  BY <1>1, <1>7 DEF ExecuteResult, IsMultiply, IsDivide, NoInstrStalls
<1>8. CASE stall_state = "StCtrlFlowJumpCall" /\ mde.instr.group = 4
  <2>1. /\ mde.instr = TheInstr /\ mde.pc_val = arch.pc
        /\ mde.instr.condition_type < Bad0_Iog3
        /\ mde.instr.condition_type \in Opcode
        /\ mde.instr.condition_type \notin SignedConditions
    BY <1>2, <1>8, InstrTypes DEF InstrIsTheInstr, StallFitsInstr, NoInstrStalls,
       Conforms, Conforming, InStep
  <2>2. RaData = TheRa /\ RbData = TheRb /\ RcData = TheRc
    BY <1>2, <1>8, StallOperands, OperandInvImplies
       DEF InStep, RInv, MemInv, NoInstrStalls
  <2>3. CallCondition <=> TheCondition
    BY <2>1, <2>2, StallConditions DEF IsSigned
  <2>4. ExecuteResult = [index |-> IF CallCondition THEN LR ELSE 0,
                         data  |-> FollowingPcExecute]
    BY <1>8, <2>1 DEF ExecuteResult, IsMultiply, IsDivide, Bad0_Iog3, CtGts, Opcode
  <2> QED
    BY <1>8, <2>1, <2>3, <2>4 DEF FollowingPcExecute, TheFollowing, NoInstrStalls
<1>9. stall_state = "StCtrlFlowJumpCall" => mde.instr.group \in {3, 4}
  BY <1>2 DEF StallFitsInstr
<1>10. stall_state \in StallState
  BY DEF InStep, TypeOK
<1> QED
  <2>1. CASE stall_state = "StCtrlFlowJumpCall"
    BY <1>7, <1>8, <1>9, <2>1
  <2> QED
    BY <1>3, <1>4, <1>5, <1>6, <2>1, <1>10 DEF StallState, NoInstrStalls

(***************************************************************************)
(* A cycle in a stall that is not its last.                                *)
(***************************************************************************)
\* What a cycle of a stall that is not its last does to the decode stage.
LEMMA StallCycle ==
  ASSUME InStep, NEW interrupt \in BOOLEAN, Cycle(interrupt), InStall
  PROVE  /\ stall_counter \in Nat /\ stall_counter >= 1
         /\ stall_counter' = stall_counter - 1
         /\ stall_state' = stall_state
         /\ mde' = IF stall_counter = 1 THEN Bubble ELSE mde
         /\ StallSpecialRegisters
         /\ ExecuteStage /\ WriteBackStage
         /\ RegFileStep(write_port, Decoded.ra, Decoded.rb, Decoded.rc)
         /\ MemStep(bus)
         /\ stall_counter = 3 /\ stall_state = "StMemAccess" => FetchMemAccess
         /\ /\ stall_counter = 3
            /\ stall_state \in {"StCtrlFlowBranch", "StCtrlFlowJumpCall"}
            => FetchLatchComparisons
         /\ stall_counter = 2 => FetchAfterStall
         /\ stall_counter = 1 => FetchLastStallCycle
<1>1. /\ FetchStage(interrupt) /\ DecodeStage(interrupt)
      /\ ExecuteStage /\ WriteBackStage /\ MemStep(bus)
      /\ RegFileStep(write_port, Decoded.ra, Decoded.rb, Decoded.rc)
  BY DEF Cycle
<1>2. stall_counter \in Nat /\ DecodeInStall
  BY <1>1, CounterSteps DEF InStep
<1>3. stall_counter >= 1
  BY <1>2 DEF InStall
<1>4. stall_counter = 3 /\ stall_state = "StMemAccess" => FetchMemAccess
  BY <1>1 DEF FetchStage, FetchLatchComparisons, FetchAfterStall,
     FetchLastStallCycle, FetchWaits, FetchNext, FetchHolds, InStall
<1>5. stall_counter = 3 /\ stall_state \in {"StCtrlFlowBranch", "StCtrlFlowJumpCall"}
        => FetchLatchComparisons
  BY <1>1 DEF FetchStage, FetchMemAccess, FetchAfterStall,
     FetchLastStallCycle, FetchWaits, FetchNext, FetchHolds, InStall
<1>6. stall_counter = 2 => FetchAfterStall
  BY <1>1 DEF FetchStage, FetchMemAccess, FetchLatchComparisons,
     FetchLastStallCycle, FetchWaits, FetchNext, FetchHolds, InStall
<1>7. stall_counter = 1 => FetchLastStallCycle
  BY <1>1 DEF FetchStage, FetchMemAccess, FetchLatchComparisons,
     FetchAfterStall, FetchWaits, FetchNext, FetchHolds, InStall
<1> QED
  BY <1>1, <1>2, <1>3, <1>4, <1>5, <1>6, <1>7 DEF DecodeInStall

\* While a stall goes on its instruction and its length stay the same.
LEMMA SameStall ==
  ASSUME arch' = arch, mde' = mde, stall_state' = stall_state
  PROVE  /\ LongestStall' = LongestStall /\ IsSigned' = IsSigned
         /\ IsStore' = IsStore /\ IsMultiply' = IsMultiply /\ IsDivide' = IsDivide
         /\ Target' = Target
<1>1. /\ IsSigned' = IsSigned /\ IsStore' = IsStore
      /\ IsMultiply' = IsMultiply /\ IsDivide' = IsDivide
  BY DEF IsSigned, IsStore, IsMultiply, IsDivide
<1>2. LongestStall' = LongestStall
  BY <1>1 DEF LongestStall
<1>3. Target' = Target
  BY SameArch DEF Target
<1> QED
  BY <1>1, <1>2, <1>3

\* The parts of the invariant, one lemma each, in a cycle that does not end a
\* stall.
LEMMA FitsInStall ==
  ASSUME InStep, RInv, Conforms, NEW interrupt \in BOOLEAN, Cycle(interrupt),
         InStall, stall_counter # 1, arch' = arch
  PROVE  StallFitsInstr' /\ InstrIsTheInstr'
<1>1. /\ stall_counter \in Nat /\ stall_counter >= 1
      /\ stall_counter' = stall_counter - 1
      /\ stall_state' = stall_state /\ mde' = mde
  BY StallCycle
<1>2. /\ LongestStall' = LongestStall /\ IsMultiply' = IsMultiply
      /\ IsDivide' = IsDivide /\ TheInstr' = TheInstr
  BY <1>1, SameStall, SameArch
<1>3. StallFitsInstr /\ InstrIsTheInstr
  BY DEF RInv
<1>4. LongestStall \in Nat
  BY StallCounters DEF LongestStall
<1>5. stall_counter' \in 1 .. LongestStall'
  BY <1>1, <1>2, <1>3, <1>4 DEF StallFitsInstr
<1>6. StallFitsInstr'
  BY <1>1, <1>2, <1>3, <1>5 DEF StallFitsInstr
<1>7. InstrIsTheInstr'
  BY <1>1, <1>2, <1>3 DEF InstrIsTheInstr
<1> QED
  BY <1>6, <1>7

\* What the execute stage hands on in a stall is for a register of `HandedOn'.
LEMMA RegistersInStall ==
  ASSUME InStep, RInv, Conforms, NEW interrupt \in BOOLEAN, Cycle(interrupt),
         InStall, stall_counter # 1, arch' = arch
  PROVE  RegistersKept'
<1>1. /\ stall_counter \in Nat /\ stall_counter >= 1
      /\ stall_counter' = stall_counter - 1
      /\ stall_state' = stall_state /\ mde' = mde
      /\ ExecuteStage /\ WriteBackStage
      /\ RegFileStep(write_port, Decoded.ra, Decoded.rb, Decoded.rc)
  BY StallCycle
<1>2. LongestStall' = LongestStall /\ TheCondition' = TheCondition
  BY <1>1, SameStall, SameArch
<1>3. StallFitsInstr /\ RegistersKept /\ stall_counter \in 1 .. LongestStall
      /\ LongestStall \in Nat
  BY StallCounters DEF RInv, StallFitsInstr, LongestStall
<1>4. HandedOn \subseteq HandedOn'
  BY <1>1, <1>2, <1>3 DEF HandedOn
<1>5. ExecuteResult.index \in HandedOn' \cup {0}
  <2>1. CASE stall_state = "StMulDiv"
    BY <1>1, <1>2, <1>3, <2>1, StallHandsOnIndex DEF HandedOn
  <2>2. CASE stall_state = "StCtrlFlowJumpCall"
    BY <1>1, <1>2, <1>3, <2>2, StallHandsOnIndex DEF HandedOn, StallFitsInstr
  <2>3. CASE stall_state = "StMemAccess"
    BY <2>3, StallHandsOnIndex DEF Nothing, InStep, TypeOK
  <2>4. CASE stall_state \notin {"StMulDiv", "StCtrlFlowJumpCall", "StMemAccess"}
    BY <2>4, StallHandsOnIndex DEF InStep, TypeOK, StallState, NoInstrStalls
  <2> QED
    BY <2>1, <2>2, <2>3, <2>4
<1>6. ASSUME NEW r \in Reg \ HandedOn'
      PROVE  Newest(r)' = arch'.regs[r]
  <2>1. Newest(r)' = ViewOfRegister(r)
    BY <1>1, NewestSteps DEF InStep
  <2>2. ViewOfRegister(r) = Newest(r)
    BY <1>5 DEF ViewOfRegister
  <2> QED
    BY <1>3, <1>4, <2>1, <2>2 DEF RegistersKept
<1> QED
  BY <1>6 DEF RegistersKept

\* The interrupt registers are written with two cycles left.
LEMMA SpecialsInStall ==
  ASSUME InStep, RInv, Conforms, NEW interrupt \in BOOLEAN, Cycle(interrupt),
         InStall, stall_counter # 1, arch' = arch
  PROVE  SpecialsKept'
<1>1. /\ stall_counter \in Nat /\ stall_counter' = stall_counter - 1
      /\ stall_state' = stall_state /\ mde' = mde /\ StallSpecialRegisters
  BY StallCycle
<1>2. TheRa' = TheRa
  BY SameArch
<1>3. /\ SpecialsKept /\ InstrIsTheInstr /\ StallFitsInstr
      /\ OperandsAreNewest /\ RegistersKept /\ TypeOK
  BY OperandInvImplies DEF RInv, InStep, MemInv
<1>4. /\ ireta = (IF stall_state = "StRespondToInterrupt" THEN arch.pc ELSE arch.ireta)
      /\ idsta = arch.idsta /\ ie = arch.ie
      /\ stall_state = "StRespondToInterrupt" => arch.ie
  BY <1>1, <1>3 DEF SpecialsKept, Finishes
<1>5. CASE stall_counter # 2
  <2>1. ireta' = ireta /\ idsta' = idsta /\ ie' = ie
    BY <1>1, <1>5 DEF StallSpecialRegisters
  <2>2. stall_counter' # 1
    BY <1>1, <1>5
  <2>3. \A opcode : ~Finishes(opcode)'
    BY <2>2 DEF Finishes
  <2> QED
    BY <1>1, <1>4, <2>1, <2>2, <2>3 DEF SpecialsKept
<1>6. CASE stall_counter = 2
  <2>1. stall_counter' = 1
    BY <1>1, <1>6
  <2>2. CASE stall_state = "StOtherInterruptsStuff"
    <3>1. RaData = TheRa
      BY <1>3, <2>2, StallOperands DEF NoInstrStalls
    <3>2. Decoded.opcode = mde.instr.opcode
      BY <1>3, <2>2 DEF InstrIsTheInstr, Decoded, NoInstrStalls
    <3>3. mde.instr.opcode \in {Ei_NoArgs, Di_NoArgs, Cpy_OneIretaOneReg,
                                Cpy_OneIdstaOneReg}
      BY <1>3, <2>2 DEF StallFitsInstr
    <3>4. /\ ireta' = IF mde.instr.opcode = Cpy_OneIretaOneReg THEN TheRa ELSE arch.ireta
          /\ idsta' = IF mde.instr.opcode = Cpy_OneIdstaOneReg THEN TheRa ELSE arch.idsta
      BY <1>1, <1>4, <1>6, <2>2, <3>1 DEF StallSpecialRegisters
    <3>5. /\ mde.instr.opcode = Ei_NoArgs => ie' = TRUE
          /\ mde.instr.opcode = Di_NoArgs => ie' = FALSE
          /\ mde.instr.opcode \notin {Ei_NoArgs, Di_NoArgs} => ie' = arch.ie
      <4>1. CASE mde.instr.opcode \in {Cpy_OneIretaOneReg, Cpy_OneIdstaOneReg}
        <5>1. ie' = ie
          BY <1>1, <1>6, <2>2, <4>1 DEF StallSpecialRegisters
        <5> QED
          BY <1>3, <1>4, <4>1, <5>1 DEF Ei_NoArgs, Di_NoArgs,
             Cpy_OneIretaOneReg, Cpy_OneIdstaOneReg, TypeOK
      <4>2. CASE mde.instr.opcode \notin {Cpy_OneIretaOneReg, Cpy_OneIdstaOneReg}
        <5>1. ie' = (Decoded.opcode = Ei_NoArgs)
          <6> DEFINE reti  == stall_counter = 2 /\ stall_state = "StReti"
                     resp  == stall_counter = 2 /\ stall_state = "StRespondToInterrupt"
                     other == /\ stall_counter = 2
                              /\ stall_state = "StOtherInterruptsStuff"
                              /\ mde.instr.opcode \notin
                                   {Cpy_OneIretaOneReg, Cpy_OneIdstaOneReg}
                     ei    == Decoded.opcode = Ei_NoArgs
          <6>1. ie' = CASE reti -> TRUE [] resp -> FALSE [] other -> ei [] OTHER -> ie
            BY <1>1 DEF StallSpecialRegisters
          <6>2. ~reti /\ ~resp /\ other
            BY <1>6, <2>2, <4>2
          <6> HIDE DEF reti, resp, other, ei
          <6>3. ie' = ei
            BY <6>1, <6>2
          <6> QED
            BY <6>3 DEF ei
        <5> QED
          <6>1. mde.instr.opcode \in {Ei_NoArgs, Di_NoArgs}
            BY <3>3, <4>2
          <6>2. CASE mde.instr.opcode = Ei_NoArgs
            <7>1. (Decoded.opcode = Ei_NoArgs) = TRUE /\ Ei_NoArgs # Di_NoArgs
              BY <3>2, <6>2 DEF Ei_NoArgs, Di_NoArgs
            <7> QED
              BY <5>1, <6>2, <7>1
          <6>3. CASE mde.instr.opcode = Di_NoArgs
            <7>1. (Decoded.opcode = Ei_NoArgs) = FALSE /\ Ei_NoArgs # Di_NoArgs
              BY <3>2, <6>3 DEF Ei_NoArgs, Di_NoArgs
            <7> QED
              BY <5>1, <6>3, <7>1
          <6> QED
            BY <6>1, <6>2, <6>3
      <4> QED
        BY <4>1, <4>2
    <3>6. \A opcode : Finishes(opcode)' <=> mde.instr.opcode = opcode
      BY <1>1, <2>1, <2>2 DEF Finishes
    <3>7. stall_state' = "StOtherInterruptsStuff"
      BY <1>1, <2>2
    <3> QED
      BY <1>2, <3>4, <3>5, <3>6, <3>7 DEF SpecialsKept, Ei_NoArgs, Di_NoArgs
  <2>3. CASE stall_state # "StOtherInterruptsStuff"
    BY <1>1, <1>4, <1>6, <2>1, <2>3 DEF StallSpecialRegisters, SpecialsKept, Finishes
  <2> QED
    BY <2>2, <2>3
<1> QED
  BY <1>5, <1>6

\* Only a load or a store stalls as a memory access.
LEMMA StoreInStall ==
  ASSUME InStep, RInv, InStall, mde.instr.ldst_type \in Stores
  PROVE  IsStore
<1>1. mde.instr.group = 5 /\ StallFitsInstr /\ stall_state \in StallState
  BY DEF InStep, MemInv, StoresAreGroup5, RInv, TypeOK
<1>2. stall_state = "StMemAccess"
  BY <1>1 DEF StallFitsInstr, StallState, NoInstrStalls
<1> QED
  BY <1>2 DEF IsStore

\* A load or a store has its operands and its address throughout its stall.
LEMMA AddressInStall ==
  ASSUME InStep, RInv, Conforms, InStall, stall_state = "StMemAccess"
  PROVE  /\ RaData = TheRa /\ RbData = TheRb /\ RcData = TheRc
         /\ LdstAddress = TheAddress
<1>1. RaData = TheRa /\ RbData = TheRb /\ RcData = TheRc
  BY StallOperands, OperandInvImplies DEF InStep, RInv, MemInv, NoInstrStalls
<1> QED
  BY <1>1 DEF RInv, InstrIsTheInstr, NoInstrStalls, LdstAddress, TheAddress

\* The request is made with two cycles left, and done with one left.
LEMMA MemoryInStall ==
  ASSUME InStep, RInv, Conforms, NEW interrupt \in BOOLEAN, Cycle(interrupt),
         InStall, stall_counter # 1, arch' = arch
  PROVE  MemoryKept'
<1>1. /\ stall_counter \in Nat /\ stall_counter' = stall_counter - 1
      /\ stall_state' = stall_state /\ mde' = mde /\ MemStep(bus)
      /\ stall_counter = 3 /\ stall_state = "StMemAccess" => FetchMemAccess
  BY StallCycle
<1>2. /\ TheRa' = TheRa /\ TheAddress' = TheAddress /\ IsStore' = IsStore
  BY <1>1, SameArch, SameStall
<1>3. mem = arch.mem
  BY DEF RInv, MemoryKept
<1>4. mem' = IF IsStore' /\ stall_counter' = 1
             THEN [arch'.mem EXCEPT ![CellOf(TheAddress')] = TheRa'] ELSE arch'.mem
  <2>1. CASE WriteEnable(bus)
    <3>1. stall_counter = 2 /\ IsStore
      BY <2>1, StoreInStall DEF InStep, MemInv, WriteIsFromStore
    <3>2. bus.addr = TheAddress /\ bus.data = TheRa
      BY <3>1 DEF RInv, MemoryKept, IsStore
    <3> QED
      BY <1>1, <1>2, <1>3, <2>1, <3>1, <3>2 DEF MemStep
  <2>2. CASE ~WriteEnable(bus)
    <3>1. ~(IsStore /\ stall_counter = 2)
      BY <2>2 DEF RInv, MemoryKept, IsStore
    <3> QED
      BY <1>1, <1>2, <1>3, <2>2, <3>1 DEF MemStep
  <2> QED
    BY <2>1, <2>2
<1>5. ASSUME stall_state' = "StMemAccess", stall_counter' = 2
      PROVE  bus'.addr = TheAddress' /\ (IsStore' => WriteEnable(bus') /\ bus'.data = TheRa')
  <2>1. FetchMemAccess
    BY <1>1, <1>5
  <2>2. LdstAddress = TheAddress /\ RaData = TheRa
    BY <1>1, <1>5, AddressInStall
  <2>3. CASE mde.instr.ldst_type \in Loads
    <3>1. bus'.addr = LdstAddress
      BY <2>1, <2>3 DEF FetchMemAccess, prep_mem_read
    <3>2. ~IsStore
      BY <2>3 DEF IsStore, Loads, Stores, Ld32, LdU16, LdS16, LdU8, LdS8, St32, St16, St8
    <3> QED
      BY <1>2, <2>2, <3>1, <3>2
  <2>4. CASE mde.instr.ldst_type \notin Loads
    <3>1. bus'.addr = LdstAddress /\ WriteEnable(bus') /\ bus'.data = RaData
      BY <2>1, <2>4 DEF FetchMemAccess, prep_mem_write, WriteEnable
    <3> QED
      BY <1>2, <2>2, <3>1
  <2> QED
    BY <2>3, <2>4
<1>6. ASSUME stall_state' = "StMemAccess", stall_counter' = 1, ~IsStore'
      PROVE  in_data' = arch'.mem[CellOf(TheAddress')]
  <2>1. bus.addr = TheAddress
    BY <1>1, <1>6 DEF RInv, MemoryKept
  <2> QED
    BY <1>1, <1>2, <1>3, <2>1 DEF MemStep
<1> QED
  <2>1. \A a : CellOf(a)' = CellOf(a')
    BY DEF CellOf
  <2>2. WriteEnable(bus)' = WriteEnable(bus')
    BY DEF WriteEnable
  <2> QED
    BY <1>4, <1>5, <1>6, <2>2 DEF MemoryKept

\* Signed comparisons are latched with three cycles left.
LEMMA LatchedInStall ==
  ASSUME InStep, RInv, Conforms, NEW interrupt \in BOOLEAN, Cycle(interrupt),
         InStall, stall_counter # 1, arch' = arch
  PROVE  Latched'
<1>1. /\ stall_counter \in Nat /\ stall_counter' = stall_counter - 1
      /\ stall_state' = stall_state /\ mde' = mde
      /\ /\ stall_counter = 3
         /\ stall_state \in {"StCtrlFlowBranch", "StCtrlFlowJumpCall"}
         => FetchLatchComparisons
      /\ stall_counter = 2 => FetchAfterStall
      /\ stall_counter >= 1
  BY StallCycle
<1>2. IsSigned' = IsSigned /\ TheCompare' = TheCompare
  BY <1>1, SameStall, SameArch
<1>3. SUFFICES ASSUME stall_counter' <= 2, IsSigned,
                      stall_state \in {"StCtrlFlowBranch", "StCtrlFlowJumpCall"}
               PROVE  cond' = TheCompare
  BY <1>1, <1>2 DEF Latched
<1>4. CASE stall_counter = 2
  BY <1>1, <1>3, <1>4 DEF FetchAfterStall, RInv, Latched
<1>5. CASE stall_counter = 3
  <2>1. cond' = Compare
    BY <1>1, <1>3, <1>5 DEF FetchLatchComparisons
  <2>2. RaData = TheRa /\ RbData = TheRb
    BY <1>3, StallOperands, OperandInvImplies DEF InStep, RInv, MemInv, NoInstrStalls
  <2> QED
    BY <2>1, <2>2 DEF Compare, TheCompare
<1> QED
  BY <1>1, <1>3, <1>4, <1>5

\* The next address is decided with two cycles left.
LEMMA GoesOnInStall ==
  ASSUME InStep, RInv, Conforms, NEW interrupt \in BOOLEAN, Cycle(interrupt),
         InStall, stall_counter # 1, arch' = arch
  PROVE  GoesOn'
<1>1. /\ stall_counter \in Nat /\ stall_counter' = stall_counter - 1
      /\ stall_state' = stall_state /\ mde' = mde
      /\ stall_counter = 2 => FetchAfterStall
  BY StallCycle
<1>2. Target' = Target
  BY <1>1, SameStall
<1>3. SUFFICES ASSUME stall_counter = 2 PROVE StallTarget = Target
  BY <1>1, <1>2 DEF GoesOn, FetchAfterStall, prep_load_instruction
<1>4. /\ StallFitsInstr /\ InstrIsTheInstr /\ SpecialsKept /\ Latched
      /\ stall_state \in StallState
  BY DEF RInv, InStep, TypeOK
<1>5. CASE stall_state \in NoInstrStalls \cup {"StReti"}
  BY <1>3, <1>4, <1>5 DEF StallTarget, Target, NoInstrStalls, SpecialsKept,
     StallFitsInstr, Finishes
<1>6. CASE stall_state \notin NoInstrStalls
  <2>1. mde.instr = TheInstr /\ FollowingPcExecute = TheFollowing
    BY <1>4, <1>6 DEF InstrIsTheInstr, FollowingPcExecute, TheFollowing
  <2>2. CASE stall_state \in {"StMulDiv", "StOtherInterruptsStuff", "StMemAccess"}
    BY <2>1, <2>2 DEF StallTarget, Target
  <2>3. CASE stall_state \in {"StCtrlFlowBranch", "StCtrlFlowJumpCall"}
    <3>1. RaData = TheRa /\ RbData = TheRb /\ RcData = TheRc
      BY <2>3, StallOperands, OperandInvImplies
         DEF InStep, RInv, MemInv, NoInstrStalls
    <3>2. IsSigned => cond = TheCompare
      BY <1>3, <1>4, <2>3 DEF Latched
    <3>3. ie = arch.ie
      BY <1>3, <1>4, <2>3 DEF SpecialsKept, Finishes
    <3>4. mde.instr.condition_type \in Opcode
      BY InstrTypes DEF InStep
    <3>5. CASE stall_state = "StCtrlFlowBranch"
      <4>1. BranchCondition <=> TheCondition
        BY <2>1, <3>1, <3>2, <3>3, <3>4, StallConditions
      <4> QED
        BY <2>1, <3>5, <4>1 DEF StallTarget, Target, BranchDest
    <3>6. CASE stall_state = "StCtrlFlowJumpCall"
      <4>1. mde.instr.condition_type < Bad0_Iog3
        BY <1>4, <3>6 DEF StallFitsInstr
      <4>2. CallCondition <=> TheCondition
        BY <2>1, <3>1, <3>2, <3>4, <4>1, StallConditions
      <4> QED
        BY <2>1, <3>1, <3>6, <4>2 DEF StallTarget, Target
    <3> QED
      BY <2>3, <3>5, <3>6
  <2>4. CASE stall_state = "StReti"
    BY <1>5, <2>4
  <2> QED
    BY <1>4, <1>6, <2>2, <2>3, <2>4 DEF StallState, NoInstrStalls
<1> QED
  BY <1>5, <1>6

\* The units are given their operands in the first cycle of the stall.
LEMMA CommandsInStall ==
  ASSUME InStep, RInv, Conforms, NEW interrupt \in BOOLEAN, Cycle(interrupt),
         InStall, stall_counter # 1, arch' = arch
  PROVE  CommandsGiven'
<1>1. /\ stall_counter \in Nat /\ stall_counter' = stall_counter - 1
      /\ stall_state' = stall_state /\ mde' = mde /\ ExecuteStage
  BY StallCycle
<1>2. /\ LongestStall' = LongestStall /\ IsMultiply' = IsMultiply
      /\ IsDivide' = IsDivide /\ TheInstr' = TheInstr
      /\ TheRb' = TheRb /\ TheRc' = TheRc
  BY <1>1, SameStall, SameArch
<1>3. SUFFICES ASSUME stall_state = "StMulDiv"
               PROVE  /\ IsMultiply => mul_in'.x = TheRb /\ mul_in'.y = TheRc
                      /\ IsDivide => /\ div_in'.num = TheRb /\ div_in'.denom = TheRc
                                     /\ div_in'.unsgn_or_sgn = (TheInstr.opcode = Sdiv_ThreeRegs)
  BY <1>1, <1>2 DEF CommandsGiven
<1>4. /\ mde.instr.group = 0 /\ mde.instr = TheInstr
  BY <1>3 DEF RInv, StallFitsInstr, InstrIsTheInstr, NoInstrStalls
<1>5. ~(IsMultiply /\ IsDivide)
  BY <1>4 DEF IsMultiply, IsDivide, Mul_ThreeRegs, Udiv_ThreeRegs, Sdiv_ThreeRegs
<1>6. LongestStall = IF IsMultiply THEN STALL_COUNTER_MULTIPLY_32 ELSE STALL_COUNTER_DIVIDE_32
  BY <1>3 DEF LongestStall, STALL_COUNTER_MULTIPLY_32
<1>7. CASE stall_counter = LongestStall
  <2>1. RbData = TheRb /\ RcData = TheRc
    BY <1>3, <1>7, StallOperands, OperandInvImplies
       DEF InStep, RInv, MemInv, NoInstrStalls
  <2>2. ASSUME IsMultiply PROVE mul_in'.x = TheRb /\ mul_in'.y = TheRc
    BY <1>1, <1>4, <1>5, <1>6, <1>7, <2>1, <2>2
       DEF ExecuteStage, ExecuteMultiply, ExecuteDivide, ExecuteOther
  <2>3. ASSUME IsDivide
        PROVE  /\ div_in'.num = TheRb /\ div_in'.denom = TheRc
               /\ div_in'.unsgn_or_sgn = (TheInstr.opcode = Sdiv_ThreeRegs)
    <3>1. div_in' = [enable |-> TRUE,
                     unsgn_or_sgn |-> mde.instr.opcode = Sdiv_ThreeRegs,
                     num |-> RbData, denom |-> RcData]
      BY <1>1, <1>5, <1>6, <1>7, <2>3
         DEF ExecuteStage, ExecuteMultiply, ExecuteDivide, ExecuteOther
    <3> QED
      BY <1>4, <2>1, <3>1
  <2> QED
    BY <2>2, <2>3
<1>8. CASE stall_counter # LongestStall
  <2>1. /\ IsMultiply => mul_in.x = TheRb /\ mul_in.y = TheRc
        /\ IsDivide => /\ div_in.num = TheRb /\ div_in.denom = TheRc
                       /\ div_in.unsgn_or_sgn = (TheInstr.opcode = Sdiv_ThreeRegs)
    BY <1>3, <1>8 DEF RInv, CommandsGiven
  <2>2. /\ mul_in \in [enable : BOOLEAN, x : Word, y : Word]
        /\ div_in \in [enable : BOOLEAN, unsgn_or_sgn : BOOLEAN,
                       num : Word, denom : Word]
    BY DEF InStep, TypeOK
  <2>3. IsMultiply => mul_in' = [mul_in EXCEPT !.enable = FALSE]
    BY <1>1, <1>5, <1>6, <1>8 DEF ExecuteStage, ExecuteMultiply, ExecuteDivide,
       ExecuteOther
  <2>4. IsDivide => div_in' = [div_in EXCEPT !.enable = FALSE]
    BY <1>1, <1>5, <1>6, <1>8 DEF ExecuteStage, ExecuteMultiply, ExecuteDivide,
       ExecuteOther
  <2> QED
    BY <2>1, <2>2, <2>3, <2>4
<1> QED
  BY <1>7, <1>8

\* A cycle in a stall keeps the invariant.
LEMMA RInvInStall ==
  ASSUME InStep, RInv, Conforms, NEW interrupt \in BOOLEAN, Cycle(interrupt),
         InStall, stall_counter # 1, arch' = arch
  PROVE  RInv'
<1>1. ArchTypeOK'
  BY DEF RInv, ArchTypeOK
<1>2. ArchIsView'
  <2>1. stall_counter \in Nat /\ stall_counter >= 1
        /\ stall_counter' = stall_counter - 1
    BY StallCycle
  <2> QED
    BY <2>1 DEF ArchIsView, InStall
<1> QED
  BY <1>1, <1>2, FitsInStall, RegistersInStall, SpecialsInStall, MemoryInStall,
     LatchedInStall, GoesOnInStall, CommandsInStall DEF RInv

(***************************************************************************)
(* The last cycle of a stall.                                              *)
(***************************************************************************)
\* The invariant at the edges that are not in a stall.
LEMMA RInvOutsideStall ==
  ASSUME InStep', ~InStall', arch' = View'
  PROVE  RInv'
<1>1. ArchTypeOK'
  <2>1. (TypeOK => View \in [regs : [Reg -> Word], pc : Word, ireta : Word,
                      idsta : Word, ie : BOOLEAN, mem : [Cell -> Word]])'
    BY ViewType, PTL
  <2> QED
    BY <2>1 DEF InStep, ArchTypeOK
<1>2. /\ ArchIsView' /\ StallFitsInstr' /\ InstrIsTheInstr' /\ RegistersKept'
      /\ SpecialsKept' /\ MemoryKept' /\ Latched' /\ CommandsGiven'
  BY DEF ArchIsView, StallFitsInstr, InstrIsTheInstr, RegistersKept,
     SpecialsKept, MemoryKept, Latched, CommandsGiven
<1>3. GoesOn'
  BY DEF GoesOn, InStall
<1> QED
  BY <1>1, <1>2, <1>3 DEF RInv

\* A bubble hands on nothing.
LEMMA BubbleHandsOn ==
  ASSUME TypeOK, mde' = Bubble
  PROVE  ExecuteResult'.index = 0
<1>1. mde \in [raw : Word, pc_val : Word, instr : DecodedInstr]
  BY DEF TypeOK
<1>2. mde'.instr.group = 0 /\ mde'.instr.opcode = 0 /\ mde'.instr.ra = 0
  BY <1>1 DEF Bubble, NoInstr
<1>3. ~IsMultiply' /\ ~IsDivide'
  BY <1>2 DEF IsMultiply, IsDivide, Mul_ThreeRegs, Udiv_ThreeRegs, Sdiv_ThreeRegs
<1> QED
  BY <1>2, <1>3 DEF ExecuteResult, ToRa

\* At the end of a stall the registers are those of before it, with the result
\* of the instruction written.
LEMMA RegistersAfterStall ==
  ASSUME InStep, RInv, Conforms, NEW interrupt \in BOOLEAN, Cycle(interrupt),
         stall_counter = 1
  PROVE  [r \in Reg |-> ViewOfRegister(r)']
           = Written(ExecuteResult.index, ExecuteResult.data)
<1> DEFINE idx == ExecuteResult.index
<1>1. InStall
  BY DEF InStall
<1>2. /\ mde' = Bubble /\ ExecuteStage /\ WriteBackStage
      /\ RegFileStep(write_port, Decoded.ra, Decoded.rb, Decoded.rc)
  BY <1>1, StallCycle
<1>3. ExecuteResult'.index = 0
  BY <1>2, BubbleHandsOn DEF InStep
<1>4. arch.regs \in [Reg -> Word] /\ ExecuteResult \in [index : Reg, data : Word]
      /\ idx \in Reg
  BY ExecuteResultType DEF RInv, ArchTypeOK, InStep
<1>5. HandedOn \subseteq {idx} \ {0}
  <2>1. CASE stall_state = "StMulDiv"
    BY <1>1, <2>1, StallHandsOnIndex DEF HandedOn
  <2>2. CASE stall_state = "StCtrlFlowJumpCall"
    BY <1>1, <2>2, StallHandsOnIndex DEF HandedOn, LR
  <2>3. CASE stall_state \notin {"StMulDiv", "StCtrlFlowJumpCall"}
    BY <2>3 DEF HandedOn
  <2> QED
    BY <2>1, <2>2, <2>3
<1>6. ASSUME NEW r \in Reg
      PROVE  ViewOfRegister(r)' = Written(idx, ExecuteResult.data)[r]
  <2>1. ViewOfRegister(r)' = ViewOfRegister(r)
    <3>1. Newest(r)' = ViewOfRegister(r)
      BY <1>2, NewestSteps DEF InStep
    <3>2. ViewOfRegister(r)' = Newest(r)'
      BY <1>3 DEF ViewOfRegister
    <3> QED
      BY <3>1, <3>2
  <2>2. r \notin HandedOn => Newest(r) = arch.regs[r]
    BY <1>1 DEF RInv, RegistersKept
  <2>3. CASE r # 0 /\ idx = r
    BY <1>4, <2>1, <2>3 DEF ViewOfRegister, Written
  <2>4. CASE ~(r # 0 /\ idx = r)
    BY <1>4, <1>5, <2>1, <2>2, <2>4 DEF ViewOfRegister, Written
  <2> QED
    BY <2>3, <2>4
<1>7. Written(idx, ExecuteResult.data) \in [Reg -> Word]
  BY <1>4 DEF Written
<1> HIDE DEF idx
<1> QED
  BY <1>6, <1>7 DEF idx

\* What the last cycle of a stall makes of the architectural state.
LEMMA LastCycle ==
  ASSUME InStep, RInv, Conforms, NEW interrupt \in BOOLEAN, Cycle(interrupt),
         stall_counter = 1, arch' = View'
  PROVE  /\ ~InStall'
         /\ arch'.regs = Written(ExecuteResult.index, ExecuteResult.data)
         /\ arch'.pc = Target
         /\ arch'.ireta = ireta /\ arch'.idsta = idsta /\ arch'.ie = ie
         /\ arch'.mem = mem
<1>1. InStall
  BY DEF InStall
<1>2. /\ stall_counter' = stall_counter - 1 /\ StallSpecialRegisters
      /\ FetchLastStallCycle /\ MemStep(bus)
  BY <1>1, StallCycle
<1>3. ~InStall'
  BY <1>2 DEF InStall
<1>4. ireta' = ireta /\ idsta' = idsta /\ ie' = ie
  BY <1>2 DEF StallSpecialRegisters
<1>5. pc_val' = Target
  BY <1>2 DEF FetchLastStallCycle, prep_load_following_instruction,
     prep_load_instruction, RInv, GoesOn
<1>6. mem' = mem
  BY <1>2 DEF InStep, FetchCoherence, MemStep
<1>7. View' = [regs |-> [r \in Reg |-> ViewOfRegister(r)'], pc |-> pc_val',
               ireta |-> ireta', idsta |-> idsta', ie |-> ie', mem |-> mem']
  BY DEF View
<1>8. /\ arch'.regs = [r \in Reg |-> ViewOfRegister(r)'] /\ arch'.pc = pc_val'
      /\ arch'.ireta = ireta' /\ arch'.idsta = idsta' /\ arch'.ie = ie'
      /\ arch'.mem = mem'
  BY <1>7
<1> QED
  BY <1>3, <1>4, <1>5, <1>6, <1>8, RegistersAfterStall

\* The result of a multiplication or division is the instruction set's.
LEMMA MulDivResult ==
  ASSUME InStep, RInv, Conforms, stall_counter = 1, stall_state = "StMulDiv"
  PROVE  /\ TheInstr.group = 0 /\ ExecuteResult.index = TheInstr.ra
         /\ ExecuteResult.data = InstrSet!ThreeRegisterResult
<1>1. /\ mde.instr.group = 0 /\ (IsMultiply \/ IsDivide)
      /\ mde.instr = TheInstr
  BY DEF RInv, StallFitsInstr, InStall, InstrIsTheInstr, NoInstrStalls
<1>2. stall_counter # LongestStall
  BY StallCounters DEF LongestStall
<1>3. /\ IsMultiply => mul_in.x = TheRb /\ mul_in.y = TheRc
      /\ IsDivide => /\ div_in.num = TheRb /\ div_in.denom = TheRc
                     /\ div_in.unsgn_or_sgn = (TheInstr.opcode = Sdiv_ThreeRegs)
  BY <1>2 DEF RInv, CommandsGiven, InStall
<1>4. CASE IsMultiply
  <2>1. TheInstr.opcode = Mul_ThreeRegs
    BY <1>1, <1>4 DEF IsMultiply
  <2>2. mul.prod = Trunc(TheRb * TheRc)
    BY <1>3, <1>4 DEF InStep, MultiplierInTime
  <2>3. ExecuteResult = ToRa(mul.prod)
    BY <1>1, <1>4, <2>1 DEF ExecuteResult, STALL_COUNTER_MULTIPLY_32, IsDivide,
       Mul_ThreeRegs, Udiv_ThreeRegs, Sdiv_ThreeRegs
  <2>4. InstrSet!ThreeRegisterResult = Trunc(TheRb * TheRc)
    BY <2>1, SameResults DEF Mul_ThreeRegs, Udiv_ThreeRegs, Sdiv_ThreeRegs
  <2> QED
    BY <1>1, <2>2, <2>3, <2>4 DEF ToRa
<1>5. CASE IsDivide
  <2>1. TheInstr.opcode \in {Udiv_ThreeRegs, Sdiv_ThreeRegs} /\ ~IsMultiply
    BY <1>1, <1>5 DEF IsDivide, IsMultiply, Mul_ThreeRegs, Udiv_ThreeRegs,
       Sdiv_ThreeRegs
  <2>2. div_in.denom # 0 => div.quot = Quotient
    BY <1>5 DEF InStep, DividerInTime
  <2>3. ExecuteResult = ToRa(IF div_in.denom = 0 THEN 0 ELSE div.quot)
    <3>1. stall_counter # STALL_COUNTER_DIVIDE_32 /\ mde.instr.group = 0
      BY <1>1, StallCounters
    <3>2. ExecuteResult = ToRa(IF stall_counter = STALL_COUNTER_DIVIDE_32
                                  \/ div_in.denom = 0 THEN 0 ELSE div.quot)
      BY <1>5, <2>1, <3>1 DEF ExecuteResult
    <3> QED
      BY <3>1, <3>2
  <2>4. (IF div_in.denom = 0 THEN 0 ELSE div.quot)
          = IF div_in.unsgn_or_sgn THEN InstrSet!SignedQuotient(TheRb, TheRc)
                                   ELSE InstrSet!UnsignedQuotient(TheRb, TheRc)
    BY <1>3, <1>5, <2>2, QuotientOfInstr DEF InStep
  <2>5. CASE TheInstr.opcode = Sdiv_ThreeRegs
    <3>1. InstrSet!ThreeRegisterResult = InstrSet!SignedQuotient(TheRb, TheRc)
      BY <2>5, SameResults DEF Mul_ThreeRegs, Udiv_ThreeRegs, Sdiv_ThreeRegs
    <3>2. div_in.unsgn_or_sgn
      BY <1>3, <1>5, <2>5
    <3> QED
      BY <1>1, <2>3, <2>4, <3>1, <3>2 DEF ToRa
  <2>6. CASE TheInstr.opcode = Udiv_ThreeRegs
    <3>1. InstrSet!ThreeRegisterResult = InstrSet!UnsignedQuotient(TheRb, TheRc)
      BY <2>6, SameResults DEF Mul_ThreeRegs, Udiv_ThreeRegs, Sdiv_ThreeRegs
    <3>2. ~div_in.unsgn_or_sgn
      <4>1. div_in.unsgn_or_sgn = (TheInstr.opcode = Sdiv_ThreeRegs)
        BY <1>3, <1>5
      <4>2. TheInstr.opcode # Sdiv_ThreeRegs
        BY <2>6 DEF Udiv_ThreeRegs, Sdiv_ThreeRegs
      <4> QED
        BY <4>1, <4>2
    <3> QED
      BY <1>1, <2>3, <2>4, <3>1, <3>2 DEF ToRa
  <2> QED
    BY <2>1, <2>5, <2>6
<1> QED
  BY <1>1, <1>4, <1>5

\* The stall ends with the whole instruction executed.
LEMMA StallIsInstr ==
  ASSUME InStep, RInv, Conforms, NEW interrupt \in BOOLEAN, Cycle(interrupt),
         stall_counter = 1, arch' = View'
  PROVE  InstrSet!Next \/ UNCHANGED InstrSet!vars
<1>0. InStall /\ Written(0, ExecuteResult.data) = arch.regs
  BY DEF InStall, Written
<1>1. /\ arch'.regs = Written(ExecuteResult.index, ExecuteResult.data)
      /\ arch'.pc = Target /\ arch'.ireta = ireta /\ arch'.idsta = idsta
      /\ arch'.ie = ie /\ arch'.mem = mem
  BY LastCycle
<1>2. StallFitsInstr /\ SpecialsKept /\ MemoryKept /\ InstrIsTheInstr
  BY DEF RInv
<1>3. stall_state \in StallState
  BY DEF InStep, TypeOK
<1>4. stall_state \notin {"StMemAccess"} => mem = arch.mem
  BY <1>0, <1>2 DEF MemoryKept, IsStore
<1>5. stall_state \notin {"StOtherInterruptsStuff", "StReti", "StRespondToInterrupt"}
        => ireta = arch.ireta /\ idsta = arch.idsta /\ ie = arch.ie
  BY <1>0, <1>2 DEF SpecialsKept, Finishes
<1>6. stall_state \notin NoInstrStalls => mde.instr = TheInstr
  BY <1>0, <1>2 DEF InstrIsTheInstr
<1>7. CASE stall_state = "StInit"
  <2>1. ExecuteResult.index = 0
    BY <1>0, <1>7, StallHandsOnIndex DEF NoInstrStalls
  <2>2. Target = arch.pc
    BY <1>7 DEF Target
  <2> QED
    BY <1>0, <1>1, <1>4, <1>5, <1>7, <2>1, <2>2 DEF InstrSet!vars
<1>8. CASE stall_state = "StRespondToInterrupt"
  <2>1. ExecuteResult.index = 0
    BY <1>0, <1>8, StallHandsOnIndex DEF NoInstrStalls
  <2>2. Target = arch.idsta
    BY <1>8 DEF Target
  <2>3. ireta = arch.pc /\ idsta = arch.idsta /\ ie = FALSE /\ arch.ie
    BY <1>0, <1>2, <1>8 DEF SpecialsKept, Finishes
  <2> QED
    BY <1>0, <1>1, <1>4, <1>8, <2>1, <2>2, <2>3, IsaInterrupt
<1>9. CASE stall_state = "StMulDiv"
  <2>1. Target = TheFollowing
    BY <1>9 DEF Target
  <2>2. /\ TheInstr.group = 0 /\ ExecuteResult.index = TheInstr.ra
        /\ ExecuteResult.data = InstrSet!ThreeRegisterResult
    BY <1>9, MulDivResult
  <2> QED
    BY <1>1, <1>4, <1>5, <1>9, <2>1, <2>2, IsaArithmetic DEF RestUnchanged
<1>10. CASE stall_state = "StCtrlFlowBranch"
  <2>1. ExecuteResult.index = 0
    BY <1>0, <1>10, StallHandsOnIndex
  <2>2. Target = IF TheCondition THEN Trunc(TheFollowing + SignExtHalf(TheInstr.imm))
                                 ELSE TheFollowing
    BY <1>10 DEF Target
  <2>3. TheInstr.group = 2
    BY <1>0, <1>2, <1>6, <1>10 DEF StallFitsInstr, NoInstrStalls
  <2> QED
    BY <1>0, <1>1, <1>4, <1>5, <1>10, <2>1, <2>2, <2>3, IsaBranch DEF RestUnchanged
<1>11. CASE stall_state = "StCtrlFlowJumpCall"
  <2>1. Target = IF TheCondition THEN TheRc ELSE TheFollowing
    BY <1>11 DEF Target
  <2>2. /\ mde.instr = TheInstr /\ TheInstr.group \in {3, 4}
        /\ TheInstr.condition_type < Bad0_Iog3
    BY <1>0, <1>2, <1>6, <1>11 DEF StallFitsInstr, NoInstrStalls
  <2>3. CASE TheInstr.group = 3
    <3>1. ExecuteResult.index = 0
      BY <1>0, <1>11, <2>2, <2>3, StallHandsOnIndex
    <3> QED
      BY <1>0, <1>1, <1>4, <1>5, <1>11, <2>1, <2>2, <2>3, <3>1, IsaJump
         DEF RestUnchanged
  <2>4. CASE TheInstr.group = 4
    <3>1. ExecuteResult = [index |-> IF TheCondition THEN LR ELSE 0,
                           data |-> TheFollowing]
      BY <1>0, <1>11, <2>2, <2>4, StallHandsOnIndex
    <3>2. arch'.regs = IF TheCondition THEN Written(LR, TheFollowing) ELSE arch.regs
      BY <1>0, <1>1, <3>1
    <3> QED
      BY <1>1, <1>4, <1>5, <1>11, <2>1, <2>2, <2>4, <3>2, IsaCall
         DEF RestUnchanged
  <2> QED
    BY <2>2, <2>3, <2>4
<1>12. CASE stall_state = "StMemAccess"
  <2>1. Target = TheFollowing
    BY <1>12 DEF Target
  <2>2. mde.instr = TheInstr /\ TheInstr.group = 5
    BY <1>0, <1>2, <1>6, <1>12 DEF StallFitsInstr, NoInstrStalls
  <2>3. ExecuteResult = IF TheInstr.ldst_type \in Loads
                        THEN ToRa(LoadedValue) ELSE Nothing
    BY <1>0, <1>12, <2>2, StallHandsOnIndex
  <2>4. CASE TheInstr.ldst_type \in Loads
    <3>1. ~IsStore
      BY <2>2, <2>4 DEF IsStore, Loads, Stores, Ld32, LdU16, LdS16, LdU8, LdS8,
         St32, St16, St8
    <3>2. in_data = arch.mem[CellOf(TheAddress)] /\ mem = arch.mem
      BY <1>0, <1>2, <1>12, <3>1 DEF MemoryKept
    <3>3. LoadedValue = Loaded(TheInstr.ldst_type, arch.mem[CellOf(TheAddress)])
      BY <2>2, <3>2 DEF LoadedValue, Loaded
    <3>4. ExecuteResult.index = TheInstr.ra /\ ExecuteResult.data = LoadedValue
      BY <2>2, <2>3, <2>4 DEF ToRa
    <3> QED
      BY <1>1, <1>5, <1>12, <2>1, <2>2, <2>4, <3>2, <3>3, <3>4, IsaLoad
         DEF RestUnchanged
  <2>5. CASE TheInstr.ldst_type \notin Loads
    <3>1. TheInstr.ldst_type \in Stores
      BY <2>2, <2>5, InstrTypes DEF InStep, Loads, Stores, Ld32, LdU16, LdS16,
         LdU8, LdS8, St32, St16, St8
    <3>2. mem = [arch.mem EXCEPT ![CellOf(TheAddress)] = TheRa]
      BY <1>0, <1>2, <1>12, <2>2, <3>1 DEF MemoryKept, IsStore
    <3>3. ExecuteResult.index = 0
      BY <2>3, <2>5 DEF Nothing, InStep, TypeOK
    <3> QED
      BY <1>0, <1>1, <1>5, <1>12, <2>1, <2>2, <3>1, <3>2, <3>3, IsaStore
         DEF RestUnchanged
  <2> QED
    BY <2>4, <2>5
<1>13. CASE stall_state = "StOtherInterruptsStuff"
  <2>1. ExecuteResult.index = 0
    BY <1>0, <1>13, StallHandsOnIndex
  <2>2. Target = TheFollowing
    BY <1>13 DEF Target
  <2>3. /\ TheInstr.group = 6 /\ mde.instr = TheInstr
        /\ TheInstr.opcode \in {Ei_NoArgs, Di_NoArgs, Cpy_OneIretaOneReg,
                                Cpy_OneIdstaOneReg}
    BY <1>0, <1>2, <1>6, <1>13 DEF StallFitsInstr, NoInstrStalls
  <2>4. \A opcode : Finishes(opcode) <=> TheInstr.opcode = opcode
    BY <1>13, <2>3 DEF Finishes
  <2>5. /\ ireta = IF TheInstr.opcode = Cpy_OneIretaOneReg THEN TheRa ELSE arch.ireta
        /\ idsta = IF TheInstr.opcode = Cpy_OneIdstaOneReg THEN TheRa ELSE arch.idsta
    BY <1>0, <1>2, <1>13, <2>4 DEF SpecialsKept
  <2>6. ie = CASE TheInstr.opcode = Ei_NoArgs -> TRUE
               [] TheInstr.opcode = Di_NoArgs -> FALSE
               [] OTHER -> arch.ie
    BY <1>0, <1>2, <1>13, <2>4 DEF SpecialsKept, Ei_NoArgs, Di_NoArgs
  <2>7. arch'.regs = CASE TheInstr.opcode = Cpy_OneRegOneIreta ->
                              Written(TheInstr.ra, arch.ireta)
                        [] TheInstr.opcode = Cpy_OneRegOneIdsta ->
                              Written(TheInstr.ra, arch.idsta)
                        [] OTHER -> arch.regs
    BY <1>0, <1>1, <2>1, <2>3 DEF Ei_NoArgs, Di_NoArgs, Cpy_OneIretaOneReg,
       Cpy_OneIdstaOneReg, Cpy_OneRegOneIreta, Cpy_OneRegOneIdsta
  <2>8. TheInstr.opcode # Reti_NoArgs
    BY <2>3 DEF Ei_NoArgs, Di_NoArgs, Cpy_OneIretaOneReg, Cpy_OneIdstaOneReg,
       Reti_NoArgs
  <2> QED
    BY <1>1, <1>4, <1>13, <2>2, <2>3, <2>5, <2>6, <2>7, <2>8, IsaInterruptsStuff
<1>14. CASE stall_state = "StReti"
  <2>1. ExecuteResult.index = 0
    BY <1>0, <1>14, StallHandsOnIndex
  <2>2. Target = arch.ireta
    BY <1>14 DEF Target
  <2>3. ireta = arch.ireta /\ idsta = arch.idsta /\ ie = TRUE
    BY <1>0, <1>2, <1>14 DEF SpecialsKept, Finishes
  <2>4. TheInstr.group = 6 /\ TheInstr.opcode = Reti_NoArgs
    BY <1>0, <1>2, <1>6, <1>14 DEF StallFitsInstr, NoInstrStalls
  <2> QED
    BY <1>0, <1>1, <1>4, <1>14, <2>1, <2>2, <2>3, <2>4, IsaReti
<1> QED
  BY <1>3, <1>7, <1>8, <1>9, <1>10, <1>11, <1>12, <1>13, <1>14 DEF StallState

(***************************************************************************)
(* An edge outside of a stall.                                             *)
(***************************************************************************)
\* Outside of a stall the decoder shows the instruction at the architectural pc,
\* and every register is about to have its architectural value.
LEMMA InstrInDecode ==
  ASSUME InStep, RInv, ~InStall
  PROVE  /\ Decoded = TheInstr /\ Decoded = DecodeWord(in_data)
         /\ pc_val = arch.pc /\ pc = TheFollowing
         /\ mem = arch.mem /\ ireta = arch.ireta /\ idsta = arch.idsta
         /\ ie = arch.ie
         /\ \A r \in Reg : ViewOfRegister(r) = arch.regs[r]
<1>1. arch = View
  BY DEF RInv, ArchIsView
<1>2. /\ pc_val = arch.pc /\ mem = arch.mem /\ ireta = arch.ireta
      /\ idsta = arch.idsta /\ ie = arch.ie
      /\ arch.regs = [r \in Reg |-> ViewOfRegister(r)]
  BY <1>1 DEF View
<1>3. in_data = mem[CellOf(pc_val)] /\ pc = Trunc(pc_val + 4)
  BY DEF InStep, FetchCoherence
<1>4. Decoded = TheInstr /\ Decoded = DecodeWord(in_data)
  BY <1>2, <1>3 DEF Decoded, TheInstr
<1> QED
  BY <1>2, <1>3, <1>4 DEF TheFollowing

\* A cycle outside of a stall.
LEMMA InstrCycle ==
  ASSUME InStep, RInv, NEW interrupt \in BOOLEAN, Cycle(interrupt), ~InStall
  PROVE  /\ mem' = arch.mem
         /\ \A r \in Reg : Newest(r)' = arch.regs[r]
         /\ \/ DecodeSendsThrough(interrupt) /\ FetchNext(interrupt)
            \/ DecodeStalls(interrupt)
            \/ DecodeRespondsToInterrupt(interrupt)
<1>1. /\ FetchStage(interrupt) /\ DecodeStage(interrupt)
      /\ ExecuteStage /\ WriteBackStage /\ MemStep(bus)
      /\ RegFileStep(write_port, Decoded.ra, Decoded.rb, Decoded.rc)
  BY DEF Cycle
<1>2. mem' = arch.mem
  BY <1>1, InstrInDecode DEF InStep, FetchCoherence, InStall, MemStep
<1>3. \A r \in Reg : Newest(r)' = arch.regs[r]
  BY <1>1, NewestSteps, InstrInDecode DEF InStep
<1>4. stall_counter = 0
  BY DEF InStall
<1>5. FetchNext(interrupt) \/ FetchHolds(interrupt)
  BY <1>1, <1>4 DEF FetchStage, FetchMemAccess, FetchLatchComparisons,
     FetchAfterStall, FetchLastStallCycle, FetchWaits
<1>6. \/ DecodeSendsThrough(interrupt) /\ FetchNext(interrupt)
      \/ DecodeStalls(interrupt)
      \/ DecodeRespondsToInterrupt(interrupt)
  BY <1>1, <1>5 DEF DecodeStage, DecodeInStall, DecodeSendsThrough, FetchHolds
<1> QED
  BY <1>2, <1>3, <1>6

(***************************************************************************)
(* An instruction that does not stall.                                     *)
(***************************************************************************)
\* What the edge makes of an instruction that does not stall.
LEMMA NoStall ==
  ASSUME InStep, InStep', RInv, NEW interrupt \in BOOLEAN, Cycle(interrupt),
         ~InStall, DecodeSendsThrough(interrupt), FetchNext(interrupt),
         arch' = View'
  PROVE  /\ ~InStall' /\ mde'.instr = TheInstr /\ mde'.pc_val = arch.pc
         /\ special'.ireta = arch.ireta /\ special'.idsta = arch.idsta
         /\ RaData' = TheRa /\ RbData' = TheRb /\ RcData' = TheRc
         /\ ~TheInstr.causes_stall
         /\ arch'.regs = Written(ExecuteResult'.index, ExecuteResult'.data)
         /\ arch'.pc = TheFollowing /\ RestUnchanged /\ arch'.mem = arch.mem
<1>1. /\ Decoded = TheInstr /\ pc_val = arch.pc /\ pc = TheFollowing
      /\ ireta = arch.ireta /\ idsta = arch.idsta /\ ie = arch.ie
  BY InstrInDecode
<1>2. mem' = arch.mem /\ \A r \in Reg : Newest(r)' = arch.regs[r]
  BY InstrCycle
<1>3. /\ mde' = [raw |-> in_data, pc_val |-> pc_val, instr |-> Decoded]
      /\ special' = [ireta |-> ireta, idsta |-> idsta]
      /\ stall_counter' = stall_counter /\ ireta' = ireta /\ idsta' = idsta
      /\ ie' = ie /\ ~Decoded.causes_stall
  BY DEF DecodeSendsThrough, send_instr_through
<1>4. pc_val' = pc
  BY DEF FetchNext, prep_load_following_instruction, prep_load_instruction
<1>5. RaData' = TheRa /\ RbData' = TheRb /\ RcData' = TheRc
  <2>1. (OperandInv => OperandsAreNewest)'
    BY OperandInvImplies, PTL
  <2>2. /\ RaData' = Newest(mde.instr.ra)' /\ RbData' = Newest(mde.instr.rb)'
        /\ RcData' = Newest(mde.instr.rc)'
    BY <2>1 DEF InStep, MemInv, OperandsAreNewest
  <2>3. mde'.instr = TheInstr
    BY <1>1, <1>3
  <2>4. TheInstr.ra \in Reg /\ TheInstr.rb \in Reg /\ TheInstr.rc \in Reg
    BY TheTypes DEF RInv
  <2>5. /\ Newest(mde.instr.ra)' = arch.regs[TheInstr.ra]
        /\ Newest(mde.instr.rb)' = arch.regs[TheInstr.rb]
        /\ Newest(mde.instr.rc)' = arch.regs[TheInstr.rc]
    <3>1. ASSUME NEW r \in Reg
          PROVE  /\ mde'.instr.ra = r => Newest(mde.instr.ra)' = arch.regs[r]
                 /\ mde'.instr.rb = r => Newest(mde.instr.rb)' = arch.regs[r]
                 /\ mde'.instr.rc = r => Newest(mde.instr.rc)' = arch.regs[r]
      BY <1>2 DEF Newest
    <3> QED
      BY <2>3, <2>4, <3>1
  <2> QED
    BY <2>2, <2>5 DEF TheRa, TheRb, TheRc
<1>6. View' = [regs |-> [r \in Reg |-> ViewOfRegister(r)'], pc |-> pc_val',
               ireta |-> ireta', idsta |-> idsta', ie |-> ie', mem |-> mem']
  BY DEF View
<1>7. /\ arch'.regs = [r \in Reg |-> ViewOfRegister(r)'] /\ arch'.pc = pc_val'
      /\ arch'.ireta = ireta' /\ arch'.idsta = idsta' /\ arch'.ie = ie'
      /\ arch'.mem = mem'
  BY <1>6
<1>8. [r \in Reg |-> ViewOfRegister(r)']
        = Written(ExecuteResult'.index, ExecuteResult'.data)
  <2>1. (TypeOK => ExecuteResult \in [index : Reg, data : Word])'
    BY ExecuteResultType, PTL
  <2>2. ExecuteResult'.index \in Reg /\ ExecuteResult'.data \in Word
        /\ arch.regs \in [Reg -> Word]
    BY <2>1 DEF InStep, RInv, ArchTypeOK
  <2>3. \A r \in Reg : ViewOfRegister(r)'
          = IF r # 0 /\ ExecuteResult'.index = r THEN ExecuteResult'.data
                                                 ELSE arch.regs[r]
    BY <1>2 DEF ViewOfRegister
  <2> DEFINE idx == ExecuteResult'.index
             data == ExecuteResult'.data
  <2>4. Written(idx, data) \in [Reg -> Word]
    BY <2>2 DEF Written
  <2>5. \A r \in Reg : Written(idx, data)[r]
          = IF r # 0 /\ idx = r THEN data ELSE arch.regs[r]
    BY <2>2 DEF Written
  <2> HIDE DEF idx, data
  <2> QED
    BY <2>3, <2>4, <2>5 DEF idx, data
<1> QED
  BY <1>1, <1>2, <1>3, <1>4, <1>5, <1>7, <1>8 DEF InStall, RestUnchanged

\* It is executed in one step of the instruction set.
LEMMA NoStallIsInstr ==
  ASSUME InStep, InStep', RInv, Conforms', NEW interrupt \in BOOLEAN,
         Cycle(interrupt), ~InStall, DecodeSendsThrough(interrupt),
         FetchNext(interrupt), arch' = View'
  PROVE  InstrSet!Next
<1> DEFINE idx  == ExecuteResult'.index
           data == ExecuteResult'.data
<1>1. /\ mde'.instr = TheInstr /\ mde'.pc_val = arch.pc
      /\ special'.ireta = arch.ireta /\ special'.idsta = arch.idsta
      /\ RaData' = TheRa /\ RbData' = TheRb /\ RcData' = TheRc
      /\ ~TheInstr.causes_stall /\ arch'.regs = Written(idx, data)
      /\ arch'.pc = TheFollowing /\ RestUnchanged /\ arch'.mem = arch.mem
  BY NoStall
<1>2. /\ TheInstr.group \in 0 .. 6 /\ TheInstr.opcode \in Opcode
      /\ TheInstr.condition_type \in Opcode
  BY TheTypes DEF RInv
<1>3. /\ TheInstr.group = 0 =>
           TheInstr.opcode \notin {Mul_ThreeRegs, Udiv_ThreeRegs, Sdiv_ThreeRegs}
      /\ TheInstr.group = 1 => TheInstr.opcode # Muli_TwoRegsOneImm
      /\ TheInstr.group = 2 => ~(TheInstr.condition_type < Bad2_Iog2)
      /\ TheInstr.group \in {3, 4} => ~(TheInstr.condition_type < Bad0_Iog3)
      /\ TheInstr.group # 5
      /\ TheInstr.group = 6 =>
           TheInstr.opcode \notin {Ei_NoArgs, Di_NoArgs, Cpy_OneIretaOneReg,
                                   Cpy_OneIdstaOneReg, Reti_NoArgs}
  <2>1. arch.mem[CellOf(arch.pc)] \in Word
    BY TheTypes DEF RInv
  <2> QED
    BY <1>1, <2>1, StallingInstrs DEF TheInstr
<1>4. ~IsMultiply' /\ ~IsDivide'
  BY <1>1, <1>3 DEF IsMultiply, IsDivide
<1>5. Nothing'.index = 0 /\ Written(0, data) = arch.regs
  <2>1. fwd0' \in [index : Reg, data : Word]
    BY DEF InStep, TypeOK
  <2> QED
    BY <2>1 DEF Nothing, Written
<1> HIDE DEF idx, data
<1>6. CASE TheInstr.group = 0
  <2>1. idx = TheInstr.ra /\ data = Alu(TheInstr.opcode, TheRb, TheRc)
    BY <1>1, <1>4, <1>6 DEF ExecuteResult, ToRa, idx, data
  <2>2. InstrSet!ThreeRegisterResult = Alu(TheInstr.opcode, TheRb, TheRc)
    BY <1>3, <1>6, SameResults
  <2> QED
    BY <1>1, <1>6, <2>1, <2>2, IsaArithmetic
<1>7. CASE TheInstr.group = 1
  <2>1. idx = TheInstr.ra /\ data = ImmediateResult'
    BY <1>1, <1>4, <1>7 DEF ExecuteResult, ToRa, idx, data
  <2>2. ImmediateResult' = InstrSet!ImmediateResult
    BY <1>1, <1>3, <1>7, SameResults DEF ImmediateResult, Cpyhi_OneRegOneImm,
       Addsi_OneRegOnePcOneSimm, Sltsi_TwoRegsOneSimm, Sgtsi_TwoRegsOneSimm
  <2> QED
    BY <1>1, <1>7, <2>1, <2>2, IsaArithmetic
<1>8. CASE TheInstr.group = 2
  <2>1. idx = 0
    BY <1>1, <1>4, <1>5, <1>8 DEF ExecuteResult, idx
  <2>2. ~TheCondition
    BY <1>2, <1>3, <1>8 DEF TheCondition, Opcode, Bad2_Iog2,
       CtNe, CtEq, CtLtu, CtGeu, CtLeu, CtGtu, CtLts, CtGes, CtLes, CtGts,
       CtIntsEnabled, CtIntsDisabled
  <2> QED
    BY <1>1, <1>5, <1>8, <2>1, <2>2, IsaBranch
<1>9. CASE TheInstr.group = 3
  <2>1. idx = 0
    BY <1>1, <1>4, <1>5, <1>9 DEF ExecuteResult, idx
  <2> QED
    BY <1>1, <1>3, <1>5, <1>9, <2>1, IsaJump
<1>10. CASE TheInstr.group = 4
  <2>1. idx = 0
    BY <1>1, <1>2, <1>3, <1>4, <1>5, <1>10
       DEF ExecuteResult, idx, Bad0_Iog3, CtGts, Opcode
  <2> QED
    BY <1>1, <1>3, <1>5, <1>10, <2>1, IsaCall
<1>11. CASE TheInstr.group = 6
  <2>1. ExecuteResult' = CASE TheInstr.opcode = Cpy_OneRegOneIreta ->
                                [index |-> TheInstr.ra, data |-> arch.ireta]
                           [] TheInstr.opcode = Cpy_OneRegOneIdsta ->
                                [index |-> TheInstr.ra, data |-> arch.idsta]
                           [] OTHER -> Nothing'
    BY <1>1, <1>4, <1>11 DEF ExecuteResult, ToRa, Cpy_OneRegOneIreta,
       Cpy_OneRegOneIdsta
  <2>2. arch'.regs = CASE TheInstr.opcode = Cpy_OneRegOneIreta ->
                            Written(TheInstr.ra, arch.ireta)
                       [] TheInstr.opcode = Cpy_OneRegOneIdsta ->
                            Written(TheInstr.ra, arch.idsta)
                       [] OTHER -> arch.regs
    BY <1>1, <1>5, <2>1 DEF idx, data, Cpy_OneRegOneIreta, Cpy_OneRegOneIdsta
  <2>3. /\ TheInstr.opcode \notin {Ei_NoArgs, Di_NoArgs}
        /\ TheInstr.opcode # Cpy_OneIretaOneReg
        /\ TheInstr.opcode # Cpy_OneIdstaOneReg
        /\ TheInstr.opcode # Reti_NoArgs
    BY <1>3, <1>11
  <2>4. /\ arch'.ie = (CASE TheInstr.opcode = Ei_NoArgs -> TRUE
                        [] TheInstr.opcode = Di_NoArgs -> FALSE
                        [] OTHER -> arch.ie)
        /\ arch'.ireta = IF TheInstr.opcode = Cpy_OneIretaOneReg THEN TheRa
                         ELSE arch.ireta
        /\ arch'.idsta = IF TheInstr.opcode = Cpy_OneIdstaOneReg THEN TheRa
                         ELSE arch.idsta
    BY <1>1, <2>3 DEF RestUnchanged
  <2> QED
    BY <1>1, <1>11, <2>2, <2>3, <2>4, IsaInterruptsStuff
<1> QED
  BY <1>2, <1>3, <1>6, <1>7, <1>8, <1>9, <1>10, <1>11

(***************************************************************************)
(* An instruction that stalls, and the response to an interrupt.           *)
(***************************************************************************)
\* Nothing of an instruction is done when its stall begins.
LEMMA StallBegins ==
  ASSUME InStep, RInv, NEW interrupt \in BOOLEAN, Cycle(interrupt), ~InStall,
         DecodeStalls(interrupt)
  PROVE  /\ stall_counter' = StallStart.counter /\ stall_state' = StallStart.state
         /\ stall_counter' >= 2
         /\ mde'.raw = in_data /\ mde'.pc_val = arch.pc
         /\ mde'.instr = TheInstr /\ mde'.instr = DecodeWord(mde'.raw)
         /\ Decoded = TheInstr /\ TheInstr.causes_stall
         /\ ireta' = arch.ireta /\ idsta' = arch.idsta /\ ie' = arch.ie
         /\ mem' = arch.mem /\ \A r \in Reg : Newest(r)' = arch.regs[r]
<1>1. /\ Decoded = TheInstr /\ Decoded = DecodeWord(in_data)
      /\ pc_val = arch.pc /\ ireta = arch.ireta /\ idsta = arch.idsta
      /\ ie = arch.ie
  BY InstrInDecode
<1>2. mem' = arch.mem /\ \A r \in Reg : Newest(r)' = arch.regs[r]
  BY InstrCycle
<1>3. /\ mde' = [raw |-> in_data, pc_val |-> pc_val, instr |-> Decoded]
      /\ ireta' = ireta /\ idsta' = idsta /\ ie' = ie
      /\ stall_counter' = StallStart.counter /\ stall_state' = StallStart.state
      /\ Decoded.causes_stall
  BY StallStartTypes DEF DecodeStalls, send_instr_through, InStep
<1>4. StallStart.counter >= 2
  BY StallStartTypes, StallCounters DEF InStep
<1> QED
  BY <1>1, <1>2, <1>3, <1>4

\* The stall an instruction starts is the one that fits it.
LEMMA StallFits ==
  ASSUME InStep, RInv, Conforms', NEW interrupt \in BOOLEAN, Cycle(interrupt),
         ~InStall, DecodeStalls(interrupt)
  PROVE  /\ StallFitsInstr'
         /\ stall_state' \notin NoInstrStalls
         /\ stall_counter' = LongestStall'
<1>1. /\ stall_counter' = StallStart.counter /\ stall_state' = StallStart.state
      /\ mde'.instr = TheInstr /\ Decoded = TheInstr /\ TheInstr.causes_stall
  BY StallBegins
<1>2. /\ TheInstr.group \in 0 .. 6 /\ TheInstr.opcode \in Opcode
      /\ TheInstr.condition_type \in Opcode
  BY TheTypes DEF RInv
<1>3. /\ TheInstr.group = 0 =>
           TheInstr.opcode \in {Mul_ThreeRegs, Udiv_ThreeRegs, Sdiv_ThreeRegs}
      /\ TheInstr.group = 1 => TheInstr.opcode = Muli_TwoRegsOneImm
      /\ TheInstr.group = 2 => TheInstr.condition_type < Bad2_Iog2
      /\ TheInstr.group \in {3, 4} => TheInstr.condition_type < Bad0_Iog3
      /\ TheInstr.group = 6 =>
           TheInstr.opcode \in {Ei_NoArgs, Di_NoArgs, Cpy_OneIretaOneReg,
                                Cpy_OneIdstaOneReg, Reti_NoArgs}
  <2>1. arch.mem[CellOf(arch.pc)] \in Word
    BY TheTypes DEF RInv
  <2> QED
    BY <1>1, <2>1, StallingInstrs DEF TheInstr
<1>4. TheInstr.group # 1
  BY <1>1, <1>3 DEF Conforms, Conforming
<1>5. IsSigned' <=> TheInstr.condition_type \in SignedConditions
  BY <1>1 DEF IsSigned
<1>6. STALL_COUNTER_DIVIDE_32 \in Nat /\ STALL_COUNTER_DIVIDE_32 >= 7
  BY StallCounters
<1>7. SUFFICES /\ stall_counter' = LongestStall' /\ LongestStall' \in Nat
               /\ LongestStall' >= 1 /\ StallFitsInstr'
               /\ stall_state' \notin NoInstrStalls
  BY DEF StallFitsInstr
<1>8. CASE TheInstr.group = 0
  <2>1. stall_state' = "StMulDiv"
        /\ stall_counter' = IF TheInstr.opcode = Mul_ThreeRegs THEN 5
                            ELSE STALL_COUNTER_DIVIDE_32
    BY <1>1, <1>8 DEF StallStart, STALL_COUNTER_MULTIPLY_32
  <2>2. (IsMultiply' <=> TheInstr.opcode = Mul_ThreeRegs) /\ (IsMultiply' \/ IsDivide')
    BY <1>1, <1>3, <1>8 DEF IsMultiply, IsDivide
  <2>3. stall_counter' = LongestStall'
    BY <2>1, <2>2 DEF LongestStall
  <2> QED
    BY <1>1, <1>6, <1>8, <2>1, <2>2, <2>3 DEF StallFitsInstr, NoInstrStalls
<1>9. CASE TheInstr.group = 2
  <2>1. /\ stall_state' = "StCtrlFlowBranch"
        /\ stall_counter' = IF IsSigned' THEN 3 ELSE 2
    BY <1>1, <1>5, <1>9 DEF StallStart, STALL_COUNTER_REL_BRANCH_SIGNED,
       STALL_COUNTER_REL_BRANCH_UNSIGNED
  <2>2. stall_counter' = LongestStall'
    BY <2>1 DEF LongestStall
  <2> QED
    BY <1>1, <1>3, <1>9, <2>1, <2>2 DEF StallFitsInstr, NoInstrStalls
<1>10. CASE TheInstr.group \in {3, 4}
  <2>1. /\ stall_state' = "StCtrlFlowJumpCall"
        /\ stall_counter' = IF IsSigned' THEN 4 ELSE 3
    BY <1>1, <1>5, <1>10 DEF StallStart, STALL_COUNTER_JUMP_CALL_SIGNED,
       STALL_COUNTER_JUMP_CALL_UNSIGNED
  <2>2. stall_counter' = LongestStall'
    BY <2>1 DEF LongestStall
  <2> QED
    BY <1>1, <1>3, <1>10, <2>1, <2>2 DEF StallFitsInstr, NoInstrStalls
<1>11. CASE TheInstr.group = 5
  <2>1. stall_state' = "StMemAccess" /\ stall_counter' = 3
    BY <1>1, <1>11 DEF StallStart, STALL_COUNTER_MEM_ACCESS
  <2>2. stall_counter' = LongestStall'
    BY <2>1 DEF LongestStall
  <2> QED
    BY <1>1, <1>11, <2>1, <2>2 DEF StallFitsInstr, NoInstrStalls
<1>12. CASE TheInstr.group = 6
  <2>1. /\ stall_counter' = 2
        /\ stall_state' = IF TheInstr.opcode # Reti_NoArgs
                          THEN "StOtherInterruptsStuff" ELSE "StReti"
    BY <1>1, <1>12 DEF StallStart, STALL_COUNTER_INTERRUPTS_STUFF,
       STALL_COUNTER_RETI
  <2>2. stall_counter' = LongestStall'
    BY <2>1 DEF LongestStall
  <2> QED
    BY <1>1, <1>3, <1>12, <2>1, <2>2 DEF StallFitsInstr, NoInstrStalls,
       Reti_NoArgs, Ei_NoArgs, Di_NoArgs, Cpy_OneIretaOneReg, Cpy_OneIdstaOneReg
<1> QED
  BY <1>2, <1>4, <1>8, <1>9, <1>10, <1>11, <1>12

\* The invariant at the beginning of an instruction's stall.
LEMMA RInvAtStall ==
  ASSUME InStep, RInv, Conforms', NEW interrupt \in BOOLEAN, Cycle(interrupt),
         ~InStall, DecodeStalls(interrupt), arch' = arch
  PROVE  RInv'
<1>1. /\ stall_counter' >= 2
      /\ mde'.pc_val = arch.pc
      /\ mde'.instr = TheInstr /\ mde'.instr = DecodeWord(mde'.raw)
      /\ ireta' = arch.ireta /\ idsta' = arch.idsta /\ ie' = arch.ie
      /\ mem' = arch.mem /\ \A r \in Reg : Newest(r)' = arch.regs[r]
  BY StallBegins
<1>2. /\ StallFitsInstr' /\ stall_state' \notin NoInstrStalls
      /\ stall_counter' = LongestStall'
  BY StallFits
<1>3. stall_counter' # 1 /\ InStall'
  BY <1>1 DEF InStall
<1>4. ArchTypeOK' /\ ArchIsView' /\ GoesOn'
  BY <1>3 DEF RInv, ArchTypeOK, ArchIsView, GoesOn
<1>5. InstrIsTheInstr'
  BY <1>1, SameArch DEF InstrIsTheInstr
<1>6. RegistersKept'
  BY <1>1 DEF RegistersKept
<1>7. SpecialsKept'
  <2>1. \A opcode : ~Finishes(opcode)'
    BY <1>3 DEF Finishes
  <2>2. stall_state' # "StRespondToInterrupt"
    BY <1>2 DEF NoInstrStalls
  <2> QED
    BY <1>1, <1>3, <2>1, <2>2 DEF SpecialsKept
<1>8. MemoryKept'
  <2>1. stall_state' = "StMemAccess" => stall_counter' = 3
    BY <1>2 DEF LongestStall
  <2> QED
    BY <1>1, <1>3, <2>1 DEF MemoryKept
<1>9. Latched'
  <2>1. stall_state' \in {"StCtrlFlowBranch", "StCtrlFlowJumpCall"} /\ IsSigned'
          => stall_counter' \in {3, 4}
    BY <1>2 DEF LongestStall
  <2> QED
    BY <2>1 DEF Latched
<1>10. CommandsGiven'
  BY <1>2 DEF CommandsGiven
<1> QED
  BY <1>2, <1>4, <1>5, <1>6, <1>7, <1>8, <1>9, <1>10 DEF RInv

\* The invariant at the beginning of the response to an interrupt, whose ireta is
\* already written.
LEMMA RInvAtInterrupt ==
  ASSUME InStep, RInv, NEW interrupt \in BOOLEAN, Cycle(interrupt),
         ~InStall, DecodeRespondsToInterrupt(interrupt), arch' = arch
  PROVE  RInv'
<1>1. /\ stall_counter' = 2 /\ stall_state' = "StRespondToInterrupt"
      /\ mde' = Bubble /\ ireta' = arch.pc /\ idsta' = arch.idsta
      /\ ie' = arch.ie /\ arch.ie
      /\ mem' = arch.mem /\ \A r \in Reg : Newest(r)' = arch.regs[r]
  BY InstrInDecode, InstrCycle DEF DecodeRespondsToInterrupt,
     ShouldServiceInterrupt, STALL_COUNTER_RESPOND_TO_INTERRUPTS
<1>2. mde'.instr.group = 0 /\ mde'.instr.opcode = 0 /\ mde'.instr.ra = 0
  <2>1. mde \in [raw : Word, pc_val : Word, instr : DecodedInstr]
    BY DEF InStep, TypeOK
  <2> QED
    BY <1>1, <2>1 DEF Bubble, NoInstr
<1>3. LongestStall' = 2
  BY <1>1 DEF LongestStall
<1>4. StallFitsInstr'
  BY <1>1, <1>2, <1>3 DEF StallFitsInstr
<1>5. ArchTypeOK' /\ ArchIsView' /\ GoesOn' /\ InstrIsTheInstr' /\ Latched'
        /\ CommandsGiven'
  BY <1>1 DEF RInv, ArchTypeOK, ArchIsView, GoesOn, InStall, InstrIsTheInstr,
     NoInstrStalls, Latched, CommandsGiven
<1>6. RegistersKept'
  BY <1>1 DEF RegistersKept
<1>7. SpecialsKept'
  <2>1. \A opcode : ~Finishes(opcode)'
    BY <1>1 DEF Finishes
  <2> QED
    BY <1>1, <2>1 DEF SpecialsKept
<1>8. MemoryKept'
  BY <1>1 DEF MemoryKept
<1> QED
  BY <1>4, <1>5, <1>6, <1>7, <1>8 DEF RInv

(***************************************************************************)
(* Every step.                                                             *)
(***************************************************************************)
\* A step that changes nothing keeps the invariant.
LEMMA RInvStutters ==
  ASSUME RInv, UNCHANGED rvars
  PROVE  RInv'
<1>1. UNCHANGED vars /\ arch' = arch
  BY DEF rvars
<1>2. /\ stall_counter' = stall_counter /\ stall_state' = stall_state
      /\ mde' = mde /\ InStall' = InStall
      /\ ireta' = ireta /\ idsta' = idsta /\ ie' = ie /\ cond' = cond
      /\ mem' = mem /\ in_data' = in_data /\ bus' = bus /\ pc' = pc
      /\ mul_in' = mul_in /\ div_in' = div_in
  BY <1>1 DEF vars, StageVars, MemVars, InStall
<1>3. /\ LongestStall' = LongestStall /\ IsSigned' = IsSigned
      /\ IsStore' = IsStore /\ IsMultiply' = IsMultiply /\ IsDivide' = IsDivide
      /\ Target' = Target
  BY <1>1, <1>2, SameStall
<1>4. /\ TheInstr' = TheInstr /\ TheRa' = TheRa /\ TheRb' = TheRb
      /\ TheRc' = TheRc /\ TheAddress' = TheAddress
      /\ TheCompare' = TheCompare /\ TheCondition' = TheCondition
  BY <1>1, SameArch
<1>5. \A r : Newest(r)' = Newest(r)
  BY <1>1 DEF vars, StageVars, RegFileVars, Newest
<1>6. ExecuteResult' = ExecuteResult
  BY <1>1 DEF vars, StageVars, RegFileVars, MemVars, ExecuteResult, ToRa,
     Nothing, ImmediateResult, LoadedValue, CallCondition, FollowingPcExecute,
     RaData, RbData, RcData, Forward, IsMultiply, IsDivide
<1>7. ArchTypeOK' /\ ArchIsView'
  <2>1. \A r : ViewOfRegister(r)' = ViewOfRegister(r)
    BY <1>5, <1>6 DEF ViewOfRegister
  <2>2. View' = View
    BY <1>1, <2>1 DEF View, vars, StageVars, MemVars
  <2> QED
    BY <1>1, <1>2, <2>2 DEF RInv, ArchTypeOK, ArchIsView
<1>8. StallFitsInstr' /\ InstrIsTheInstr'
  BY <1>1, <1>2, <1>3, <1>4 DEF RInv, StallFitsInstr, InstrIsTheInstr
<1>9. RegistersKept'
  <2>1. HandedOn' = HandedOn
    BY <1>2, <1>3, <1>4 DEF HandedOn
  <2> QED
    BY <1>1, <1>2, <1>5, <2>1 DEF RInv, RegistersKept
<1>10. SpecialsKept'
  <2>1. \A opcode : Finishes(opcode)' <=> Finishes(opcode)
    BY <1>2 DEF Finishes
  <2> QED
    BY <1>1, <1>2, <1>4, <2>1 DEF RInv, SpecialsKept
<1>11. MemoryKept'
  BY <1>1, <1>2, <1>3, <1>4 DEF RInv, MemoryKept, CellOf, WriteEnable
<1>12. Latched' /\ GoesOn' /\ CommandsGiven'
  BY <1>1, <1>2, <1>3, <1>4 DEF RInv, Latched, GoesOn, CommandsGiven
<1> QED
  BY <1>7, <1>8, <1>9, <1>10, <1>11, <1>12 DEF RInv

\* Each edge is an instruction, an interrupt or a stutter: a stutter in a stall and
\* at its beginning, and the whole instruction at its end or if it has none.
LEMMA StepImplements ==
  ASSUME InStep, InStep', RInv, Conforms, Conforms', [RNext]_rvars
  PROVE  RInv' /\ (InstrSet!Next \/ UNCHANGED InstrSet!vars)
<1>1. CASE UNCHANGED rvars
  <2>1. UNCHANGED InstrSet!vars
    BY <1>1 DEF rvars, InstrSet!vars
  <2>2. RInv'
    BY <1>1, RInvStutters
  <2> QED
    BY <2>1, <2>2
<1>2. CASE RNext
  <2>1. PICK interrupt \in BOOLEAN : Cycle(interrupt)
    BY <1>2 DEF RNext, Next
  <2>2. arch' = IF InStall' THEN arch ELSE View'
    BY <1>2 DEF RNext
  <2>3. CASE InStall /\ stall_counter # 1
    <3>1. InStall'
      BY <2>1, <2>3, StallCycle DEF InStall
    <3>2. arch' = arch
      BY <2>2, <3>1
    <3> QED
      BY <2>1, <2>3, <3>2, RInvInStall DEF InstrSet!vars
  <2>4. CASE stall_counter = 1
    <3>1. ~InStall'
      BY <2>1, <2>4, StallCycle DEF InStall
    <3>2. arch' = View'
      BY <2>2, <3>1
    <3> QED
      BY <2>1, <2>4, <3>1, <3>2, RInvOutsideStall, StallIsInstr
  <2>5. CASE ~InStall
    <3>1. CASE DecodeSendsThrough(interrupt) /\ FetchNext(interrupt)
      <4>1. ~InStall' /\ arch' = View'
        BY <2>2, <2>5, <3>1 DEF DecodeSendsThrough, InStall
      <4> QED
        BY <2>1, <2>5, <3>1, <4>1, RInvOutsideStall, NoStallIsInstr
    <3>2. CASE DecodeStalls(interrupt)
      <4>1. InStall'
        BY <2>1, <2>5, <3>2, StallBegins DEF InStall
      <4>2. arch' = arch
        BY <2>2, <4>1
      <4> QED
        BY <2>1, <2>5, <3>2, <4>2, RInvAtStall DEF InstrSet!vars
    <3>3. CASE DecodeRespondsToInterrupt(interrupt)
      <4>1. InStall'
        BY <3>3 DEF DecodeRespondsToInterrupt, InStall,
           STALL_COUNTER_RESPOND_TO_INTERRUPTS
      <4>2. arch' = arch
        BY <2>2, <4>1
      <4> QED
        BY <2>1, <2>5, <3>3, <4>2, RInvAtInterrupt DEF InstrSet!vars
    <3> QED
      BY <2>1, <2>5, <3>1, <3>2, <3>3, InstrCycle
  <2> QED
    BY <2>3, <2>4, <2>5
<1> QED
  BY <1>1, <1>2

\* The processor starts in a state of the instruction set.
LEMMA RInitImplements == RInit => RInv /\ InstrSet!Init
<1> SUFFICES ASSUME RInit PROVE RInv /\ InstrSet!Init
  OBVIOUS
<1>1. Init /\ TypeOK
  BY InitTypeOK DEF RInit
<1>2. /\ arch.regs = [r \in Reg |-> 0] /\ arch.pc = 0 /\ arch.ireta = 0
      /\ arch.idsta = 0 /\ arch.ie = FALSE /\ arch.mem = mem
      /\ arch = [regs |-> [r \in Reg |-> 0], pc |-> 0,
                 ireta |-> 0, idsta |-> 0, ie |-> FALSE, mem |-> mem]
  BY DEF RInit
<1>3. mem \in [Cell -> Word]
  BY <1>1 DEF TypeOK, MemTypeOK
<1>4. InstrSet!Init
  BY <1>2, <1>3, SameWords DEF InstrSet!Init, Cell
<1>5. ArchTypeOK
  BY <1>2, <1>3, ZeroAndLr DEF ArchTypeOK
<1>6. /\ stall_counter = 2 /\ stall_state = "StInit" /\ mde.instr = NoInstr
      /\ ireta = 0 /\ idsta = 0 /\ ie = FALSE /\ fwd0.index = 0
      /\ write_port.en = FALSE /\ regfile = [r \in Reg |-> 0]
  BY <1>1 DEF Init, RegFileInit, STALL_COUNTER_INIT
<1>7. ArchIsView /\ InstrIsTheInstr /\ Latched /\ GoesOn /\ CommandsGiven
        /\ MemoryKept
  BY <1>2, <1>6 DEF ArchIsView, InStall, InstrIsTheInstr, NoInstrStalls, Latched,
     GoesOn, CommandsGiven, MemoryKept, IsStore
<1>8. StallFitsInstr
  BY <1>2, <1>6 DEF StallFitsInstr, LongestStall, NoInstr
<1>9. RegistersKept
  BY <1>2, <1>6 DEF RegistersKept, Newest
<1>10. SpecialsKept
  BY <1>2, <1>6 DEF SpecialsKept, Finishes
<1> QED
  BY <1>4, <1>5, <1>7, <1>8, <1>9, <1>10 DEF RInv

\* The history variable influences nothing.
LEMMA RSpecIsSpec == RSpec => Spec
<1>1. RInit => Init
  BY DEF RInit
<1>2. [RNext]_rvars => [Next]_vars
  BY DEF RNext, rvars
<1> QED
  BY <1>1, <1>2, PTL DEF RSpec, Spec

\* What the earlier theorems show holds with the history variable, too.
LEMMA RSpecInStep == RSpec => []InStep
<1>1. TypeOK /\ FetchCoherence /\ MemInv /\ MultiplierInTime /\ DividerInTime
        => InStep
  BY DEF InStep
<1> QED
  BY <1>1, RSpecIsSpec, TypeCorrect, FetchesCoherently, MemInvCorrect,
     ProductsInTime, QuotientsInTime, PTL

\* With programs whose instructions conform, the four stages, the memory and the
\* units change registers, pc, interrupt registers and memory as if they executed
\* one instruction at a time, each of them whole, with interrupts between them
\* (1477 - 2655).
THEOREM PipelineImplementsIsa == RSpec /\ []Conforms => ImplementsIsa
<1>1. RInit => RInv /\ InstrSet!Init
  BY RInitImplements
<1>2. /\ InStep /\ InStep' /\ RInv /\ Conforms /\ Conforms' /\ [RNext]_rvars
      => RInv' /\ [InstrSet!Next]_InstrSet!vars
  BY StepImplements
<1> QED
  BY <1>1, <1>2, RSpecInStep, PTL DEF RSpec, ImplementsIsa, InstrSet!Spec

\* If no word codes an instruction that does not conform, every program, one that
\* writes itself included, is executed as the instruction set says (1477 - 2655).
THEOREM ConformingProgramsImplementIsa ==
  (\A w \in Word : Conforming(DecodeWord(w))) => (RSpec => ImplementsIsa)
<1> SUFFICES ASSUME \A w \in Word : Conforming(DecodeWord(w))
             PROVE  RSpec => ImplementsIsa
  OBVIOUS
<1>1. RInit => Conforms
  BY DEF RInit, Init, NoInstr, Conforms, Conforming
<1>2. TypeOK /\ Conforms /\ [Next]_vars => Conforms'
  <2>1. ASSUME TypeOK, Conforms, UNCHANGED vars PROVE Conforms'
    BY <2>1 DEF vars, StageVars, Conforms, Conforming
  <2>2. ASSUME TypeOK, Conforms, NEW interrupt \in BOOLEAN, Cycle(interrupt)
        PROVE  Conforms'
    <3>1. mde' = mde \/ mde'.instr = Decoded \/ mde' = Bubble
      BY <2>2 DEF Cycle, DecodeStage, DecodeInStall, DecodeSendsThrough,
         DecodeStalls, DecodeRespondsToInterrupt, send_instr_through
    <3>2. Conforming(Decoded)
      BY <2>2 DEF Decoded, TypeOK, MemTypeOK
    <3>3. Bubble.instr.group = 0
      BY <2>2 DEF Bubble, NoInstr, TypeOK
    <3> QED
      BY <2>2, <3>1, <3>2, <3>3 DEF Conforms, Conforming
  <2> QED
    BY <2>1, <2>2 DEF Next
<1>3. RSpec => []Conforms
  <2>1. [RNext]_rvars => [Next]_vars
    BY DEF RNext, rvars
  <2> QED
    BY <1>1, <1>2, <2>1, RSpecIsSpec, TypeCorrect, PTL DEF RSpec
<1> QED
  BY <1>3, PipelineImplementsIsa, PTL
===============================================================================
