------------------------------ MODULE Frost32Cpu ------------------------------
(***************************************************************************)
(* The processor, cycle by cycle (frost32_cpu_module.src.sv) together with *)
(* the units it drives: register file, multiplier, divider, main memory.   *)
(*                                                                         *)
(* A step is one rising clock edge.  Every always block of the source is   *)
(* one conjunct of the step, and all of them read the values of before the *)
(* edge.  Wires (always_comb, assign) are operators.  `interrupt' is the   *)
(* interrupt pin at the edge, any value at any edge; main memory ties      *)
(* in.wait_for_mem to zero (main_mem_module.src.sv, 380).                  *)
(***************************************************************************)
EXTENDS RegisterFile, MainMem, Multiplier32, NonRestoringDivider

CONSTANTS
  Programs,        \* memory images the RAM may be loaded with
  Alu(_, _, _)     \* the combinational ALU: Alu(oper, a, b)

ASSUME ProgramsAssumption == Programs \subseteq [Cell -> Word]
ASSUME AluAssumption ==
  \A oper \in Opcode, a, b \in Word : Alu(oper, a, b) \in Word

VARIABLES
  pc,             \* __locals.pc: address the fetch stage has put on the bus
  pc_val,         \* pc_val of the instruction in the decode stage
  ireta, idsta,   \* __locals.ireta, __locals.idsta
  ie,             \* __locals.ie
  cond,           \* __locals.cond_lts, .cond_ges, .cond_les, .cond_gts
  stall_counter, stall_state,   \* __stage_instr_decode_data
  mde,            \* __multi_stage_data_execute
  special,        \* __stage_execute_input_data.ireta_data, .idsta_data
  fwd0, fwd1,     \* prev_written_reg_index_n and n_reg_data_n
  write_port,     \* __in_reg_file.write_en, .write_sel, .write_data
  mul_in, div_in, \* __in_mul_32, __in_div_32
  bus             \* out: the processor's memory request

StageVars == <<pc, pc_val, ireta, idsta, ie, cond, stall_counter, stall_state,
               mde, special, fwd0, fwd1, write_port, mul_in, div_in, bus>>

vars == <<StageVars, RegFileVars, MemVars, mul, div>>

\* StOther and the "Eek" use of StInit exist in the source, but nothing ever
\* enters them: the decoder's causes_stall is zero for every other group.
StallState == {"StInit", "StRespondToInterrupt", "StReti", "StMulDiv",
               "StCtrlFlowBranch", "StCtrlFlowJumpCall",
               "StOtherInterruptsStuff", "StMemAccess"}

STALL_COUNTER_REL_BRANCH_UNSIGNED   == 2
\* Mutant: no cycle to latch the signed comparisons in.
SignedBranchTooShort                == STALL_COUNTER_REL_BRANCH_UNSIGNED
STALL_COUNTER_REL_BRANCH_SIGNED     == STALL_COUNTER_REL_BRANCH_UNSIGNED + 1
STALL_COUNTER_JUMP_CALL_UNSIGNED    == 3
STALL_COUNTER_JUMP_CALL_SIGNED      == STALL_COUNTER_JUMP_CALL_UNSIGNED + 1
STALL_COUNTER_MEM_ACCESS            == 3
STALL_COUNTER_INTERRUPTS_STUFF      == 2
STALL_COUNTER_RETI                  == 2
STALL_COUNTER_RESPOND_TO_INTERRUPTS == 2
\* Mutant: a stall that ends before the product is there.
MultiplyTooShort                    == 4
STALL_COUNTER_MULTIPLY_32           == 5
\* Mutant: six cycles on top of the iterations.
DivideTooShort                      == (Width \div IterationsPerCycle) + 6
STALL_COUNTER_DIVIDE_32             == (Width \div IterationsPerCycle) + 7
STALL_COUNTER_INIT                  == 2

\* The stall counter has 6 bits, or 5 under OPT_FAST_DIV, which the lengths above
\* do not depend on; a length is cut to them.
StallCounterMod == IF IterationsPerCycle = 1 THEN 64 ELSE 32

ASSUME StallCounterAssumption == STALL_COUNTER_DIVIDE_32 < StallCounterMod

\* Mutant: three bits, as there once were.
CutToThreeBits(length) == length % 8

CutToCounter(length) == length % StallCounterMod

NoInstr == [group |-> 0, ra |-> 0, rb |-> 0, rc |-> 0, imm |-> 0,
            opcode |-> 0, ldst_type |-> 0, causes_stall |-> FALSE,
            condition_type |-> 0]

Init ==
  /\ pc = 0 /\ pc_val = 0 /\ ireta = 0 /\ idsta = 0 /\ ie = FALSE
  /\ cond = [lts |-> FALSE, ges |-> FALSE, les |-> FALSE, gts |-> FALSE]
  /\ stall_counter = STALL_COUNTER_INIT /\ stall_state = "StInit"
  /\ mde = [raw |-> 0, pc_val |-> 0, instr |-> NoInstr]
  /\ special = [ireta |-> 0, idsta |-> 0]
  /\ fwd0 = [index |-> 0, data |-> 0]
  /\ fwd1 = [index |-> 0, data |-> 0]
  /\ write_port = [en |-> FALSE, sel |-> 0, data |-> 0]
  /\ mul_in = [enable |-> FALSE, x |-> 0, y |-> 0]
  /\ div_in = [enable |-> FALSE, unsgn_or_sgn |-> FALSE, num |-> 0, denom |-> 0]
  /\ bus = [req |-> TRUE, type |-> "DiatRead", size |-> "Dias32",
            addr |-> 0, data |-> 0]
  /\ RegFileInit
  /\ mem \in Programs /\ in_data = 0
  /\ MulInit
  /\ DivInit

\* Every register of the machine holds a value of its width.  The indices of
\* the forwarding registers and of the write port are register indices, and
\* no stall is longer than a division's (30 - 63, 161 - 190).
TypeOK ==
  /\ pc \in Word /\ pc_val \in Word
  /\ ireta \in Word /\ idsta \in Word /\ ie \in BOOLEAN
  /\ cond \in [lts : BOOLEAN, ges : BOOLEAN, les : BOOLEAN, gts : BOOLEAN]
  /\ stall_counter \in 0 .. STALL_COUNTER_DIVIDE_32
  /\ stall_state \in StallState
  /\ mde \in [raw : Word, pc_val : Word, instr : DecodedInstr]
  /\ special \in [ireta : Word, idsta : Word]
  /\ fwd0 \in [index : Reg, data : Word]
  /\ fwd1 \in [index : Reg, data : Word]
  /\ write_port \in WritePort
  /\ mul_in \in [enable : BOOLEAN, x : Word, y : Word]
  /\ div_in \in [enable : BOOLEAN, unsgn_or_sgn : BOOLEAN,
                  num : Word, denom : Word]
  /\ bus \in Bus
  /\ RegFileTypeOK
  /\ MemTypeOK
  /\ mul \in MulState
  /\ div \in DivState

(***************************************************************************)
(* Wires.                                                                  *)
(***************************************************************************)
InStall == stall_counter # 0

\* Mutant: the decoder looks at the fetched word during a stall, too.
DecodedWithoutHold == DecodeWord(in_data)

\* The decoder looks at the fetched word, and during a stall at the word the
\* execute stage keeps.
Decoded == DecodeWord(IF InStall THEN mde.raw ELSE in_data)

ShouldServiceInterrupt(interrupt) == ie /\ interrupt

\* Mutant: the result before the last one is not forwarded.
ForwardLastResultOnly(index, rfile_data) ==
  CASE index = 0 -> 0
    [] index # 0 /\ index = fwd0.index -> fwd0.data
    [] OTHER -> rfile_data

\* perform_operand_forwarding: an operand of the instruction in the execute
\* stage comes from the last two results if they are for its register.
Forward(index, rfile_data) ==
  CASE index = 0 -> 0
    [] index # 0 /\ index = fwd0.index -> fwd0.data
    [] index # 0 /\ index # fwd0.index /\ index = fwd1.index -> fwd1.data
    [] OTHER -> rfile_data

RaData == Forward(mde.instr.ra, read_data.ra)
RbData == Forward(mde.instr.rb, read_data.rb)
RcData == Forward(mde.instr.rc, read_data.rc)

FollowingPcExecute == Trunc(mde.pc_val + 4)
BranchDest == Trunc(FollowingPcExecute + SignExtHalf(mde.instr.imm))

LdstAddress ==
  Trunc(RbData + IF mde.instr.opcode >= 8
                 THEN SignExtHalf(mde.instr.imm) ELSE RcData)

Compare == [lts |-> Signed(RaData) <  Signed(RbData),
            ges |-> Signed(RaData) >= Signed(RbData),
            les |-> Signed(RaData) <= Signed(RbData),
            gts |-> Signed(RaData) >  Signed(RbData)]

\* The unsigned conditions are compared where they are used, the signed ones
\* were latched in `cond' a cycle before.
CallCondition ==
  LET ct == mde.instr.condition_type
  IN  CASE ct = CtNe  -> RaData # RbData
        [] ct = CtEq  -> RaData = RbData
        [] ct = CtLtu -> RaData < RbData
        [] ct = CtGeu -> RaData >= RbData
        [] ct = CtLeu -> RaData <= RbData
        [] ct = CtGtu -> RaData > RbData
        [] ct = CtLts -> cond.lts
        [] ct = CtGes -> cond.ges
        [] ct = CtLes -> cond.les
        [] ct = CtGts -> cond.gts
        [] OTHER -> FALSE

BranchCondition ==
  \/ CallCondition
  \/ mde.instr.condition_type = CtIntsEnabled /\ ie
  \/ mde.instr.condition_type = CtIntsDisabled /\ ~ie

(***************************************************************************)
(* Memory requests.                                                        *)
(***************************************************************************)
prep_mem_read(address, size) ==
  bus' = [req |-> TRUE, type |-> "DiatRead", size |-> size,
          addr |-> address, data |-> 0]

prep_mem_write(address, size, word) ==
  bus' = [req |-> TRUE, type |-> "DiatWrite", size |-> size,
          addr |-> address, data |-> word]

prep_load_instruction(address) ==
  /\ pc' = address
  /\ pc_val' = pc
  /\ prep_mem_read(address, "Dias32")

prep_load_following_instruction == prep_load_instruction(Trunc(pc + 4))

FetchNothing == UNCHANGED <<pc, pc_val, bus>>

(***************************************************************************)
(* The fetch stage (always block at 1477).                                 *)
(***************************************************************************)
\* Stall counter 3: a load or store makes its access, and control flow
\* latches the signed comparisons.
FetchMemAccess ==
  /\ stall_counter = 3 /\ stall_state = "StMemAccess"
  /\ LET type == mde.instr.ldst_type
         size == CASE type \in {Ld32, St32}          -> "Dias32"
                   [] type \in {LdU16, LdS16, St16}  -> "Dias16"
                   [] type \in {LdU8, LdS8, St8}     -> "Dias8"
     IN  IF type \in Loads THEN prep_mem_read(LdstAddress, size)
                           ELSE prep_mem_write(LdstAddress, size, RaData)
  /\ UNCHANGED <<pc, pc_val, cond>>

FetchLatchComparisons ==
  /\ stall_counter = 3 /\ stall_state \in {"StCtrlFlowBranch", "StCtrlFlowJumpCall"}
  /\ cond' = Compare
  /\ FetchNothing

\* Stall counter 2: where each stall state goes on from.
StallTarget ==
  CASE stall_state = "StInit"               -> 0
    [] stall_state = "StReti"               -> ireta
    [] stall_state = "StRespondToInterrupt" -> idsta
    [] stall_state = "StCtrlFlowBranch"     ->
         IF BranchCondition THEN BranchDest ELSE FollowingPcExecute
    [] stall_state = "StCtrlFlowJumpCall"   ->
         IF CallCondition THEN RcData ELSE FollowingPcExecute
    [] stall_state \in {"StMulDiv", "StOtherInterruptsStuff", "StMemAccess"} ->
         FollowingPcExecute

FetchAfterStall ==
  /\ stall_counter = 2
  /\ prep_load_instruction(StallTarget)
  /\ UNCHANGED cond

\* Mutant: the second request of the refill is not made.
FetchNothingInLastStallCycle ==
  /\ stall_counter = 1
  /\ FetchNothing /\ UNCHANGED cond

FetchLastStallCycle ==
  /\ stall_counter = 1
  /\ prep_load_following_instruction
  /\ UNCHANGED cond

FetchWaits ==
  /\ \/ stall_counter > 3
     \/ stall_counter = 3 /\ stall_state \in
          {"StInit", "StReti", "StRespondToInterrupt", "StMulDiv",
           "StOtherInterruptsStuff"}
  /\ FetchNothing /\ UNCHANGED cond

FetchNext(interrupt) ==
  /\ ~InStall /\ ~ShouldServiceInterrupt(interrupt) /\ ~Decoded.causes_stall
  /\ prep_load_following_instruction
  /\ UNCHANGED cond

FetchHolds(interrupt) ==
  /\ ~InStall
  /\ ShouldServiceInterrupt(interrupt) \/ Decoded.causes_stall
  /\ FetchNothing /\ UNCHANGED cond

FetchStage(interrupt) ==
  \/ FetchMemAccess \/ FetchLatchComparisons \/ FetchAfterStall
  \/ FetchLastStallCycle \/ FetchWaits
  \/ FetchNext(interrupt) \/ FetchHolds(interrupt)

(***************************************************************************)
(* The decode stage (always block at 1915).                                *)
(***************************************************************************)
\* make_bubble keeps the raw instruction, the immediate and pc_val.
Bubble == [mde EXCEPT !.instr = [NoInstr EXCEPT !.imm = mde.instr.imm]]

\* What a stall does to the special registers in the cycle with counter 2.
\* The interrupt-enable case is the `else' of the two copies.
StallSpecialRegisters ==
  /\ ireta' = IF /\ stall_counter = 2 /\ stall_state = "StOtherInterruptsStuff"
                 /\ mde.instr.opcode = Cpy_OneIretaOneReg
              THEN RaData ELSE ireta
  /\ idsta' = IF /\ stall_counter = 2 /\ stall_state = "StOtherInterruptsStuff"
                 /\ mde.instr.opcode = Cpy_OneIdstaOneReg
              THEN RaData ELSE idsta
  /\ ie' = CASE stall_counter = 2 /\ stall_state = "StReti" -> TRUE
             [] stall_counter = 2 /\ stall_state = "StRespondToInterrupt" -> FALSE
             [] /\ stall_counter = 2 /\ stall_state = "StOtherInterruptsStuff"
                /\ mde.instr.opcode \notin {Cpy_OneIretaOneReg, Cpy_OneIdstaOneReg}
                -> Decoded.opcode = Ei_NoArgs
             [] OTHER -> ie

DecodeInStall ==
  /\ InStall
  /\ stall_counter' = stall_counter - 1
  /\ mde' = IF stall_counter = 1 THEN Bubble ELSE mde
  /\ StallSpecialRegisters
  /\ UNCHANGED <<stall_state, special>>

send_instr_through ==
  /\ mde' = [raw |-> in_data, pc_val |-> pc_val, instr |-> Decoded]
  /\ special' = [ireta |-> ireta, idsta |-> idsta]

\* Mutant: the counter counts down in every cycle, from 0 to its greatest number.
DecodeAlwaysCounts(interrupt) ==
  /\ ~InStall /\ ~ShouldServiceInterrupt(interrupt) /\ ~Decoded.causes_stall
  /\ send_instr_through
  /\ stall_counter' = (stall_counter - 1) % StallCounterMod
  /\ UNCHANGED <<stall_state, ireta, idsta, ie>>

DecodeSendsThrough(interrupt) ==
  /\ ~InStall /\ ~ShouldServiceInterrupt(interrupt) /\ ~Decoded.causes_stall
  /\ send_instr_through
  /\ UNCHANGED <<stall_counter, stall_state, ireta, idsta, ie>>

\* The stall of an instruction that causes one.
StallStart ==
  LET group  == Decoded.group
      signed == Decoded.condition_type \in SignedConditions
  IN  CASE group = 0 -> [state |-> "StMulDiv",
             counter |-> IF Decoded.opcode = Mul_ThreeRegs
                         THEN STALL_COUNTER_MULTIPLY_32
                         ELSE STALL_COUNTER_DIVIDE_32]
        [] group = 1 -> [state |-> stall_state,
             counter |-> STALL_COUNTER_MULTIPLY_32]
        [] group = 2 -> [state |-> "StCtrlFlowBranch",
             counter |-> IF signed THEN STALL_COUNTER_REL_BRANCH_SIGNED
                                   ELSE STALL_COUNTER_REL_BRANCH_UNSIGNED]
        [] group \in {3, 4} -> [state |-> "StCtrlFlowJumpCall",
             counter |-> IF signed THEN STALL_COUNTER_JUMP_CALL_SIGNED
                                   ELSE STALL_COUNTER_JUMP_CALL_UNSIGNED]
        [] group = 5 -> [state |-> "StMemAccess",
             counter |-> STALL_COUNTER_MEM_ACCESS]
        [] group = 6 ->
             IF Decoded.opcode # Reti_NoArgs
             THEN [state |-> "StOtherInterruptsStuff",
                   counter |-> STALL_COUNTER_INTERRUPTS_STUFF]
             ELSE [state |-> "StReti", counter |-> STALL_COUNTER_RETI]

DecodeStalls(interrupt) ==
  /\ ~InStall /\ ~ShouldServiceInterrupt(interrupt) /\ Decoded.causes_stall
  /\ stall_counter' = CutToCounter(StallStart.counter)
  /\ stall_state' = StallStart.state
  /\ send_instr_through
  /\ UNCHANGED <<ireta, idsta, ie>>

\* Mutant: the address of the fetch stage is saved, not of the decode stage.
DecodeSavesFetchAddress(interrupt) ==
  /\ ~InStall /\ ShouldServiceInterrupt(interrupt)
  /\ ireta' = pc
  /\ stall_state' = "StRespondToInterrupt"
  /\ stall_counter' = STALL_COUNTER_RESPOND_TO_INTERRUPTS
  /\ mde' = Bubble
  /\ UNCHANGED <<special, idsta, ie>>

\* Mutant: an interrupt is responded to in the middle of a stall.
DecodeRespondsInStall(interrupt) ==
  /\ ShouldServiceInterrupt(interrupt)
  /\ ireta' = pc_val
  /\ stall_state' = "StRespondToInterrupt"
  /\ stall_counter' = STALL_COUNTER_RESPOND_TO_INTERRUPTS
  /\ mde' = Bubble
  /\ UNCHANGED <<special, idsta, ie>>

DecodeRespondsToInterrupt(interrupt) ==
  /\ ~InStall /\ ShouldServiceInterrupt(interrupt)
  /\ ireta' = pc_val
  /\ stall_state' = "StRespondToInterrupt"
  /\ stall_counter' = STALL_COUNTER_RESPOND_TO_INTERRUPTS
  /\ mde' = Bubble
  /\ UNCHANGED <<special, idsta, ie>>

DecodeStage(interrupt) ==
  \/ DecodeInStall \/ DecodeSendsThrough(interrupt)
  \/ DecodeStalls(interrupt) \/ DecodeRespondsToInterrupt(interrupt)

(***************************************************************************)
(* The execute stage (always block at 2238).                               *)
(***************************************************************************)
\* The ALU's operands and result, and the results of the immediate group
\* that do not come from the ALU.
ImmediateResult ==
  LET imm == mde.instr.imm
      op  == mde.instr.opcode
  IN  CASE op = Cpyhi_OneRegOneImm       -> imm * Half + (RaData % Half)
        [] op = Addsi_OneRegOnePcOneSimm -> Trunc(mde.pc_val + SignExtHalf(imm))
        [] op \in {Sltsi_TwoRegsOneSimm, Sgtsi_TwoRegsOneSimm} ->
             Alu(op, RbData, SignExtHalf(imm))
        [] OTHER -> Alu(op, RbData, imm)

LoadedValue ==
  CASE mde.instr.ldst_type = Ld32  -> in_data
    [] mde.instr.ldst_type = LdU16 -> in_data % Half
    [] mde.instr.ldst_type = LdS16 -> SignExtHalf(in_data % Half)
    [] mde.instr.ldst_type = LdU8  -> in_data % Byte
    [] mde.instr.ldst_type = LdS8  -> SignExtByte(in_data % Byte)

IsMultiply ==
  \/ mde.instr.group = 0 /\ mde.instr.opcode = Mul_ThreeRegs
  \/ mde.instr.group = 1 /\ mde.instr.opcode = Muli_TwoRegsOneImm
IsDivide ==
  mde.instr.group = 0 /\ mde.instr.opcode \in {Udiv_ThreeRegs, Sdiv_ThreeRegs}

\* prep_ra_wb and stop_operand_forwarding_or_write_back.
ToRa(value) == [index |-> mde.instr.ra, data |-> value]
Nothing     == [fwd0 EXCEPT !.index = 0]

\* The register index and data the execute stage hands on at this edge.
ExecuteResult ==
  CASE IsMultiply ->
         ToRa(IF stall_counter = STALL_COUNTER_MULTIPLY_32 THEN 0 ELSE mul.prod)
    [] IsDivide ->
         ToRa(IF stall_counter = STALL_COUNTER_DIVIDE_32 \/ div_in.denom = 0
              THEN 0 ELSE div.quot)
    [] mde.instr.group = 0 /\ ~IsMultiply /\ ~IsDivide ->
         ToRa(Alu(mde.instr.opcode, RbData, RcData))
    [] mde.instr.group = 1 /\ ~IsMultiply -> ToRa(ImmediateResult)
    [] mde.instr.group \in {2, 3} -> Nothing
    [] mde.instr.group = 4 ->
         IF mde.instr.condition_type <= CtGts
         THEN [index |-> IF CallCondition THEN LR ELSE 0,
               data  |-> FollowingPcExecute]
         ELSE Nothing
    [] mde.instr.group = 5 ->
         IF stall_counter = 1 /\ mde.instr.ldst_type \in Loads
         THEN ToRa(LoadedValue) ELSE Nothing
    [] mde.instr.group = 6 ->
         CASE mde.instr.opcode = Cpy_OneRegOneIreta -> ToRa(special.ireta)
           [] mde.instr.opcode = Cpy_OneRegOneIdsta -> ToRa(special.idsta)
           [] OTHER -> Nothing

\* ctrl_multiply_32: the command goes out with the first stall cycle.
ExecuteMultiply ==
  /\ IsMultiply
  /\ mul_in' = IF stall_counter = STALL_COUNTER_MULTIPLY_32
               THEN [enable |-> TRUE, x |-> RbData,
                     y |-> IF mde.instr.group = 0 THEN RcData ELSE mde.instr.imm]
               ELSE [mul_in EXCEPT !.enable = FALSE]
  /\ UNCHANGED div_in

\* ctrl_divide_32
ExecuteDivide ==
  /\ IsDivide
  /\ div_in' = IF stall_counter = STALL_COUNTER_DIVIDE_32
               THEN [enable |-> TRUE,
                     unsgn_or_sgn |-> mde.instr.opcode = Sdiv_ThreeRegs,
                     num |-> RbData, denom |-> RcData]
               ELSE [div_in EXCEPT !.enable = FALSE]
  /\ UNCHANGED mul_in

ExecuteOther ==
  /\ ~IsMultiply /\ ~IsDivide
  /\ UNCHANGED <<mul_in, div_in>>

ExecuteStage ==
  /\ fwd1' = fwd0
  /\ fwd0' = ExecuteResult
  /\ ExecuteMultiply \/ ExecuteDivide \/ ExecuteOther

(***************************************************************************)
(* The write-back stage (always block at 2555).                            *)
(***************************************************************************)
WriteBackStage ==
  write_port' = [en |-> TRUE, sel |-> fwd0.index, data |-> fwd0.data]

(***************************************************************************)
(* One rising clock edge of the whole machine.                             *)
(***************************************************************************)
Cycle(interrupt) ==
  /\ FetchStage(interrupt)
  /\ DecodeStage(interrupt)
  /\ ExecuteStage
  /\ WriteBackStage
  /\ RegFileStep(write_port, Decoded.ra, Decoded.rb, Decoded.rc)
  /\ MemStep(bus)
  /\ MulStep(mul_in)
  /\ DivStep(div_in)

Next == \E interrupt \in BOOLEAN : Cycle(interrupt)

Spec == Init /\ [][Next]_vars

==============================================================================
