--------------------------- MODULE Frost32CpuProofs ---------------------------
(***************************************************************************)
(* The processor is type correct, the stages of the pipeline stay in step, *)
(* and the processor and its multiplier and divider stay in step without a *)
(* handshake, for every word size, every assignment of instructions to     *)
(* words, every program, every ALU, number of iterations per cycle,        *)
(* power-up value and order of the divider's always blocks, and any        *)
(* behaviour of the interrupt pin.                                         *)
(***************************************************************************)
EXTENDS Frost32CpuProperties, NonRestoringDividerProofs

(***************************************************************************)
(* Types of the wires.                                                     *)
(***************************************************************************)
LEMMA ZeroAndLr == 0 \in Reg /\ LR \in Reg /\ 0 \in Word /\ 0 \in HalfWord
  BY RegAssumption, WordSizes DEF Word, HalfWord

LEMMA DecodedTypes ==
  /\ NoInstr \in DecodedInstr
  /\ \A w \in Word : DecodeWord(w) \in DecodedInstr
<1>1. NoInstr \in DecodedInstr
  BY ZeroAndLr DEF NoInstr, DecodedInstr, Opcode
<1>2. ASSUME NEW w \in Word PROVE DecodeWord(w) \in DecodedInstr
  <2> DEFINE in == Code[w]
  <2>1. in \in RawInstr
    BY CodeAssumption
  <2>2. in.group \in 0 .. 15 /\ in.ra \in Reg /\ in.rb \in Reg /\ in.rc \in Reg
        /\ in.imm \in HalfWord /\ in.opcode \in Opcode
    BY <2>1 DEF RawInstr
  <2>3. in.imm % Imm12Mod \in 0 .. Imm12Mod - 1
    BY <2>2, Imm12Assumption, WordSizes DEF HalfWord
  <2>4. SignExtImm12(in.imm % Imm12Mod) \in HalfWord
    BY <2>3, SignExtensions
  <2>5. CausesStall(in.group, in.opcode) \in BOOLEAN
    BY DEF CausesStall
  <2>6. in.opcode % 8 \in 0 .. 7
    BY <2>2 DEF Opcode
  <2>7. CASE in.group > 6
    BY <2>2, <2>7, ZeroAndLr DEF DecodeWord, Decode, DecodedInstr, Opcode
  <2>8. CASE ~(in.group > 6)
    <3>1. in.group \in 0 .. 6
      BY <2>2, <2>8
    <3> HIDE DEF in
    <3>2. Decode(in) \in DecodedInstr
      BY <2>2, <2>4, <2>5, <2>6, <2>8, <3>1, ZeroAndLr
         DEF Decode, DecodedInstr, Opcode
    <3> QED
      BY <3>2 DEF DecodeWord, in
  <2> QED
    BY <2>7, <2>8
<1> QED
  BY <1>1, <1>2

LEMMA DecoderTypes ==
  ASSUME TypeOK
  PROVE  Decoded \in DecodedInstr
  BY DecodedTypes DEF Decoded, TypeOK, MemTypeOK

LEMMA OperandTypes ==
  ASSUME TypeOK
  PROVE  RaData \in Word /\ RbData \in Word /\ RcData \in Word
<1>1. ASSUME NEW index, NEW rfile_data \in Word
      PROVE  Forward(index, rfile_data) \in Word
  BY ZeroAndLr DEF Forward, TypeOK
<1> QED
  BY <1>1 DEF RaData, RbData, RcData, TypeOK, RegFileTypeOK

LEMMA InstrTypes ==
  ASSUME TypeOK
  PROVE  /\ mde.instr \in DecodedInstr
         /\ mde.instr.ra \in Reg /\ mde.instr.rb \in Reg /\ mde.instr.rc \in Reg
         /\ mde.instr.imm \in HalfWord /\ mde.instr.imm \in Word
         /\ mde.instr.opcode \in Opcode /\ mde.instr.group \in 0 .. 6
         /\ mde.instr.ldst_type \in 0 .. 7 /\ mde.instr.condition_type \in Opcode
         /\ mde.pc_val \in Word
<1>1. mde.instr \in DecodedInstr /\ mde.pc_val \in Word
  BY DEF TypeOK
<1> QED
  BY <1>1, WordSizes DEF DecodedInstr, HalfWord, Word

LEMMA AddressTypes ==
  ASSUME TypeOK
  PROVE  /\ FollowingPcExecute \in Word
         /\ BranchDest \in Word
         /\ LdstAddress \in Word
         /\ Trunc(pc + 4) \in Word
<1>1. SignExtHalf(mde.instr.imm) \in Word
  BY InstrTypes, SignExtensions
<1>2. \A x, y \in Word : Trunc(x + y) \in Word /\ Trunc(x + 4) \in Word
  BY TruncIsWord, WordSizes DEF Word
<1>3. FollowingPcExecute \in Word
  BY <1>2, InstrTypes DEF FollowingPcExecute
<1>4. BranchDest \in Word
  BY <1>1, <1>2, <1>3 DEF BranchDest
<1>5. LdstAddress \in Word
  BY <1>1, <1>2, OperandTypes DEF LdstAddress
<1> QED
  BY <1>2, <1>3, <1>4, <1>5 DEF TypeOK

(***************************************************************************)
(* Types of what each stage assigns.                                       *)
(***************************************************************************)
\* Every request the fetch stage can put on the bus.
LEMMA BusTypes ==
  ASSUME NEW type \in AccessType, NEW size \in AccessSize,
         NEW address \in Word, NEW word \in Word
  PROVE  [req |-> TRUE, type |-> type, size |-> size,
          addr |-> address, data |-> word] \in Bus
  BY DEF Bus

LEMMA PrepLoadTypes ==
  ASSUME TypeOK, NEW address \in Word, prep_load_instruction(address)
  PROVE  pc' \in Word /\ pc_val' \in Word /\ bus' \in Bus
  BY ZeroAndLr, BusTypes
     DEF prep_load_instruction, prep_mem_read, AccessType, AccessSize, TypeOK

LEMMA StallTargetType ==
  ASSUME TypeOK
  PROVE  StallTarget \in Word
  BY OperandTypes, AddressTypes, ZeroAndLr DEF StallTarget, TypeOK, StallState

LEMMA FetchTypes ==
  ASSUME TypeOK, NEW interrupt \in BOOLEAN, FetchStage(interrupt)
  PROVE  /\ pc' \in Word /\ pc_val' \in Word /\ bus' \in Bus
         /\ cond' \in [lts : BOOLEAN, ges : BOOLEAN, les : BOOLEAN, gts : BOOLEAN]
<1>0. /\ pc \in Word /\ pc_val \in Word /\ bus \in Bus
      /\ cond \in [lts : BOOLEAN, ges : BOOLEAN, les : BOOLEAN, gts : BOOLEAN]
  BY DEF TypeOK
<1>1. CASE FetchMemAccess
  <2> DEFINE type == mde.instr.ldst_type
             size == CASE type \in {Ld32, St32}          -> "Dias32"
                       [] type \in {LdU16, LdS16, St16}  -> "Dias16"
                       [] type \in {LdU8, LdS8, St8}     -> "Dias8"
  <2>1. type \in 0 .. 7
    BY InstrTypes
  <2>2. size \in AccessSize
    BY <2>1 DEF AccessSize, Ld32, St32, LdU16, LdS16, St16, LdU8, LdS8, St8
  <2> HIDE DEF size
  <2>3. \/ prep_mem_read(LdstAddress, size)
        \/ prep_mem_write(LdstAddress, size, RaData)
    BY <1>1 DEF FetchMemAccess, size
  <2>4. bus' \in Bus
    BY <2>2, <2>3, AddressTypes, OperandTypes, ZeroAndLr, BusTypes
       DEF prep_mem_read, prep_mem_write, AccessType
  <2> QED
    BY <1>0, <1>1, <2>4 DEF FetchMemAccess
<1>2. CASE FetchLatchComparisons
  <2>1. Compare \in [lts : BOOLEAN, ges : BOOLEAN, les : BOOLEAN, gts : BOOLEAN]
    BY DEF Compare
  <2> QED
    BY <1>0, <1>2, <2>1 DEF FetchLatchComparisons, FetchNothing
<1>3. CASE FetchAfterStall
  BY <1>0, <1>3, PrepLoadTypes, StallTargetType DEF FetchAfterStall
<1>4. CASE FetchLastStallCycle
  BY <1>0, <1>4, PrepLoadTypes, AddressTypes
     DEF FetchLastStallCycle, prep_load_following_instruction
<1>5. CASE FetchWaits
  BY <1>0, <1>5 DEF FetchWaits, FetchNothing
<1>6. CASE FetchNext(interrupt)
  BY <1>0, <1>6, PrepLoadTypes, AddressTypes
     DEF FetchNext, prep_load_following_instruction
<1>7. CASE FetchHolds(interrupt)
  BY <1>0, <1>7 DEF FetchHolds, FetchNothing
<1> QED
  BY <1>1, <1>2, <1>3, <1>4, <1>5, <1>6, <1>7 DEF FetchStage

\* The stall counters are within the range of the counter.
LEMMA StallCounters ==
  /\ STALL_COUNTER_DIVIDE_32 \in Nat /\ STALL_COUNTER_DIVIDE_32 >= 7
  /\ \A c \in {2, 3, 4, 5, STALL_COUNTER_DIVIDE_32} :
       c \in 0 .. STALL_COUNTER_DIVIDE_32
<1>1. Width \div IterationsPerCycle \in Nat
  <2>1. Width \in Nat /\ IterationsPerCycle \in {1, 2, 4}
    BY WidthAssumption, IterationsAssumption
  <2> QED
    BY <2>1
<1> QED
  BY <1>1 DEF STALL_COUNTER_DIVIDE_32

LEMMA StallStartTypes ==
  ASSUME TypeOK
  PROVE  /\ StallStart.counter \in {2, 3, 4, 5, STALL_COUNTER_DIVIDE_32}
         /\ StallStart.state \in StallState
         /\ CutToCounter(StallStart.counter) = StallStart.counter
<1>1. Decoded.group \in 0 .. 6 /\ stall_state \in StallState
  BY DecoderTypes DEF DecodedInstr, TypeOK
<1>2. StallStart.counter \in {2, 3, 4, 5, STALL_COUNTER_DIVIDE_32}
  BY <1>1 DEF StallStart, STALL_COUNTER_REL_BRANCH_UNSIGNED,
       STALL_COUNTER_REL_BRANCH_SIGNED, STALL_COUNTER_JUMP_CALL_UNSIGNED,
       STALL_COUNTER_JUMP_CALL_SIGNED, STALL_COUNTER_MEM_ACCESS,
       STALL_COUNTER_INTERRUPTS_STUFF, STALL_COUNTER_RETI,
       STALL_COUNTER_MULTIPLY_32
<1>3. StallStart.state \in StallState
  BY <1>1 DEF StallStart, StallState
<1>4. CutToCounter(StallStart.counter) = StallStart.counter
  <2>1. StallStart.counter \in Nat /\ StallStart.counter < StallCounterMod
    BY <1>2, StallCounters, StallCounterAssumption DEF StallCounterMod
  <2>2. \A n \in Nat : \A m \in {32, 64} : n < m => n % m = n
    OBVIOUS
  <2> QED
    BY <2>1, <2>2 DEF CutToCounter, StallCounterMod
<1> QED
  BY <1>2, <1>3, <1>4

LEMMA BubbleType ==
  ASSUME TypeOK
  PROVE  Bubble \in [raw : Word, pc_val : Word, instr : DecodedInstr]
<1>1. [NoInstr EXCEPT !.imm = mde.instr.imm] \in DecodedInstr
  BY DecodedTypes, InstrTypes DEF DecodedInstr
<1> QED
  BY <1>1 DEF Bubble, TypeOK

LEMMA DecodeTypes ==
  ASSUME TypeOK, NEW interrupt \in BOOLEAN, DecodeStage(interrupt)
  PROVE  /\ stall_counter' \in 0 .. STALL_COUNTER_DIVIDE_32
         /\ stall_state' \in StallState
         /\ mde' \in [raw : Word, pc_val : Word, instr : DecodedInstr]
         /\ special' \in [ireta : Word, idsta : Word]
         /\ ireta' \in Word /\ idsta' \in Word /\ ie' \in BOOLEAN
<1>0. /\ stall_counter \in 0 .. STALL_COUNTER_DIVIDE_32
      /\ stall_state \in StallState
      /\ mde \in [raw : Word, pc_val : Word, instr : DecodedInstr]
      /\ special \in [ireta : Word, idsta : Word]
      /\ ireta \in Word /\ idsta \in Word /\ ie \in BOOLEAN
      /\ pc_val \in Word /\ in_data \in Word
  BY DEF TypeOK, MemTypeOK
<1>1. send_instr_through =>
        /\ mde' \in [raw : Word, pc_val : Word, instr : DecodedInstr]
        /\ special' \in [ireta : Word, idsta : Word]
  BY <1>0, DecoderTypes DEF send_instr_through
<1>2. CASE DecodeInStall
  <2>1. stall_counter' \in 0 .. STALL_COUNTER_DIVIDE_32
    BY <1>0, <1>2, StallCounters DEF DecodeInStall, InStall
  <2>2. mde' \in [raw : Word, pc_val : Word, instr : DecodedInstr]
    BY <1>0, <1>2, BubbleType DEF DecodeInStall
  <2>3. ireta' \in Word /\ idsta' \in Word
    BY <1>0, <1>2, OperandTypes DEF DecodeInStall, StallSpecialRegisters
  <2>4. ie' \in BOOLEAN
    BY <1>0, <1>2 DEF DecodeInStall, StallSpecialRegisters
  <2> QED
    BY <1>0, <1>2, <2>1, <2>2, <2>3, <2>4 DEF DecodeInStall
<1>3. CASE DecodeSendsThrough(interrupt)
  BY <1>0, <1>1, <1>3 DEF DecodeSendsThrough
<1>4. CASE DecodeStalls(interrupt)
  BY <1>0, <1>1, <1>4, StallStartTypes, StallCounters DEF DecodeStalls
<1>5. CASE DecodeRespondsToInterrupt(interrupt)
  BY <1>0, <1>5, BubbleType, StallCounters
     DEF DecodeRespondsToInterrupt, StallState,
         STALL_COUNTER_RESPOND_TO_INTERRUPTS
<1> QED
  BY <1>2, <1>3, <1>4, <1>5 DEF DecodeStage

LEMMA ImmediateResultType ==
  ASSUME TypeOK
  PROVE  ImmediateResult \in Word
<1> DEFINE imm == mde.instr.imm
           op  == mde.instr.opcode
<1>1. imm * Half + (RaData % Half) \in Word
  BY InstrTypes, OperandTypes, WordParts, TwoHalves
<1>2. SignExtHalf(imm) \in Word
  BY InstrTypes, SignExtensions
<1>3. Trunc(mde.pc_val + SignExtHalf(imm)) \in Word
  BY <1>2, InstrTypes, TruncIsWord, WordSizes DEF Word
<1>4. Alu(op, RbData, SignExtHalf(imm)) \in Word /\ Alu(op, RbData, imm) \in Word
  BY <1>2, InstrTypes, OperandTypes, AluAssumption
<1> QED
  BY <1>1, <1>3, <1>4 DEF ImmediateResult

LEMMA LoadedValueType ==
  ASSUME TypeOK, mde.instr.ldst_type \in Loads
  PROVE  LoadedValue \in Word
<1>1. in_data \in Word
  BY DEF TypeOK, MemTypeOK
<1>2. /\ in_data % Half \in Word /\ in_data % Byte \in Word
      /\ SignExtHalf(in_data % Half) \in Word
      /\ SignExtByte(in_data % Byte) \in Word
  BY <1>1, WordParts, SignExtensions
<1> QED
  BY <1>1, <1>2 DEF LoadedValue, Loads

LEMMA ExecuteResultType ==
  ASSUME TypeOK
  PROVE  ExecuteResult \in [index : Reg, data : Word]
<1> DEFINE T == [index : Reg, data : Word]
<1>1. \A v \in Word : ToRa(v) \in T
  BY InstrTypes DEF ToRa
<1>2. Nothing \in T
  BY ZeroAndLr DEF Nothing, TypeOK
<1>3. mul.prod \in Word /\ div.quot \in Word
  BY DEF TypeOK, MulState, DivState
<1>4. special.ireta \in Word /\ special.idsta \in Word
  BY DEF TypeOK
<1>5. CASE IsMultiply
  <2>1. ExecuteResult = ToRa(IF stall_counter = STALL_COUNTER_MULTIPLY_32
                             THEN 0 ELSE mul.prod)
    BY <1>5 DEF ExecuteResult, IsMultiply, IsDivide, Mul_ThreeRegs,
         Udiv_ThreeRegs, Sdiv_ThreeRegs
  <2> QED
    BY <1>1, <1>3, <2>1, ZeroAndLr
<1>6. CASE IsDivide
  <2>1. ExecuteResult = ToRa(IF stall_counter = STALL_COUNTER_DIVIDE_32
                                \/ div_in.denom = 0
                             THEN 0 ELSE div.quot)
    BY <1>6 DEF ExecuteResult, IsMultiply, IsDivide, Mul_ThreeRegs,
         Udiv_ThreeRegs, Sdiv_ThreeRegs
  <2> QED
    BY <1>1, <1>3, <2>1, ZeroAndLr
<1>7. CASE ~IsMultiply /\ ~IsDivide
  <2>1. mde.instr.group \in 0 .. 6
    BY InstrTypes
  <2>2. CASE mde.instr.group = 0
    <3>1. ExecuteResult = ToRa(Alu(mde.instr.opcode, RbData, RcData))
      BY <1>7, <2>2 DEF ExecuteResult
    <3> QED
      BY <1>1, <3>1, InstrTypes, OperandTypes, AluAssumption
  <2>3. CASE mde.instr.group = 1
    BY <1>1, <1>7, <2>3, ImmediateResultType DEF ExecuteResult
  <2>4. CASE mde.instr.group \in {2, 3}
    BY <1>2, <1>7, <2>4 DEF ExecuteResult
  <2>5. CASE mde.instr.group = 4
    <3>1. ExecuteResult \in {[index |-> LR, data |-> FollowingPcExecute],
                             [index |-> 0, data |-> FollowingPcExecute], Nothing}
      BY <1>7, <2>5 DEF ExecuteResult
    <3> QED
      BY <1>2, <3>1, AddressTypes, ZeroAndLr
  <2>6. CASE mde.instr.group = 5
    BY <1>1, <1>2, <1>7, <2>6, LoadedValueType DEF ExecuteResult
  <2>7. CASE mde.instr.group = 6
    BY <1>1, <1>2, <1>4, <1>7, <2>7 DEF ExecuteResult
  <2> QED
    BY <2>1, <2>2, <2>3, <2>4, <2>5, <2>6, <2>7
<1> QED
  BY <1>5, <1>6, <1>7

LEMMA ExecuteTypes ==
  ASSUME TypeOK, ExecuteStage
  PROVE  /\ fwd0' \in [index : Reg, data : Word]
         /\ fwd1' \in [index : Reg, data : Word]
         /\ mul_in' \in [enable : BOOLEAN, x : Word, y : Word]
         /\ div_in' \in [enable : BOOLEAN, unsgn_or_sgn : BOOLEAN,
                         num : Word, denom : Word]
<1>0. /\ fwd0 \in [index : Reg, data : Word]
      /\ mul_in \in [enable : BOOLEAN, x : Word, y : Word]
      /\ div_in \in [enable : BOOLEAN, unsgn_or_sgn : BOOLEAN,
                     num : Word, denom : Word]
  BY DEF TypeOK
<1>1. fwd0' \in [index : Reg, data : Word] /\ fwd1' \in [index : Reg, data : Word]
  BY <1>0, ExecuteResultType DEF ExecuteStage
<1>2. CASE ExecuteMultiply
  BY <1>0, <1>1, <1>2, InstrTypes, OperandTypes DEF ExecuteMultiply
<1>3. CASE ExecuteDivide
  BY <1>0, <1>1, <1>3, OperandTypes DEF ExecuteDivide
<1>4. CASE ExecuteOther
  BY <1>0, <1>1, <1>4 DEF ExecuteOther
<1> QED
  BY <1>2, <1>3, <1>4 DEF ExecuteStage

(***************************************************************************)
(* Types of what the units assign.                                         *)
(***************************************************************************)
LEMMA RegFileTypes ==
  ASSUME RegFileTypeOK, NEW write \in WritePort,
         NEW a \in Reg, NEW b \in Reg, NEW c \in Reg,
         RegFileStep(write, a, b, c)
  PROVE  RegFileTypeOK'
<1>1. write.en \in BOOLEAN /\ write.sel \in Reg /\ write.data \in Word
  BY DEF WritePort
<1>2. \A r \in Reg : ReadSynchronous(write, r) \in Word
  BY <1>1 DEF ReadSynchronous, RegFileTypeOK
<1> QED
  BY <1>1, <1>2 DEF RegFileStep, RegFileTypeOK

LEMMA CellTypes == \A addr \in Word : CellOf(addr) \in Cell
<1> SUFFICES ASSUME NEW addr \in Word PROVE CellOf(addr) \in Cell
  OBVIOUS
<1>1. addr \div 4 \in Int
  BY WordSizes DEF Word
<1>2. MemWords \in Nat /\ MemWords > 0
  BY MemWordsAssumption
<1> QED
  BY <1>1, <1>2 DEF CellOf, Cell

LEMMA MemTypes ==
  ASSUME MemTypeOK, NEW request \in Bus, MemStep(request)
  PROVE  MemTypeOK'
<1>1. request.data \in Word /\ CellOf(request.addr) \in Cell
  BY CellTypes DEF Bus
<1> QED
  BY <1>1 DEF MemStep, MemTypeOK

(***************************************************************************)
(* Type correctness.                                                       *)
(***************************************************************************)
LEMMA InitTypeOK == Init => TypeOK
<1> SUFFICES ASSUME Init PROVE TypeOK
  OBVIOUS
<1>1. RegFileTypeOK
  BY ZeroAndLr DEF Init, RegFileInit, RegFileTypeOK
<1>2. MemTypeOK
  BY ZeroAndLr, ProgramsAssumption DEF Init, MemTypeOK
<1>3. mul \in MulState
  BY PowerUpAssumption DEF Init, MulInit, MulState
<1>4. div \in DivState
  BY DivInitTypes DEF Init
<1>5. stall_counter \in 0 .. STALL_COUNTER_DIVIDE_32 /\ stall_state \in StallState
  BY StallCounters DEF Init, STALL_COUNTER_INIT, StallState
<1>6. mde \in [raw : Word, pc_val : Word, instr : DecodedInstr]
  BY ZeroAndLr, DecodedTypes DEF Init
<1>7. bus \in Bus
  BY ZeroAndLr DEF Init, Bus, AccessType, AccessSize
<1>8. write_port \in WritePort
  BY ZeroAndLr DEF Init, WritePort
<1> QED
  BY <1>1, <1>2, <1>3, <1>4, <1>5, <1>6, <1>7, <1>8, ZeroAndLr DEF Init, TypeOK

\* The multiplier in the processor.
LEMMA MulTypes ==
  ASSUME mul \in MulState, NEW in \in [enable : BOOLEAN, x : Word, y : Word],
         MulStep(in)
  PROVE  mul' \in MulState
<1>1. CASE MulAccept(in)
  BY <1>1 DEF MulAccept, MulState
<1>2. CASE MulPartialProducts
  BY <1>2, HalfProducts DEF MulPartialProducts, MulState
<1>3. CASE MulSum
  <2>1. (mul.x1_y0 + mul.x0_y1) * Half + mul.x0_y0 \in Int
    BY WordSizes DEF MulState, Word
  <2> QED
    BY <1>3, <2>1, TruncIsWord DEF MulSum, MulState
<1>4. CASE MulIdle(in)
  BY <1>4 DEF MulIdle
<1> QED
  BY <1>1, <1>2, <1>3, <1>4 DEF MulStep

LEMMA NextTypeOK == TypeOK /\ [Next]_vars => TypeOK'
<1> SUFFICES ASSUME TypeOK, [Next]_vars PROVE TypeOK'
  OBVIOUS
<1>1. ASSUME NEW interrupt \in BOOLEAN, Cycle(interrupt) PROVE TypeOK'
  <2>1. /\ FetchStage(interrupt) /\ DecodeStage(interrupt)
        /\ ExecuteStage /\ WriteBackStage
        /\ RegFileStep(write_port, Decoded.ra, Decoded.rb, Decoded.rc)
        /\ MemStep(bus) /\ MulStep(mul_in) /\ DivStep(div_in)
    BY <1>1 DEF Cycle
  <2>2. RegFileTypeOK'
    <3>1. /\ RegFileTypeOK /\ write_port \in WritePort
          /\ Decoded.ra \in Reg /\ Decoded.rb \in Reg /\ Decoded.rc \in Reg
      BY DecoderTypes DEF TypeOK, DecodedInstr
    <3> QED
      BY <2>1, <3>1, RegFileTypes
  <2>3. MemTypeOK'
    BY <2>1, MemTypes DEF TypeOK
  <2>4. mul' \in MulState
    BY <2>1, MulTypes DEF TypeOK
  <2>5. div' \in DivState
    BY <2>1, DivTypes DEF TypeOK
  <2>6. write_port' \in WritePort
    BY <2>1 DEF WriteBackStage, WritePort, TypeOK
  <2>7. /\ pc' \in Word /\ pc_val' \in Word /\ bus' \in Bus
        /\ cond' \in [lts : BOOLEAN, ges : BOOLEAN, les : BOOLEAN, gts : BOOLEAN]
    BY <2>1, FetchTypes
  <2> QED
    BY <2>1, <2>2, <2>3, <2>4, <2>5, <2>6, <2>7, DecodeTypes, ExecuteTypes
       DEF TypeOK
<1>2. ASSUME UNCHANGED vars PROVE TypeOK'
  BY <1>2 DEF vars, StageVars, RegFileVars, MemVars, TypeOK, RegFileTypeOK,
     MemTypeOK
<1> QED
  BY <1>1, <1>2 DEF Next

\* Every register keeps a value of its width, for every word size, program,
\* instruction code and ALU: no addition, product, shift or partial remainder
\* of the processor, the multiplier or the divider leaves its signal.
THEOREM TypeCorrect == Spec => []TypeOK
<1>1. Init => TypeOK
  BY InitTypeOK
<1>2. TypeOK /\ [Next]_vars => TypeOK'
  BY NextTypeOK
<1> QED
  BY <1>1, <1>2, PTL DEF Spec

\* What every step of the clock does to the stall counter.
LEMMA CounterSteps ==
  ASSUME TypeOK, NEW interrupt \in BOOLEAN, DecodeStage(interrupt)
  PROVE  /\ stall_counter \in Nat
         /\ InStall => stall_counter' = stall_counter - 1 /\ DecodeInStall
         /\ ~InStall => stall_counter' = 0 \/ stall_counter' >= 2
<1>1. stall_counter \in Nat
  BY StallCounters DEF TypeOK
<1>2. CutToCounter(StallStart.counter) >= 2
  BY StallStartTypes, StallCounters
<1>3. CASE InStall
  BY <1>1, <1>3 DEF DecodeStage, DecodeInStall, DecodeSendsThrough,
     DecodeStalls, DecodeRespondsToInterrupt
<1>4. CASE ~InStall
  BY <1>1, <1>2, <1>4 DEF DecodeStage, DecodeInStall, DecodeSendsThrough,
     DecodeStalls, DecodeRespondsToInterrupt, InStall,
     STALL_COUNTER_RESPOND_TO_INTERRUPTS
<1> QED
  BY <1>1, <1>3, <1>4

(***************************************************************************)
(* Fetch.  FetchCoherence is inductive as it stands.                       *)
(***************************************************************************)
LEMMA ReadRequest ==
  ASSUME NEW address, prep_load_instruction(address)
  PROVE  pc' = address /\ pc_val' = pc /\ bus'.addr = address /\ ~WriteEnable(bus')
  BY DEF prep_load_instruction, prep_mem_read, WriteEnable

LEMMA FetchCoherenceStep ==
  ASSUME TypeOK, FetchCoherence, NEW interrupt \in BOOLEAN, Cycle(interrupt)
  PROVE  FetchCoherence'
<1>0. FetchStage(interrupt) /\ DecodeStage(interrupt) /\ MemStep(bus)
  BY DEF Cycle
<1>1. stall_counter \in Nat
  BY <1>0, CounterSteps
<1>2. CASE stall_counter > 2
  BY <1>0, <1>2, CounterSteps DEF FetchCoherence, InStall
<1>3. CASE stall_counter = 2
  <2>1. stall_counter' = 1
    BY <1>0, <1>3, CounterSteps DEF InStall
  <2>2. prep_load_instruction(StallTarget)
    BY <1>0, <1>3 DEF FetchStage, FetchMemAccess, FetchLatchComparisons,
       FetchAfterStall, FetchLastStallCycle, FetchWaits, FetchNext, FetchHolds,
       InStall
  <2> QED
    BY <2>1, <2>2, ReadRequest DEF FetchCoherence, InStall
<1>4. CASE stall_counter \in {0, 1}
  <2>1. mem' = mem /\ in_data' = mem[CellOf(pc)]
    BY <1>0, <1>4 DEF FetchCoherence, MemStep
  <2>2. CASE prep_load_instruction(Trunc(pc + 4))
    BY <2>1, <2>2, ReadRequest DEF FetchCoherence
  <2>3. CASE ~prep_load_instruction(Trunc(pc + 4))
    \* Only an instruction that stalls, or an interrupt, stops the fetching.
    <3>1. FetchHolds(interrupt)
      BY <1>0, <1>4, <2>3 DEF FetchStage, FetchMemAccess, FetchLatchComparisons,
         FetchAfterStall, FetchLastStallCycle, FetchWaits, FetchNext,
         prep_load_following_instruction
    <3>2. DecodeStalls(interrupt) \/ DecodeRespondsToInterrupt(interrupt)
      BY <1>0, <3>1 DEF FetchHolds, DecodeStage, DecodeInStall,
         DecodeSendsThrough
    <3>3. stall_counter' >= 2
      BY <3>2, StallStartTypes, StallCounters DEF DecodeStalls,
         DecodeRespondsToInterrupt, STALL_COUNTER_RESPOND_TO_INTERRUPTS
    <3> QED
      BY <3>3 DEF FetchCoherence, InStall
  <2> QED
    BY <2>2, <2>3
<1> QED
  BY <1>1, <1>2, <1>3, <1>4

\* The decoder is never shown a stale word, whatever the program stores where
\* and whenever interrupts arrive.
THEOREM FetchesCoherently == Spec => []FetchCoherence
<1>1. Init => FetchCoherence
  BY DEF Init, FetchCoherence, InStall, STALL_COUNTER_INIT
<1>2. TypeOK /\ FetchCoherence /\ [Next]_vars => FetchCoherence'
  <2>1. ASSUME UNCHANGED vars, FetchCoherence PROVE FetchCoherence'
    BY <2>1 DEF vars, StageVars, RegFileVars, MemVars, FetchCoherence, InStall
  <2> QED
    BY <2>1, FetchCoherenceStep DEF Next
<1> QED
  BY <1>1, <1>2, TypeCorrect, PTL DEF Spec

(***************************************************************************)
(* Operands.  That they are the newest values follows from how the three   *)
(* paths to the execute stage agree with one another.                      *)
(***************************************************************************)
\* The second forwarding register and the write port hold the same result.
ForwardingAgrees ==
  IF write_port.en
  THEN fwd1.index = write_port.sel /\ fwd1.data = write_port.data
  ELSE fwd1.index = 0

\* In a stall the decoder looks at the word of the instruction in the execute
\* stage, which may have become a bubble.
StallKeepsInstr ==
  InStall =>
    /\ mde.instr.ra \in {0, Decoded.ra}
    /\ mde.instr.rb \in {0, Decoded.rb}
    /\ mde.instr.rc \in {0, Decoded.rc}

\* The read that was started with the decode stage's register numbers has
\* delivered what the register file holds now.
ReadAgrees ==
  /\ mde.instr.ra # 0 => read_data.ra = regfile[mde.instr.ra]
  /\ mde.instr.rb # 0 => read_data.rb = regfile[mde.instr.rb]
  /\ mde.instr.rc # 0 => read_data.rc = regfile[mde.instr.rc]

OperandInv == ForwardingAgrees /\ StallKeepsInstr /\ ReadAgrees

LEMMA OperandInvImplies == OperandInv => OperandsAreNewest
<1> SUFFICES ASSUME OperandInv PROVE OperandsAreNewest
  OBVIOUS
<1>1. ASSUME NEW r, NEW d, r # 0 => d = regfile[r]
      PROVE  Forward(r, d) = Newest(r)
  <2>1. CASE r = 0
    BY <2>1 DEF Forward, Newest
  <2>2. CASE r # 0 /\ r = fwd0.index
    BY <2>2 DEF Forward, Newest
  <2>3. CASE r # 0 /\ r # fwd0.index /\ r = fwd1.index
    BY <2>3 DEF Forward, Newest, OperandInv, ForwardingAgrees
  <2>4. CASE r # 0 /\ r # fwd0.index /\ r # fwd1.index
    BY <1>1, <2>4 DEF Forward, Newest, OperandInv, ForwardingAgrees
  <2> QED
    BY <2>1, <2>2, <2>3, <2>4
<1> QED
  BY <1>1 DEF OperandInv, ReadAgrees, OperandsAreNewest, RaData, RbData, RcData

\* What the execute stage holds after a step, by register number.
LEMMA NextInstr ==
  ASSUME TypeOK, StallKeepsInstr, NEW interrupt \in BOOLEAN,
         DecodeStage(interrupt)
  PROVE  /\ mde'.instr.ra \in {0, Decoded.ra}
         /\ mde'.instr.rb \in {0, Decoded.rb}
         /\ mde'.instr.rc \in {0, Decoded.rc}
         /\ StallKeepsInstr'
<1>0. mde \in [raw : Word, pc_val : Word, instr : DecodedInstr]
  BY DEF TypeOK
<1>1. /\ Bubble.instr.ra = 0 /\ Bubble.instr.rb = 0 /\ Bubble.instr.rc = 0
  BY <1>0 DEF Bubble, NoInstr
<1>2. CASE DecodeInStall
  <2>1. stall_counter = 1 \/ mde' = mde
    BY <1>2 DEF DecodeInStall
  <2>2. stall_counter = 1 => ~InStall' /\ mde' = Bubble
    BY <1>2 DEF DecodeInStall, InStall
  <2> QED
    BY <1>1, <1>2, <2>1, <2>2 DEF DecodeInStall, StallKeepsInstr, InStall, Decoded
<1>3. CASE DecodeSendsThrough(interrupt)
  BY <1>3 DEF DecodeSendsThrough, send_instr_through, StallKeepsInstr, InStall
<1>4. CASE DecodeStalls(interrupt)
  <2>1. mde'.raw = in_data /\ mde'.instr = DecodeWord(in_data) /\ ~InStall
    BY <1>4 DEF DecodeStalls, send_instr_through, Decoded
  <2>2. InStall' => Decoded' = DecodeWord(mde'.raw)
    BY DEF Decoded
  <2> QED
    BY <2>1, <2>2 DEF StallKeepsInstr, Decoded
<1>5. CASE DecodeRespondsToInterrupt(interrupt)
  BY <1>1, <1>5 DEF DecodeRespondsToInterrupt, StallKeepsInstr
<1> QED
  BY <1>2, <1>3, <1>4, <1>5 DEF DecodeStage

LEMMA OperandInvStep ==
  ASSUME TypeOK, OperandInv, NEW interrupt \in BOOLEAN, Cycle(interrupt)
  PROVE  OperandInv'
<1>0. /\ DecodeStage(interrupt) /\ ExecuteStage /\ WriteBackStage
      /\ RegFileStep(write_port, Decoded.ra, Decoded.rb, Decoded.rc)
  BY DEF Cycle
<1>1. ForwardingAgrees'
  BY <1>0 DEF ExecuteStage, WriteBackStage, ForwardingAgrees
<1>2. /\ mde'.instr.ra \in {0, Decoded.ra}
      /\ mde'.instr.rb \in {0, Decoded.rb}
      /\ mde'.instr.rc \in {0, Decoded.rc}
      /\ StallKeepsInstr'
  BY <1>0, NextInstr DEF OperandInv
<1>3. \A r \in Reg : r # 0 => ReadSynchronous(write_port, r) = regfile'[r]
  BY <1>0 DEF RegFileStep, ReadSynchronous, TypeOK, RegFileTypeOK, WritePort
<1>4. Decoded.ra \in Reg /\ Decoded.rb \in Reg /\ Decoded.rc \in Reg
  BY DecoderTypes DEF DecodedInstr
<1>5. /\ read_data'.ra = ReadSynchronous(write_port, Decoded.ra)
      /\ read_data'.rb = ReadSynchronous(write_port, Decoded.rb)
      /\ read_data'.rc = ReadSynchronous(write_port, Decoded.rc)
  BY <1>0 DEF RegFileStep
<1>6. ReadAgrees'
  BY <1>2, <1>3, <1>4, <1>5 DEF ReadAgrees
<1> QED
  BY <1>1, <1>2, <1>6 DEF OperandInv

LEMMA OperandInvCorrect == Spec => []OperandInv
<1>1. Init => OperandInv
  BY DEF Init, OperandInv, ForwardingAgrees, StallKeepsInstr, ReadAgrees, NoInstr
<1>2. TypeOK /\ OperandInv /\ [Next]_vars => OperandInv'
  <2>1. ASSUME UNCHANGED vars, OperandInv PROVE OperandInv'
    BY <2>1 DEF vars, StageVars, RegFileVars, MemVars, OperandInv,
       ForwardingAgrees, StallKeepsInstr, ReadAgrees, InStall, Decoded
  <2> QED
    BY <2>1, OperandInvStep DEF Next
<1> QED
  BY <1>1, <1>2, TypeCorrect, PTL DEF Spec

\* In every cycle of every program the operands of the instruction in the
\* execute stage are the newest values of its registers.
THEOREM OperandsCorrect == Spec => []OperandsAreNewest
  BY OperandInvCorrect, OperandInvImplies, PTL

(***************************************************************************)
(* Memory.  A write request is on the bus only in the cycle after a store  *)
(* made it, and the store's operands have not changed since.               *)
(***************************************************************************)
StoresAreGroup5 ==
  mde.instr.ldst_type \in Stores => mde.instr.group = 5

WriteIsFromStore ==
  WriteEnable(bus) =>
    /\ stall_counter = 2
    /\ mde.instr.ldst_type \in Stores
    /\ bus.addr = LdstAddress
    /\ bus.data = RaData

MemInv == OperandInv /\ StoresAreGroup5 /\ WriteIsFromStore

\* The word the decoder gives out says of itself that it is of group 5 if it
\* is a store; so does a bubble.
LEMMA DecodedStores ==
  /\ \A w \in Word : DecodeWord(w).ldst_type \in Stores => DecodeWord(w).group = 5
  /\ NoInstr.ldst_type \notin Stores
<1>1. ASSUME NEW w \in Word, DecodeWord(w).ldst_type \in Stores
      PROVE  DecodeWord(w).group = 5
  <2> DEFINE in == Code[w]
  <2> HIDE DEF in
  <2>1. Decode(in).ldst_type \in Stores
    BY <1>1 DEF DecodeWord, in
  <2>2. Decode(in).group = 5
    BY <2>1 DEF Decode, Stores, St32, St16, St8
  <2> QED
    BY <2>2 DEF DecodeWord, in
<1>2. NoInstr.ldst_type \notin Stores
  BY DEF NoInstr, Stores, St32, St16, St8
<1> QED
  BY <1>1, <1>2

LEMMA StoresAreGroup5Step ==
  ASSUME TypeOK, StoresAreGroup5, NEW interrupt \in BOOLEAN,
         DecodeStage(interrupt)
  PROVE  StoresAreGroup5'
<1>1. \/ mde' = mde
      \/ mde'.instr = Decoded
      \/ mde' = Bubble
  BY DEF DecodeStage, DecodeInStall, DecodeSendsThrough, DecodeStalls,
     DecodeRespondsToInterrupt, send_instr_through
<1>2. Decoded.ldst_type \in Stores => Decoded.group = 5
  BY DecodedStores DEF Decoded, TypeOK, MemTypeOK
<1>3. Bubble.instr.ldst_type = NoInstr.ldst_type
  <2>1. mde \in [raw : Word, pc_val : Word, instr : DecodedInstr]
    BY DEF TypeOK
  <2> QED
    BY <2>1 DEF Bubble, NoInstr
<1> QED
  BY <1>1, <1>2, <1>3, DecodedStores DEF StoresAreGroup5

\* A step in which the execute stage hands on nothing leaves the newest value
\* of every register as it was.
LEMMA NewestStays ==
  ASSUME TypeOK, ExecuteStage, WriteBackStage,
         RegFileStep(write_port, Decoded.ra, Decoded.rb, Decoded.rc),
         ExecuteResult.index = 0, NEW r \in Reg
  PROVE  Newest(r)' = Newest(r)
<1>1. fwd0'.index = 0 /\ write_port'.en /\ write_port'.sel = fwd0.index
      /\ write_port'.data = fwd0.data
  BY DEF ExecuteStage, WriteBackStage
<1>2. regfile'[r] = IF write_port.en /\ write_port.sel # 0 /\ write_port.sel = r
                    THEN write_port.data ELSE regfile[r]
  BY DEF RegFileStep, TypeOK, RegFileTypeOK, WritePort
<1>3. CASE r = 0
  BY <1>3 DEF Newest
<1>4. CASE r # 0 /\ fwd0.index = r
  BY <1>1, <1>4 DEF Newest
<1>5. CASE r # 0 /\ fwd0.index # r
  BY <1>1, <1>2, <1>5 DEF Newest
<1> QED
  BY <1>3, <1>4, <1>5

LEMMA MemInvStep ==
  ASSUME TypeOK, MemInv, NEW interrupt \in BOOLEAN, Cycle(interrupt)
  PROVE  MemInv'
<1>0. /\ FetchStage(interrupt) /\ DecodeStage(interrupt)
      /\ ExecuteStage /\ WriteBackStage
      /\ RegFileStep(write_port, Decoded.ra, Decoded.rb, Decoded.rc)
  BY DEF Cycle
<1>1. OperandInv'
  BY OperandInvStep DEF MemInv
<1>2. StoresAreGroup5'
  BY <1>0, StoresAreGroup5Step DEF MemInv
<1>3. ASSUME WriteEnable(bus)' PROVE WriteIsFromStore'
  <2>1. FetchMemAccess /\ mde.instr.ldst_type \notin Loads
    <3>1. CASE bus' = bus
      <4>1. stall_counter = 2
        BY <1>3, <3>1 DEF MemInv, WriteIsFromStore, WriteEnable
      <4>2. FetchAfterStall
        BY <1>0, <4>1 DEF FetchStage, FetchMemAccess, FetchLatchComparisons,
           FetchAfterStall, FetchLastStallCycle, FetchWaits, FetchNext,
           FetchHolds, InStall
      <4> QED
        BY <1>3, <4>2, ReadRequest DEF FetchAfterStall
    <3>2. CASE bus' # bus
      <4>1. ~FetchLatchComparisons /\ ~FetchWaits /\ ~FetchHolds(interrupt)
        BY <3>2 DEF FetchLatchComparisons, FetchWaits, FetchHolds, FetchNothing
      <4>2. ~FetchAfterStall /\ ~FetchLastStallCycle /\ ~FetchNext(interrupt)
        BY <1>3, ReadRequest DEF FetchAfterStall, FetchLastStallCycle, FetchNext,
           prep_load_following_instruction
      <4>3. FetchMemAccess
        BY <1>0, <4>1, <4>2 DEF FetchStage
      <4>4. mde.instr.ldst_type \notin Loads
        BY <1>3, <4>3 DEF FetchMemAccess, prep_mem_read, WriteEnable
      <4> QED
        BY <4>3, <4>4
    <3> QED
      BY <3>1, <3>2
  <2>2. mde.instr.ldst_type \in Stores /\ mde.instr.group = 5
    <3>1. mde.instr.ldst_type \in Stores
      BY <2>1, InstrTypes DEF Loads, Stores, Ld32, LdU16, LdS16, LdU8, LdS8,
         St32, St16, St8
    <3> QED
      BY <3>1 DEF MemInv, StoresAreGroup5
  <2>3. bus'.addr = LdstAddress /\ bus'.data = RaData
    BY <2>1 DEF FetchMemAccess, prep_mem_write
  <2>4. stall_counter = 3 /\ stall_counter' = 2 /\ mde' = mde
    BY <1>0, <2>1, CounterSteps DEF FetchMemAccess, InStall, DecodeInStall
  <2>5. ExecuteResult.index = 0
    <3>1. ~IsMultiply /\ ~IsDivide
      BY <2>2 DEF IsMultiply, IsDivide
    <3>2. ExecuteResult = Nothing
      BY <2>2, <2>4, <3>1 DEF ExecuteResult
    <3> QED
      BY <3>2 DEF Nothing, TypeOK
  <2>6. \A r \in Reg : Newest(r)' = Newest(r)
    BY <1>0, <2>5, NewestStays
  <2>7. OperandsAreNewest /\ OperandsAreNewest'
    BY <1>1, OperandInvImplies, PTL DEF MemInv
  <2>8. RaData' = RaData /\ RbData' = RbData /\ RcData' = RcData
    BY <2>4, <2>6, <2>7, InstrTypes DEF OperandsAreNewest
  <2>9. LdstAddress' = LdstAddress
    BY <2>4, <2>8 DEF LdstAddress
  <2> QED
    BY <2>2, <2>3, <2>4, <2>8, <2>9 DEF WriteIsFromStore
<1>4. WriteIsFromStore'
  BY <1>3 DEF WriteIsFromStore
<1> QED
  BY <1>1, <1>2, <1>4 DEF MemInv

\* A write on the bus is the store's in the execute stage.
LEMMA MemInvCorrect == Spec => []MemInv
<1>1. Init => MemInv
  BY DecodedStores DEF Init, MemInv, OperandInv, ForwardingAgrees,
     StallKeepsInstr, ReadAgrees, NoInstr, StoresAreGroup5, WriteIsFromStore,
     WriteEnable
<1>2. TypeOK /\ MemInv /\ [Next]_vars => MemInv'
  <2>1. ASSUME UNCHANGED vars, MemInv PROVE MemInv'
    BY <2>1 DEF vars, StageVars, RegFileVars, MemVars, MemInv, OperandInv,
       ForwardingAgrees, StallKeepsInstr, ReadAgrees, InStall, Decoded,
       StoresAreGroup5, WriteIsFromStore, LdstAddress, RaData, RbData, RcData,
       Forward
  <2> QED
    BY <2>1, MemInvStep DEF Next
<1> QED
  BY <1>1, <1>2, TypeCorrect, PTL DEF Spec

\* Memory changes only when a store writes it, once, at the address and with
\* the value of its operands.
THEOREM StoresOnly == Spec => MemWrittenOnlyByStores
<1>1. MemInv /\ [Next]_vars =>
        [mem' # mem =>
           /\ mde.instr.group = 5 /\ mde.instr.ldst_type \in Stores
           /\ stall_counter = 2
           /\ mem' = [mem EXCEPT ![CellOf(LdstAddress)] = RaData]]_vars
  <2>1. ASSUME MemInv, NEW interrupt \in BOOLEAN, Cycle(interrupt), mem' # mem
        PROVE  /\ mde.instr.group = 5 /\ mde.instr.ldst_type \in Stores
               /\ stall_counter = 2
               /\ mem' = [mem EXCEPT ![CellOf(LdstAddress)] = RaData]
    <3>1. /\ WriteEnable(bus)
          /\ mem' = [mem EXCEPT ![CellOf(bus.addr)] = bus.data]
      BY <2>1 DEF Cycle, MemStep
    <3> QED
      BY <2>1, <3>1 DEF MemInv, WriteIsFromStore, StoresAreGroup5
  <2> QED
    BY <2>1 DEF Next
<1> QED
  BY <1>1, MemInvCorrect, PTL DEF Spec, MemWrittenOnlyByStores

(***************************************************************************)
(* The timetable of a multiplication, by stall counter.                    *)
(***************************************************************************)
\* A multiplication is in the execute stage only during its own stall.
MultiplyStalls ==
  IsMultiply => stall_counter \in 1 .. STALL_COUNTER_MULTIPLY_32

MultiplierIdle == ~mul_in.enable /\ mul.can_accept_cmd

MultiplierTimetable ==
  /\ ~IsMultiply \/ stall_counter = 5 => MultiplierIdle
  /\ IsMultiply /\ stall_counter = 4 =>
       mul_in.enable /\ mul.can_accept_cmd
  /\ IsMultiply /\ stall_counter = 3 =>
       /\ ~mul_in.enable /\ ~mul.can_accept_cmd /\ mul.state = 1
       /\ mul.x = mul_in.x /\ mul.y = mul_in.y
  /\ IsMultiply /\ stall_counter = 2 =>
       /\ ~mul_in.enable /\ ~mul.can_accept_cmd /\ mul.state = 0
       /\ mul.x0_y0 = (mul_in.x % Half) * (mul_in.y % Half)
       /\ mul.x0_y1 = (mul_in.x % Half) * (mul_in.y \div Half)
       /\ mul.x1_y0 = (mul_in.x \div Half) * (mul_in.y % Half)
  /\ IsMultiply /\ stall_counter = 1 =>
       /\ ~mul_in.enable /\ mul.can_accept_cmd /\ mul.data_ready
       /\ mul.prod = Trunc(mul_in.x * mul_in.y)

MulInv == MultiplyStalls /\ MultiplierTimetable

LEMMA MulInvImplies == TypeOK /\ MulInv => MultiplierInTime
  BY DEF MulInv, MultiplyStalls, MultiplierTimetable, MultiplierIdle,
     MultiplierInTime, STALL_COUNTER_MULTIPLY_32

\* The decoder lets every multiplication stall.
LEMMA DecodedMultiplies ==
  \A w \in Word :
    \/ DecodeWord(w).group = 0 /\ DecodeWord(w).opcode = Mul_ThreeRegs
    \/ DecodeWord(w).group = 1 /\ DecodeWord(w).opcode = Muli_TwoRegsOneImm
    => DecodeWord(w).causes_stall
<1> SUFFICES ASSUME NEW w \in Word,
                    \/ DecodeWord(w).group = 0 /\ DecodeWord(w).opcode = Mul_ThreeRegs
                    \/ DecodeWord(w).group = 1 /\ DecodeWord(w).opcode = Muli_TwoRegsOneImm
             PROVE  DecodeWord(w).causes_stall
  OBVIOUS
<1> DEFINE in == Code[w]
<1>1. DecodeWord(w) = Decode(in)
  BY DEF DecodeWord
<1> HIDE DEF in
<1>2. \/ Decode(in).group = 0 /\ Decode(in).opcode = Mul_ThreeRegs
      \/ Decode(in).group = 1 /\ Decode(in).opcode = Muli_TwoRegsOneImm
  BY <1>1
<1>3. ~(in.group > 6)
  BY <1>2 DEF Decode, Mul_ThreeRegs, Muli_TwoRegsOneImm
<1>4. Decode(in).causes_stall = CausesStall(in.group, in.opcode)
      /\ Decode(in).group = in.group /\ Decode(in).opcode = in.opcode
  BY <1>3 DEF Decode
<1>5. CausesStall(in.group, in.opcode)
  BY <1>2, <1>4 DEF CausesStall
<1> QED
  BY <1>1, <1>4, <1>5

\* A multiplication enters the execute stage with its counter, stays there
\* while the counter runs down, and becomes a bubble with it.
LEMMA MultiplyComesAndGoes ==
  ASSUME TypeOK, MultiplyStalls, NEW interrupt \in BOOLEAN,
         DecodeStage(interrupt)
  PROVE  \/ ~IsMultiply /\ ~IsMultiply'
         \/ ~IsMultiply /\ IsMultiply' /\ stall_counter' = 5
         \/ IsMultiply /\ IsMultiply' /\ stall_counter' = stall_counter - 1
              /\ stall_counter \in 2 .. 5
         \/ IsMultiply /\ ~IsMultiply' /\ stall_counter = 1
<1>0. /\ stall_counter \in Nat /\ in_data \in Word
      /\ mde \in [raw : Word, pc_val : Word, instr : DecodedInstr]
  BY StallCounters DEF TypeOK, MemTypeOK
<1>1. mde' = Bubble => ~IsMultiply'
  BY <1>0 DEF Bubble, NoInstr, IsMultiply, Mul_ThreeRegs
<1>2. ~InStall => ~IsMultiply
  BY DEF MultiplyStalls, InStall
<1>3. CASE DecodeInStall
  BY <1>0, <1>1, <1>3 DEF DecodeInStall, InStall, MultiplyStalls, IsMultiply,
     STALL_COUNTER_MULTIPLY_32
<1>4. CASE DecodeSendsThrough(interrupt)
  <2>1. mde'.instr = DecodeWord(in_data) /\ ~DecodeWord(in_data).causes_stall
    BY <1>4 DEF DecodeSendsThrough, send_instr_through, Decoded
  <2>2. ~IsMultiply'
    BY <1>0, <2>1, DecodedMultiplies DEF IsMultiply
  <2> QED
    BY <1>2, <1>4, <2>2 DEF DecodeSendsThrough
<1>5. CASE DecodeStalls(interrupt)
  <2>1. mde'.instr = Decoded /\ stall_counter' = StallStart.counter
    BY <1>5, StallStartTypes DEF DecodeStalls, send_instr_through
  <2>2. IsMultiply' => StallStart.counter = 5
    BY <2>1 DEF IsMultiply, StallStart, STALL_COUNTER_MULTIPLY_32
  <2> QED
    BY <1>2, <1>5, <2>1, <2>2 DEF DecodeStalls
<1>6. CASE DecodeRespondsToInterrupt(interrupt)
  BY <1>1, <1>2, <1>6 DEF DecodeRespondsToInterrupt
<1> QED
  BY <1>3, <1>4, <1>5, <1>6 DEF DecodeStage

LEMMA MulInvStep ==
  ASSUME TypeOK, MulInv, NEW interrupt \in BOOLEAN, Cycle(interrupt)
  PROVE  MulInv'
<1>0. DecodeStage(interrupt) /\ ExecuteStage /\ MulStep(mul_in)
  BY DEF Cycle
<1>1. /\ mul_in.x \in Word /\ mul_in.y \in Word /\ mul \in MulState
      /\ mul_in \in [enable : BOOLEAN, x : Word, y : Word]
  BY DEF TypeOK
<1>2. \/ ~IsMultiply /\ ~IsMultiply'
      \/ ~IsMultiply /\ IsMultiply' /\ stall_counter' = 5
      \/ IsMultiply /\ IsMultiply' /\ stall_counter' = stall_counter - 1
           /\ stall_counter \in 2 .. 5
      \/ IsMultiply /\ ~IsMultiply' /\ stall_counter = 1
  BY <1>0, MultiplyComesAndGoes DEF MulInv
<1>3. MultiplyStalls'
  BY <1>2 DEF MultiplyStalls, STALL_COUNTER_MULTIPLY_32
<1>4. ~IsMultiply => mul_in' = mul_in
  BY <1>0 DEF ExecuteStage, ExecuteMultiply, ExecuteDivide, ExecuteOther
<1>5. IsMultiply => ExecuteMultiply
  BY <1>0 DEF ExecuteStage, ExecuteDivide, ExecuteOther, IsMultiply, IsDivide,
     Mul_ThreeRegs, Udiv_ThreeRegs, Sdiv_ThreeRegs
<1>6. mul.can_accept_cmd /\ ~mul_in.enable => mul' = mul
  BY <1>0 DEF MulStep, MulAccept, MulPartialProducts, MulSum, MulIdle
<1>7. CASE ~IsMultiply
  <2>1. mul_in' = mul_in /\ mul' = mul
    BY <1>4, <1>6, <1>7 DEF MulInv, MultiplierTimetable, MultiplierIdle
  <2> QED
    BY <1>2, <1>3, <1>7, <2>1 DEF MulInv, MultiplierTimetable, MultiplierIdle
<1>8. CASE IsMultiply /\ stall_counter = 5
  <2>1. mul' = mul /\ mul_in'.enable
    BY <1>5, <1>6, <1>8
       DEF MulInv, MultiplierTimetable, MultiplierIdle, ExecuteMultiply,
           STALL_COUNTER_MULTIPLY_32
  <2>2. stall_counter' = 4
    BY <1>2, <1>8
  <2> QED
    BY <1>2, <1>3, <1>8, <2>1, <2>2
       DEF MulInv, MultiplierTimetable, MultiplierIdle
<1>9. CASE IsMultiply /\ stall_counter \in {1, 2, 3, 4}
  <2>1. ~mul_in'.enable /\ mul_in'.x = mul_in.x /\ mul_in'.y = mul_in.y
    BY <1>1, <1>5, <1>9 DEF ExecuteMultiply, STALL_COUNTER_MULTIPLY_32
  <2>2. CASE stall_counter = 4
    <3>1. MulAccept(mul_in)
      BY <1>0, <1>9, <2>2 DEF MulInv, MultiplierTimetable, MulStep,
         MulPartialProducts, MulSum, MulIdle
    <3>2. /\ ~mul'.can_accept_cmd /\ mul'.state = 1
          /\ mul'.x = mul_in.x /\ mul'.y = mul_in.y
      BY <1>1, <3>1 DEF MulAccept, MulState
    <3>3. IsMultiply' /\ stall_counter' = 3
      BY <1>2, <1>9, <2>2
    <3> QED
      BY <1>3, <2>1, <3>2, <3>3 DEF MulInv, MultiplierTimetable
  <2>3. CASE stall_counter = 3
    <3>1. MulPartialProducts /\ mul.x = mul_in.x /\ mul.y = mul_in.y
      BY <1>0, <1>9, <2>3 DEF MulInv, MultiplierTimetable, MulStep, MulAccept,
         MulSum, MulIdle
    <3>2. /\ ~mul'.can_accept_cmd /\ mul'.state = 0
          /\ mul'.x0_y0 = (mul_in.x % Half) * (mul_in.y % Half)
          /\ mul'.x0_y1 = (mul_in.x % Half) * (mul_in.y \div Half)
          /\ mul'.x1_y0 = (mul_in.x \div Half) * (mul_in.y % Half)
      BY <1>1, <3>1 DEF MulPartialProducts, MulState
    <3>3. IsMultiply' /\ stall_counter' = 2
      BY <1>2, <1>9, <2>3
    <3> QED
      BY <1>3, <2>1, <3>2, <3>3 DEF MulInv, MultiplierTimetable
  <2>4. CASE stall_counter = 2
    <3>1. /\ MulSum
          /\ mul.x0_y0 = (mul_in.x % Half) * (mul_in.y % Half)
          /\ mul.x0_y1 = (mul_in.x % Half) * (mul_in.y \div Half)
          /\ mul.x1_y0 = (mul_in.x \div Half) * (mul_in.y % Half)
      BY <1>0, <1>9, <2>4 DEF MulInv, MultiplierTimetable, MulStep, MulAccept,
         MulPartialProducts, MulIdle
    <3>2. /\ mul'.can_accept_cmd /\ mul'.data_ready
          /\ mul'.prod = Trunc((mul.x1_y0 + mul.x0_y1) * Half + mul.x0_y0)
      BY <1>1, <3>1 DEF MulSum, MulState
    <3>3. mul'.prod = Trunc(mul_in.x * mul_in.y)
      BY <1>1, <3>1, <3>2, LowWordOfProduct
    <3>4. IsMultiply' /\ stall_counter' = 1
      BY <1>2, <1>9, <2>4
    <3> QED
      BY <1>3, <2>1, <3>2, <3>3, <3>4 DEF MulInv, MultiplierTimetable
  <2>5. CASE stall_counter = 1
    <3>1. mul' = mul /\ mul.can_accept_cmd
      BY <1>6, <1>9, <2>5 DEF MulInv, MultiplierTimetable
    <3>2. ~IsMultiply'
      BY <1>2, <1>9, <2>5
    <3> QED
      BY <1>3, <2>1, <3>1, <3>2 DEF MulInv, MultiplierTimetable, MultiplierIdle
  <2> QED
    BY <1>9, <2>2, <2>3, <2>4, <2>5
<1>10. ~IsMultiply \/ stall_counter \in 1 .. 5
  BY DEF MulInv, MultiplyStalls, STALL_COUNTER_MULTIPLY_32
<1> QED
  BY <1>7, <1>8, <1>9, <1>10

\* The five stall cycles of a multiplication are enough, for every program and
\* power-up value: its command is always accepted, and its product is there
\* and right when it is taken.
THEOREM ProductsInTime == Spec => []MultiplierInTime
<1>1. Init => MulInv
  BY DEF Init, MulInit, MulInv, MultiplyStalls, MultiplierTimetable,
     MultiplierIdle, IsMultiply, NoInstr, Mul_ThreeRegs
<1>2. TypeOK /\ MulInv /\ [Next]_vars => MulInv'
  <2>1. ASSUME UNCHANGED vars, MulInv PROVE MulInv'
    BY <2>1 DEF vars, StageVars, MulInv, MultiplyStalls, MultiplierTimetable,
       MultiplierIdle, IsMultiply
  <2> QED
    BY <2>1, MulInvStep DEF Next
<1>3. TypeOK /\ MulInv => MultiplierInTime
  BY MulInvImplies
<1> QED
  BY <1>1, <1>2, <1>3, TypeCorrect, PTL DEF Spec

LEMMA QuotientIsOfCommand ==
  ASSUME TypeOK
  PROVE  Quotient = QuotientOf(div_in)
<1>1. div_in.num \in Word /\ div_in.denom \in Word
  BY DEF TypeOK
<1>2. \A w \in Word : Signed(w) < 0 <=> IsNegative(w)
  BY WordSizes DEF Signed, IsNegative, Word
<1>3. \A w \in Word :
        (IF div_in.unsgn_or_sgn /\ Signed(w) < 0 THEN Trunc(-w) ELSE w)
          = Size(div_in, w)
  BY <1>2 DEF Size, Negate
<1>4. (Signed(div_in.num) < 0) = IsNegative(div_in.num)
      /\ (Signed(div_in.denom) < 0) = IsNegative(div_in.denom)
  BY <1>1, <1>2 DEF IsNegative
<1> QED
  BY <1>1, <1>3, <1>4 DEF Quotient, QuotientOf, Negate

(***************************************************************************)
(* The timetable of a division, by stall counter.                          *)
(***************************************************************************)
\* A division is in the execute stage only during its own stall.
DivideStalls == IsDivide => stall_counter \in 1 .. Cycles + 7

\* The build in which the control sees the registers of after the edge has the
\* result one cycle earlier.
DividerAt(left) ==
  /\ left = Cycles + 7 => ~div_in.enable /\ Waiting(div)
  /\ left = Cycles + 6 => div_in.enable /\ Waiting(div)
  /\ left < Cycles + 6 => ~div_in.enable
  /\ left = Cycles + 5 => Accepted(div, div_in)
  /\ left = Cycles + 4 => Sized(div, div_in)
  /\ left \in 4 .. Cycles + 3 => Iterating(div, div_in, left - 3)
  /\ left = 3 => IF div.blocking_first THEN SignsPutBack(div, div_in)
                                       ELSE Iterated(div, div_in)
  /\ left = 2 => IF div.blocking_first THEN Ready(div, div_in)
                                       ELSE SignsPutBack(div, div_in)
  /\ left = 1 => Ready(div, div_in)

DividerTimetable ==
  IF IsDivide THEN DividerAt(stall_counter)
              ELSE ~div_in.enable /\ Waiting(div)

DivInv == DivideStalls /\ DividerTimetable

LEMMA DivInvImplies == TypeOK /\ DivInv => DividerInTime
<1> SUFFICES ASSUME TypeOK, DivInv PROVE DividerInTime
  OBVIOUS
<1>1. Quotient = QuotientOf(div_in)
  BY QuotientIsOfCommand
<1>2. div_in.enable => div.can_accept_cmd
  <2>1. CASE IsDivide
    <3>1. stall_counter \in 1 .. Cycles + 7
      BY <2>1 DEF DivInv, DivideStalls
    <3>2. div_in.enable => ~(stall_counter < Cycles + 6) /\ stall_counter # Cycles + 7
      BY <2>1 DEF DivInv, DividerTimetable, DividerAt
    <3>3. div_in.enable => stall_counter = Cycles + 6
      BY <3>1, <3>2, CyclesFacts
    <3> QED
      BY <2>1, <3>3 DEF DivInv, DividerTimetable, DividerAt, Waiting
  <2>2. CASE ~IsDivide
    BY <2>2 DEF DivInv, DividerTimetable
  <2> QED
    BY <2>1, <2>2
<1>3. stall_counter = 1 /\ IsDivide => Ready(div, div_in)
  BY DEF DivInv, DividerTimetable, DividerAt
<1> QED
  BY <1>1, <1>2, <1>3 DEF DividerInTime, Ready

\* The decoder lets every division stall.
LEMMA DecodedDivides ==
  \A w \in Word :
    DecodeWord(w).group = 0
      /\ DecodeWord(w).opcode \in {Udiv_ThreeRegs, Sdiv_ThreeRegs}
    => DecodeWord(w).causes_stall
<1> SUFFICES ASSUME NEW w \in Word, DecodeWord(w).group = 0,
                    DecodeWord(w).opcode \in {Udiv_ThreeRegs, Sdiv_ThreeRegs}
             PROVE  DecodeWord(w).causes_stall
  OBVIOUS
<1> DEFINE in == Code[w]
<1>1. DecodeWord(w) = Decode(in)
  BY DEF DecodeWord
<1> HIDE DEF in
<1>2. ~(in.group > 6)
  BY <1>1 DEF Decode, Udiv_ThreeRegs, Sdiv_ThreeRegs
<1>3. Decode(in).causes_stall = CausesStall(in.group, in.opcode)
      /\ Decode(in).group = in.group /\ Decode(in).opcode = in.opcode
  BY <1>2 DEF Decode
<1>4. CausesStall(in.group, in.opcode)
  BY <1>1, <1>3 DEF CausesStall
<1> QED
  BY <1>1, <1>3, <1>4

\* A division enters the execute stage with its counter, stays there while the
\* counter runs down, and becomes a bubble with it.
LEMMA DivideComesAndGoes ==
  ASSUME TypeOK, DivideStalls, NEW interrupt \in BOOLEAN,
         DecodeStage(interrupt)
  PROVE  \/ ~IsDivide /\ ~IsDivide'
         \/ ~IsDivide /\ IsDivide' /\ stall_counter' = Cycles + 7
         \/ IsDivide /\ IsDivide' /\ stall_counter' = stall_counter - 1
              /\ stall_counter \in 2 .. Cycles + 7
         \/ IsDivide /\ ~IsDivide' /\ stall_counter = 1
<1>0. /\ stall_counter \in Nat /\ in_data \in Word
      /\ mde \in [raw : Word, pc_val : Word, instr : DecodedInstr]
  BY StallCounters DEF TypeOK, MemTypeOK
<1>1. mde' = Bubble => ~IsDivide'
  BY <1>0 DEF Bubble, NoInstr, IsDivide, Udiv_ThreeRegs, Sdiv_ThreeRegs
<1>2. ~InStall => ~IsDivide
  BY CyclesFacts DEF DivideStalls, InStall
<1>3. CASE DecodeInStall
  <2>1. stall_counter' = stall_counter - 1
        /\ (stall_counter = 1 => mde' = Bubble)
        /\ (stall_counter # 1 => mde' = mde)
    BY <1>3 DEF DecodeInStall
  <2>2. stall_counter # 1 => IsDivide' = IsDivide
    BY <2>1 DEF IsDivide
  <2>3. IsDivide => stall_counter \in 1 .. Cycles + 7
    BY DEF DivideStalls
  <2> QED
    BY <1>0, <1>1, <2>1, <2>2, <2>3, CyclesFacts
<1>4. CASE DecodeSendsThrough(interrupt)
  <2>1. mde'.instr = DecodeWord(in_data) /\ ~DecodeWord(in_data).causes_stall
    BY <1>4 DEF DecodeSendsThrough, send_instr_through, Decoded
  <2>2. ~IsDivide'
    BY <1>0, <2>1, DecodedDivides DEF IsDivide
  <2> QED
    BY <1>2, <1>4, <2>2 DEF DecodeSendsThrough
<1>5. CASE DecodeStalls(interrupt)
  <2>1. mde'.instr = Decoded /\ stall_counter' = StallStart.counter
    BY <1>5, StallStartTypes DEF DecodeStalls, send_instr_through
  <2>2. IsDivide' => StallStart.counter = Cycles + 7
    BY <2>1 DEF IsDivide, StallStart, STALL_COUNTER_DIVIDE_32, Cycles,
       Mul_ThreeRegs, Udiv_ThreeRegs, Sdiv_ThreeRegs
  <2> QED
    BY <1>2, <1>5, <2>1, <2>2 DEF DecodeStalls
<1>6. CASE DecodeRespondsToInterrupt(interrupt)
  BY <1>1, <1>2, <1>6 DEF DecodeRespondsToInterrupt
<1> QED
  BY <1>3, <1>4, <1>5, <1>6 DEF DecodeStage

\* One edge during a division: whatever phase the divider is in, it is in the
\* next one afterwards.
LEMMA DividerAtStep ==
  ASSUME TypeOK, NEW left \in 2 .. Cycles + 6, DividerAt(left),
         DivStep(div_in),
         ~div_in'.enable, div_in'.unsgn_or_sgn = div_in.unsgn_or_sgn,
         div_in'.num = div_in.num, div_in'.denom = div_in.denom
  PROVE  /\ left = Cycles + 6 => Accepted(div', div_in')
         /\ left = Cycles + 5 => Sized(div', div_in')
         /\ left = Cycles + 4 => Iterating(div', div_in', left - 4)
         /\ left \in 5 .. Cycles + 3 => Iterating(div', div_in', left - 4)
         /\ left = 4 => IF div'.blocking_first THEN SignsPutBack(div', div_in')
                                               ELSE Iterated(div', div_in')
         /\ left = 3 => IF div'.blocking_first THEN Ready(div', div_in')
                                               ELSE SignsPutBack(div', div_in')
         /\ left = 2 => Ready(div', div_in')
<1>1. div \in DivState /\ div_in.num \in Word /\ div_in.denom \in Word
  BY DEF TypeOK
<1>2. Cycles \in Nat /\ Cycles >= 1
  BY CyclesFacts
<1> DEFINE c == div_in'
<1>3. /\ \A d : Accepted(d, div_in) => Accepted(d, c)
      /\ \A d : Sized(d, div_in) => Sized(d, c)
      /\ \A d, k : Iterating(d, div_in, k) => Iterating(d, c, k)
      /\ \A d : Iterated(d, div_in) => Iterated(d, c)
      /\ \A d : SignsPutBack(d, div_in) => SignsPutBack(d, c)
      /\ \A d : Ready(d, div_in) => Ready(d, c)
  <2>1. /\ c.unsgn_or_sgn = div_in.unsgn_or_sgn
        /\ c.num = div_in.num /\ c.denom = div_in.denom
    OBVIOUS
  <2> HIDE DEF c
  <2>2. \A w : Size(c, w) = Size(div_in, w)
    BY <2>1 DEF Size
  <2>3. QuotientOf(c) = QuotientOf(div_in) /\ RemainderOf(c) = RemainderOf(div_in)
    BY <2>1, <2>2 DEF QuotientOf, RemainderOf
  <2>4. \A d : Signs(d, c) = Signs(d, div_in)
    BY <2>1 DEF Signs
  <2>5. \A d : Working(d, div_in) => Working(d, c)
    BY <2>4 DEF Working
  <2>6. \A d, i : Remaining(d, div_in, i) => Remaining(d, c, i)
    BY <2>1, <2>2 DEF Remaining
  <2>7. \A d : Accepted(d, div_in) => Accepted(d, c)
    BY <2>1, <2>4 DEF Accepted
  <2>8. \A d : Sized(d, div_in) => Sized(d, c)
    BY <2>1, <2>2, <2>5 DEF Sized
  <2>9. \A d, k : Iterating(d, div_in, k) => Iterating(d, c, k)
    BY <2>5, <2>6 DEF Iterating
  <2>10. \A d : Iterated(d, div_in) => Iterated(d, c)
    BY <2>5, <2>6 DEF Iterated
  <2>11. \A d : SignsPutBack(d, div_in) => SignsPutBack(d, c)
    BY <2>1, <2>3, <2>5 DEF SignsPutBack
  <2>12. \A d : Ready(d, div_in) => Ready(d, c)
    BY <2>1, <2>3 DEF Ready
  <2> QED
    BY <2>7, <2>8, <2>9, <2>10, <2>11, <2>12
<1> HIDE DEF c
<1>4. left = Cycles + 6 => Accepted(div', c)
  BY <1>1, <1>3, WaitingStep DEF DividerAt
<1>5. left = Cycles + 5 => Sized(div', c)
  BY <1>1, <1>3, AcceptedStep DEF DividerAt
<1>6. left = Cycles + 4 => Iterating(div', c, left - 4)
  <2>1. left = Cycles + 4 => left - 4 = Cycles
    BY <1>2
  <2> QED
    BY <1>1, <1>3, <2>1, SizedStep DEF DividerAt
<1>7. CASE left \in 4 .. Cycles + 3
  <2> DEFINE k == left - 3
  <2>1. k \in 1 .. Cycles /\ (left \in 5 .. Cycles + 3 => k > 1 /\ k - 1 = left - 4)
        /\ (left = 4 => k = 1)
    BY <1>2, <1>7
  <2>2. Iterating(div, div_in, k)
    BY <1>7 DEF DividerAt
  <2> HIDE DEF k
  <2>3. /\ div'.blocking_first = div.blocking_first
        /\ k > 1 => Iterating(div', div_in, k - 1)
        /\ k = 1 => IF div.blocking_first THEN SignsPutBack(div', div_in)
                                          ELSE Iterated(div', div_in)
    BY <1>1, <2>1, <2>2, IteratingStep
  <2>4. left \in 5 .. Cycles + 3 => Iterating(div', c, left - 4)
    BY <1>3, <2>1, <2>3
  <2>5. left = 4 => IF div'.blocking_first THEN SignsPutBack(div', c)
                                           ELSE Iterated(div', c)
    BY <1>3, <2>1, <2>3
  <2> QED
    BY <1>2, <1>7, <2>4, <2>5, <1>4, <1>5, <1>6 DEF c
<1>8. left = 3 => IF div'.blocking_first THEN Ready(div', c)
                                         ELSE SignsPutBack(div', c)
  <2>1. CASE left = 3 /\ div.blocking_first
    <3>1. SignsPutBack(div, div_in)
      BY <2>1 DEF DividerAt
    <3> QED
      BY <1>1, <1>3, <2>1, <3>1, SignsPutBackStep
  <2>2. CASE left = 3 /\ ~div.blocking_first
    <3>1. Iterated(div, div_in)
      BY <2>2 DEF DividerAt
    <3> QED
      BY <1>1, <1>3, <2>2, <3>1, IteratedStep
  <2> QED
    BY <2>1, <2>2
<1>9. left = 2 => Ready(div', c)
  <2>1. CASE left = 2 /\ div.blocking_first
    <3>1. Ready(div, div_in) /\ ~div_in.enable
      BY <1>2, <2>1 DEF DividerAt
    <3>2. Ready(div', div_in)
      BY <1>1, <3>1, WaitingStep DEF Ready
    <3> QED
      BY <1>3, <3>2
  <2>2. CASE left = 2 /\ ~div.blocking_first
    <3>1. SignsPutBack(div, div_in)
      BY <2>2 DEF DividerAt
    <3> QED
      BY <1>1, <1>3, <3>1, SignsPutBackStep
  <2> QED
    BY <2>1, <2>2
<1>10. left \in 4 .. Cycles + 3 \/ left \in {2, 3, Cycles + 4, Cycles + 5, Cycles + 6}
  BY <1>2
<1> QED
  BY <1>2, <1>4, <1>5, <1>6, <1>7, <1>8, <1>9, <1>10 DEF c

LEMMA DivInvStep ==
  ASSUME TypeOK, DivInv, NEW interrupt \in BOOLEAN, Cycle(interrupt)
  PROVE  DivInv'
<1>0. DecodeStage(interrupt) /\ ExecuteStage /\ DivStep(div_in)
  BY DEF Cycle
<1>1. /\ div_in.num \in Word /\ div_in.denom \in Word /\ div \in DivState
      /\ div_in \in [enable : BOOLEAN, unsgn_or_sgn : BOOLEAN,
                     num : Word, denom : Word]
      /\ Cycles \in Nat /\ Cycles >= 1
  BY CyclesFacts DEF TypeOK
<1>2. \/ ~IsDivide /\ ~IsDivide'
      \/ ~IsDivide /\ IsDivide' /\ stall_counter' = Cycles + 7
      \/ IsDivide /\ IsDivide' /\ stall_counter' = stall_counter - 1
           /\ stall_counter \in 2 .. Cycles + 7
      \/ IsDivide /\ ~IsDivide' /\ stall_counter = 1
  BY <1>0, DivideComesAndGoes DEF DivInv
<1>3. DivideStalls'
  BY <1>1, <1>2 DEF DivideStalls, Cycles
<1>4. ~IsDivide => div_in' = div_in
  BY <1>0 DEF ExecuteStage, ExecuteMultiply, ExecuteDivide, ExecuteOther
<1>5. IsDivide => ExecuteDivide
  BY <1>0 DEF ExecuteStage, ExecuteMultiply, ExecuteOther, IsMultiply, IsDivide,
     Mul_ThreeRegs, Udiv_ThreeRegs, Sdiv_ThreeRegs
<1>6. Waiting(div) /\ ~div_in.enable => Waiting(div')
  BY <1>0, <1>1, WaitingStep
<1>7. CASE ~IsDivide
  <2>1. ~div_in'.enable /\ Waiting(div')
    BY <1>4, <1>6, <1>7 DEF DivInv, DividerTimetable
  <2>2. CASE ~IsDivide'
    BY <1>3, <2>1, <2>2 DEF DivInv, DividerTimetable
  <2>3. CASE IsDivide' /\ stall_counter' = Cycles + 7
    BY <1>1, <1>3, <2>1, <2>3 DEF DivInv, DividerTimetable, DividerAt, Cycles
  <2> QED
    BY <1>2, <1>7, <2>2, <2>3
<1>8. CASE IsDivide /\ stall_counter = Cycles + 7
  <2>1. div_in'.enable /\ Waiting(div')
    BY <1>5, <1>6, <1>8
       DEF DivInv, DividerTimetable, DividerAt, ExecuteDivide,
           STALL_COUNTER_DIVIDE_32, Cycles
  <2>2. IsDivide' /\ stall_counter' = Cycles + 6
    BY <1>1, <1>2, <1>8
  <2> QED
    BY <1>1, <1>3, <2>1, <2>2 DEF DivInv, DividerTimetable, DividerAt, Cycles
<1>9. IsDivide /\ stall_counter # Cycles + 7 =>
        /\ ~div_in'.enable /\ div_in'.unsgn_or_sgn = div_in.unsgn_or_sgn
        /\ div_in'.num = div_in.num /\ div_in'.denom = div_in.denom
  BY <1>1, <1>5 DEF ExecuteDivide, STALL_COUNTER_DIVIDE_32, Cycles
<1>10. CASE IsDivide /\ stall_counter \in 2 .. Cycles + 6
  <2>1. IsDivide' /\ stall_counter' = stall_counter - 1
    BY <1>2, <1>10
  <2>2. DividerAt(stall_counter)
    BY <1>10 DEF DivInv, DividerTimetable
  <2>3. stall_counter # Cycles + 7
    BY <1>1, <1>10
  <2> DEFINE left == stall_counter
  <2>4. /\ left = Cycles + 6 => Accepted(div', div_in')
        /\ left = Cycles + 5 => Sized(div', div_in')
        /\ left = Cycles + 4 => Iterating(div', div_in', left - 4)
        /\ left \in 5 .. Cycles + 3 => Iterating(div', div_in', left - 4)
        /\ left = 4 => IF div'.blocking_first THEN SignsPutBack(div', div_in')
                                              ELSE Iterated(div', div_in')
        /\ left = 3 => IF div'.blocking_first THEN Ready(div', div_in')
                                              ELSE SignsPutBack(div', div_in')
        /\ left = 2 => Ready(div', div_in')
    BY <1>0, <1>9, <1>10, <2>2, <2>3, DividerAtStep
  <2>5. DividerTimetable'
    <3>1. left \in Int /\ left \in 2 .. Cycles + 6 /\ stall_counter' = left - 1
          /\ Cycles' = Cycles
      BY <1>1, <1>10, <2>1 DEF Cycles
    <3>2. ~div_in'.enable
      BY <1>9, <1>10, <2>3
    <3>3. (stall_counter' - 3) = left - 4
      BY <3>1
    <3> HIDE DEF left
    <3>4. DividerAt(stall_counter)'
      BY <1>1, <2>4, <3>1, <3>2, <3>3 DEF DividerAt
    <3> QED
      BY <2>1, <3>4 DEF DividerTimetable
  <2> QED
    BY <1>3, <2>5 DEF DivInv
<1>11. CASE IsDivide /\ stall_counter = 1
  <2>1. ~IsDivide' /\ ~div_in'.enable
    BY <1>1, <1>2, <1>9, <1>11
  <2>2. Waiting(div) /\ ~div_in.enable
    BY <1>1, <1>11 DEF DivInv, DividerTimetable, DividerAt, Ready
  <2> QED
    BY <1>3, <1>6, <2>1, <2>2 DEF DivInv, DividerTimetable
<1>12. ~IsDivide \/ stall_counter \in 1 .. Cycles + 7
  BY DEF DivInv, DivideStalls
<1> QED
  BY <1>1, <1>7, <1>8, <1>10, <1>11, <1>12

\* The stall of a division is long enough, for every program, width and number
\* of iterations per cycle, and for both orders of the divider's always blocks:
\* its command is always accepted, and its quotient is there and right when it is
\* taken.
THEOREM QuotientsInTime == Spec => []DividerInTime
<1>1. Init => DivInv
  <2>1. Init => ~IsDivide
    BY DEF Init, IsDivide, NoInstr, Udiv_ThreeRegs, Sdiv_ThreeRegs
  <2>2. Init => ~div_in.enable /\ Waiting(div)
    BY DEF Init, DivInit, Waiting
  <2> QED
    BY <2>1, <2>2 DEF DivInv, DivideStalls, DividerTimetable
<1>2. TypeOK /\ DivInv /\ [Next]_vars => DivInv'
  <2>1. ASSUME UNCHANGED vars, DivInv PROVE DivInv'
    <3>1. mde' = mde /\ stall_counter' = stall_counter /\ div' = div
          /\ div_in' = div_in
      BY <2>1 DEF vars, StageVars
    <3> QED
      BY <2>1, <3>1 DEF DivInv, DivideStalls, DividerTimetable, DividerAt,
         IsDivide, Cycles
  <2> QED
    BY <2>1, DivInvStep DEF Next
<1>3. TypeOK /\ DivInv => DividerInTime
  BY DivInvImplies
<1> QED
  BY <1>1, <1>2, <1>3, TypeCorrect, PTL DEF Spec
===============================================================================
