---------------------------- MODULE InstrDecoder -----------------------------
(***************************************************************************)
(* The combinational instruction decoder (instr_decoder_module.src.sv).    *)
(*                                                                         *)
(* An instruction word reaches the decoder as the record of its bit        *)
(* fields: the fields of the seven encodings overlap in the 32-bit word,   *)
(* and each group reads only its own.  `Code' gives the fields of a word,  *)
(* so a word in memory is data and instruction at once: what a store       *)
(* writes can be fetched, and what was fetched can be loaded.              *)
(***************************************************************************)
EXTENDS Frost32Word

CONSTANTS
  Reg,    \* register indices that occur; 0 .. 15 in the source
  Code    \* [Word -> RawInstr]: the bit fields of an instruction word

LR == 13  \* __REG_LR_INDEX

ASSUME RegAssumption == Reg \subseteq Nat /\ {0, LR} \subseteq Reg

Opcode == 0 .. 15

RawInstr ==
  [group : 0 .. 15, ra : Reg, rb : Reg, rc : Reg, imm : HalfWord,
   opcode : Opcode]

ASSUME CodeAssumption == Code \in [Word -> RawInstr]

(***************************************************************************)
(* Opcodes and condition types (instr_decoder_package.pkg.sv).             *)
(***************************************************************************)
Mul_ThreeRegs            == 6
Udiv_ThreeRegs           == 14
Sdiv_ThreeRegs           == 15
Sltsi_TwoRegsOneSimm     == 3
Sgtsi_TwoRegsOneSimm     == 5
Muli_TwoRegsOneImm       == 6
Addsi_OneRegOnePcOneSimm == 14
Cpyhi_OneRegOneImm       == 15
Bad2_Iog2                == 12
Bad0_Iog3                == 10
Ei_NoArgs                == 0
Di_NoArgs                == 1
Cpy_OneIretaOneReg       == 2
Cpy_OneRegOneIreta       == 3
Cpy_OneIdstaOneReg       == 4
Cpy_OneRegOneIdsta       == 5
Reti_NoArgs              == 6

CtNe           == 0
CtEq           == 1
CtLtu          == 2
CtGeu          == 3
CtLeu          == 4
CtGtu          == 5
CtLts          == 6
CtGes          == 7
CtLes          == 8
CtGts          == 9
CtIntsEnabled  == 10
CtIntsDisabled == 11

\* Load/store types: the low three opcode bits of group 5.
Ld32  == 0
LdU16 == 1
LdS16 == 2
LdU8  == 3
LdS8  == 4
St32  == 5
St16  == 6
St8   == 7

Loads  == {Ld32, LdU16, LdS16, LdU8, LdS8}
Stores == {St32, St16, St8}

SignedConditions == CtLts .. CtGts

DecodedInstr ==
  [group : 0 .. 6, ra : Reg, rb : Reg, rc : Reg, imm : HalfWord,
   opcode : Opcode, ldst_type : 0 .. 7, causes_stall : BOOLEAN,
   condition_type : Opcode]

\* Compare's ltu: the borrow, bit `width' of a + ~b + 1.
CompareLtu(a, b, width) ==
  ((a + (2 ^ (width + 1) - 1 - b) + 1) \div 2 ^ width) % 2

CausesStall(group, opcode) ==
  \/ group = 0 /\ opcode \in {Mul_ThreeRegs, Udiv_ThreeRegs, Sdiv_ThreeRegs}
  \/ group = 1 /\ opcode = Muli_TwoRegsOneImm
  \/ group = 2 /\ opcode < Bad2_Iog2
  \/ group \in {3, 4} /\ CompareLtu(opcode, Bad0_Iog3, 4) = 1
  \/ group = 5
  \/ group = 6 /\ opcode \in {Ei_NoArgs, Di_NoArgs, Cpy_OneIretaOneReg,
                              Cpy_OneIdstaOneReg, Reti_NoArgs}

(***************************************************************************)
(* Decode: the decoder's `out' for the fields `in'.  Groups without a case *)
(* decode to all zeroes, which is "add zero, zero, zero".                  *)
(***************************************************************************)
Decode(in) ==
  IF in.group > 6
  THEN [group |-> 0, ra |-> 0, rb |-> 0, rc |-> 0, imm |-> 0, opcode |-> 0,
        ldst_type |-> 0, causes_stall |-> FALSE, condition_type |-> 0]
  ELSE [group  |-> in.group,
        ra     |-> in.ra,
        rb     |-> in.rb,
        rc     |-> IF in.group \in {1, 2} THEN 0 ELSE in.rc,
        imm    |-> CASE in.group \in {1, 2} -> in.imm
                     [] in.group = 5 -> SignExtImm12(in.imm % Imm12Mod)
                     [] OTHER -> 0,
        opcode |-> in.opcode,
        ldst_type      |-> IF in.group = 5 THEN in.opcode % 8 ELSE 0,
        causes_stall   |-> CausesStall(in.group, in.opcode),
        condition_type |-> IF in.group \in {2, 3, 4} THEN in.opcode ELSE 0]

DecodeWord(w) == Decode(Code[w])
==============================================================================
