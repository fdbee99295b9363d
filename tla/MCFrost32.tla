------------------------------- MODULE MCFrost32 -------------------------------
(***************************************************************************)
(* Instructions, programs and constants for model checking the processor.  *)
(*                                                                         *)
(* Words have 8 bits, bytes 2, and the RAM 16 words.  An instruction's     *)
(* word is its position in `Pool'; every other word is of a group that has *)
(* no instructions.  A program is a memory image; words not given are 255. *)
(***************************************************************************)
EXTENDS Frost32CpuProperties, Frost32Alu, Sequences

\* Registers: zero, two general ones, and lr.
MCReg == {0, 1, 2, 13}

Instr(group, opcode, ra, rb, rc, imm) ==
  [group |-> group, ra |-> ra, rb |-> rb, rc |-> rc, imm |-> imm,
   opcode |-> opcode]

Alu3(op, ra, rb, rc)   == Instr(0, op, ra, rb, rc, 0)
Imm2(op, ra, rb, imm)  == Instr(1, op, ra, rb, 0, imm)
Bcc(ct, ra, rb, off)   == Instr(2, ct, ra, rb, 0, off)
Jcc(ct, ra, rb, rc)    == Instr(3, ct, ra, rb, rc, 0)
Ccc(ct, ra, rb, rc)    == Instr(4, ct, ra, rb, rc, 0)
Ldst(op, ra, rb, rc)   == Instr(5, op, ra, rb, rc, 0)
LdstI(op, ra, rb, imm) == Instr(5, op, ra, rb, 0, imm)
Sys(op, ra)            == Instr(6, op, ra, 0, 0, 0)
Reserved               == Instr(15, 9, 1, 2, 13, 3)

Pool == <<
  (*  0 *) Bcc(CtEq, 0, 0, 12),         \* bra   to itself
  (*  1 *) Imm2(0, 1, 0, 13),           \* addi  u0, zero, 13
  (*  2 *) Imm2(0, 2, 1, 3),            \* addi  u1, u0, 3
  (*  3 *) Alu3(0, 1, 1, 2),            \* add   u0, u0, u1
  (*  4 *) Alu3(1, 2, 1, 2),            \* sub   u1, u0, u1
  (*  5 *) Alu3(0, 0, 1, 2),            \* add   zero, u0, u1
  (*  6 *) Alu3(Mul_ThreeRegs, 1, 1, 2),
  (*  7 *) Alu3(Mul_ThreeRegs, 2, 1, 1),
  (*  8 *) Alu3(Udiv_ThreeRegs, 1, 1, 2),
  (*  9 *) Alu3(Sdiv_ThreeRegs, 2, 1, 2),
  (* 10 *) Imm2(Cpyhi_OneRegOneImm, 1, 0, 2),
  (* 11 *) Imm2(Addsi_OneRegOnePcOneSimm, 2, 0, 12),
  (* 12 *) Imm2(Sltsi_TwoRegsOneSimm, 2, 1, 15),
  (* 13 *) Ldst(0, 1, 2, 0),            \* ldr   u0, [u1, zero]
  (* 14 *) Ldst(2, 2, 1, 0),            \* ldsh  u1, [u0, zero]
  (* 15 *) LdstI(12, 1, 2, 4),          \* ldsbi u0, [u1, -4]
  (* 16 *) Ldst(5, 1, 2, 0),            \* str   u0, [u1, zero]
  (* 17 *) LdstI(13, 2, 0, 3),          \* stri  u1, [zero, 3]
  (* 18 *) Bcc(CtNe, 1, 2, 4),          \* bne   u0, u1, .+8
  (* 19 *) Bcc(CtLts, 1, 2, 4),         \* blts  u0, u1, .+8
  (* 20 *) Bcc(CtLtu, 2, 1, 12),        \* bltu  u1, u0, .
  (* 21 *) Jcc(CtGeu, 1, 2, 1),         \* jgeu  u0, u1, u0
  (* 22 *) Jcc(CtGes, 1, 2, 2),         \* jges  u0, u1, u1
  (* 23 *) Ccc(CtEq, 0, 0, 2),          \* call  u1
  (* 24 *) Ccc(CtLeu, 1, 2, 1),         \* cleu  u0, u1, u0
  (* 25 *) Alu3(0, 2, 13, 1),           \* add   u1, lr, u0
  (* 26 *) Jcc(CtEq, 0, 0, 13),         \* jmp   lr
  (* 27 *) Sys(Ei_NoArgs, 0),
  (* 28 *) Sys(Di_NoArgs, 0),
  (* 29 *) Sys(Cpy_OneIretaOneReg, 1),
  (* 30 *) Sys(Cpy_OneRegOneIreta, 1),
  (* 31 *) Sys(Cpy_OneIdstaOneReg, 1),
  (* 32 *) Sys(Cpy_OneRegOneIdsta, 2),
  (* 33 *) Sys(Reti_NoArgs, 0),
  (* 34 *) Bcc(CtIntsEnabled, 1, 2, 4),
  (* 35 *) Bcc(CtIntsDisabled, 1, 2, 4),
  (* 36 *) Imm2(0, 1, 0, 8),            \* addi  u0, zero, 8
  (* 37 *) Bcc(CtEq, 0, 0, 4),          \* bra   .+8
  (* 38 *) Imm2(0, 1, 1, 1),            \* inc   u0
  (* 39 *) Ccc(CtGtu, 1, 2, 2),         \* cgtu  u0, u1, u1
  (* 40 *) Bcc(CtGts, 1, 2, 8),         \* bgts  u0, u1, .-4
  (* 41 *) Imm2(Muli_TwoRegsOneImm, 2, 1, 5),
  (* 42 *) Ccc(CtLts, 1, 2, 0),         \* clts  u0, u1, zero
  (* 43 *) Ccc(CtEq, 0, 0, 13),         \* call  lr
  (* 44 *) Imm2(0, 13, 0, 12),          \* addi  lr, zero, 12
  (* 45 *) Bcc(CtGes, 1, 2, 4),         \* bges  u0, u1, .+8
  (* 46 *) Ldst(7, 1, 2, 0),            \* stb   u0, [u1, zero]
  (* 47 *) Imm2(0, 1, 0, 11),           \* addi  u0, zero, 11
  (* 48 *) Imm2(11, 1, 1, 2),           \* lsli  u0, u0, 2
  (* 49 *) Ldst(3, 1, 2, 0)             \* ldb   u0, [u1, zero]
  >>

MCCode == [w \in Word |-> IF w < Len(Pool) THEN Pool[w + 1] ELSE Reserved]

\* The processor as the instruction set describes it, but for three kinds of
\* instruction (41, 42 and 43): muli, a signed conditional call, and a call
\* that takes an operand from lr.  MCMuli.cfg, MCSignedCall.cfg and
\* MCCallLr.cfg show what those do.
ConformingCode ==
  [w \in Word |-> IF w \in {41, 42, 43} THEN Reserved ELSE MCCode[w]]

Image(words) ==
  [c \in Cell |-> IF c < Len(words) THEN words[c + 1] ELSE 255]

\* Set-up, every sequence of n instructions of a set, and an endless loop.
Sequences(n, instrs) == [1 .. n -> instrs]
SetUp == <<1, 2>>
Stop  == <<0>>

(***************************************************************************)
(* Programs.                                                               *)
(***************************************************************************)
\* Data hazards: computing, loading and storing with the same two registers.
\* A store to [u1] overwrites the last slot before it is fetched.
DataInstrs == {3, 4, 5, 6, 9, 10, 11, 12, 13, 15, 16, 17, 25, 255}

DataPrograms ==
  {Image(SetUp \o s \o Stop) : s \in Sequences(3, DataInstrs)}

\* Control flow: the operands of a branch, jump or call are computed, and
\* compared signed and unsigned, immediately before it.
ControlInstrs == {3, 4, 13, 18, 19, 20, 21, 22, 23, 24, 25, 26, 37, 39, 40, 45}

ControlPrograms ==
  {Image(SetUp \o s \o Stop) : s \in Sequences(3, ControlInstrs)}

\* Interrupts: two slots after idsta is set to cell 11 and interrupts are
\* enabled; the handler runs one instruction of its own before it returns.
InterruptImage(slots, handler) ==
  Image(<<47, 48, 31, 2, 27>> \o slots \o <<0, 0, 0, 0>> \o <<handler, 33>>)

InterruptInstrs == {6, 17, 18, 27, 28, 29, 30, 31, 32, 33, 34, 35}
HandlerInstrs   == {30}

InterruptPrograms ==
  {InterruptImage(s, h) : s \in Sequences(2, InterruptInstrs), h \in HandlerInstrs}

IsaPrograms == DataPrograms \cup ControlPrograms \cup InterruptPrograms

\* Everything: every instruction of the pool, and a reserved word, before one
\* that uses its result, with interrupts enabled.
AllInstrs == (1 .. Len(Pool) - 1) \cup {255}
UserInstrs == {3, 9, 13, 16, 19, 41}

AllPrograms == {InterruptImage(<<a, b>>, 28) : a \in AllInstrs, b \in UserInstrs}

\* One program for each disagreement with the documents.
MuliPrograms       == {Image(<<1, 2, 41, 0>>)}
SignedCallPrograms == {Image(<<1, 2, 19, 255, 4, 42, 0>>)}
CallLrPrograms     == {Image(<<44, 43, 0, 0>>)}
================================================================================
