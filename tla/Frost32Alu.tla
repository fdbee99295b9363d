------------------------------ MODULE Frost32Alu ------------------------------
(***************************************************************************)
(* The combinational ALU (alu_module.src.sv).  The processor's module and  *)
(* the instruction set take the ALU as a parameter; the models instantiate *)
(* it with this one.                                                       *)
(***************************************************************************)
EXTENDS Frost32Word, Bitwise

Flag(condition) == IF condition THEN 1 ELSE 0

ShiftLeft(a, n)       == IF n >= Width THEN 0 ELSE Trunc(a * 2 ^ n)
ShiftRight(a, n)      == IF n >= Width THEN 0 ELSE a \div 2 ^ n
ShiftRightArith(a, n) == IF n >= Width
                         THEN IF Signed(a) < 0 THEN WordMod - 1 ELSE 0
                         ELSE Trunc(Signed(a) \div 2 ^ n)

AluData(oper, a, b) ==
  CASE oper = 0  -> Trunc(a + b)                   \* Add
    [] oper = 1  -> Trunc(a - b)                   \* Sub
    [] oper = 2  -> Flag(a < b)                    \* Sltu
    [] oper = 3  -> Flag(Signed(a) < Signed(b))    \* Slts
    [] oper = 4  -> Flag(a > b)                    \* Sgtu
    [] oper = 5  -> Flag(Signed(a) > Signed(b))    \* Sgts
    [] oper = 7  -> a & b                          \* And
    [] oper = 8  -> a | b                          \* Or
    [] oper = 9  -> a ^^ b                         \* Xor
    [] oper = 10 -> WordMod - 1 - (a | b)          \* Nor
    [] oper = 11 -> ShiftLeft(a, b)                \* Lsl
    [] oper = 12 -> ShiftRight(a, b)               \* Lsr
    [] oper = 13 -> ShiftRightArith(a, b)          \* Asr
    [] OTHER -> 0                                  \* AndN, OrN, Nand
==============================================================================
