----------------------------- MODULE Frost32Word -----------------------------
(***************************************************************************)
(* The machine words every Frost32 component computes with.                *)
(*                                                                         *)
(* The source fixes them at 8, 16 and 32 bits.  Here the number of values  *)
(* of a byte is a parameter, and a half word has Byte * Byte values and a  *)
(* word Half * Half, as in the source, so the model keeps the ratio that   *)
(* cpyhi, the sign extensions and the 16-bit partial products rely on.     *)
(***************************************************************************)
EXTENDS Integers

CONSTANTS
  Width,     \* number of bits of a word; 32 in the source
  Byte,      \* number of values of a byte; 2^8 in the source
  Imm12Mod   \* number of values of a load/store immediate; 2^12 in the source

ASSUME ByteAssumption == Byte \in Nat /\ Byte >= 2
ASSUME Imm12Assumption == Imm12Mod \in Nat /\ Imm12Mod >= 2

Half     == Byte * Byte
WordMod  == Half * Half

HalfWord == 0 .. Half - 1
Word     == 0 .. WordMod - 1

ASSUME WidthAssumption == Width \in Nat \ {0} /\ 2 ^ Width = WordMod

\* Every assignment to a 32-bit signal keeps the low 32 bits.
Trunc(x) == x % WordMod

\* {{16{h[15]}}, h}, {{24{b[7]}}, b} and the decoder's {{4{i[11]}}, i}.
SignExtHalf(h)  == IF 2 * h >= Half THEN Trunc(h - Half) ELSE h
SignExtByte(b)  == IF 2 * b >= Byte THEN Trunc(b - Byte) ELSE b
SignExtImm12(i) == IF 2 * i >= Imm12Mod THEN (i - Imm12Mod) % Half ELSE i % Half

\* $signed(w)
Signed(w) == IF 2 * w >= WordMod THEN w - WordMod ELSE w
==============================================================================
