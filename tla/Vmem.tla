---------------------------------- MODULE Vmem ----------------------------------
(***************************************************************************)
(* The text between the assembler, the disassembler and $readmemh.  A line *)
(* is a flag for the "@" and the groups of its hexadecimal digits, which   *)
(* spaces divide.                                                          *)
(***************************************************************************)
EXTENDS Integers, Sequences, TLC

Seqs == INSTANCE SequencesExt

AtLine(digits)   == [at |-> TRUE, groups |-> <<digits>>]
HexLine(groups)  == [at |-> FALSE, groups |-> groups]

\* Printed with std::hex: no leading zeros.
HexDigits(n) ==
  LET Size[k \in 1 .. 8] == IF k = 8 \/ n < 16 ^ k THEN k ELSE Size[k + 1]
  IN [i \in 1 .. Size[1] |-> (n \div 16 ^ (Size[1] - i)) % 16]

\* With a 0 before a number below 0x10.
TwoDigits(byte) == <<byte \div 16, byte % 16>>

\* temp = (temp << 4) | digit in 32 bits, which stand for a signed number here.
ShiftIn(temp, digit) ==
  LET low == temp % 2 ^ 28
  IN (IF low < 2 ^ 27 THEN low ELSE low - 2 ^ 28) * 16 + digit

Digits(line) == Seqs!FlattenSeq(line.groups)

HexValue(digits) ==
  LET Upto[i \in 0 .. Len(digits)] ==
        IF i = 0 THEN 0 ELSE ShiftIn(Upto[i - 1], digits[i])
  IN Upto[Len(digits)]

(***************************************************************************)
(* $readmemh of the simulator: "@" gives the index of a cell, and each     *)
(* group fills the next cell.                                              *)
(***************************************************************************)
ReadMemH(lines) ==
  LET Fill(s, groups) ==
        [next  |-> s.next + Len(groups),
         cells |-> [c \in s.next .. s.next + Len(groups) - 1 |->
                      HexValue(groups[c - s.next + 1])] @@ s.cells]
      Upto[i \in 0 .. Len(lines)] ==
        IF i = 0 THEN [next |-> 0, cells |-> <<>>]
        ELSE IF lines[i].at
             THEN [Upto[i - 1] EXCEPT !.next = HexValue(Digits(lines[i]))]
             ELSE Fill(Upto[i - 1], lines[i].groups)
  IN Upto[Len(lines)].cells
==============================================================================
