---------------------------- MODULE EncodingProofs -----------------------------
(***************************************************************************)
(* The assembler, the processor's decoder, the debug display and the       *)
(* disassembler have one encoding in common, for every instruction and     *)
(* every word; and what the assembler makes of a source, or why it does    *)
(* not, for every source.                                                  *)
(***************************************************************************)
EXTENDS Toolchain, AssemblerProofs

(***************************************************************************)
(* The encoding tables, and what the decoder calls their entries.          *)
(***************************************************************************)
\* The sizes of the groups.
LEMMA Tables ==
  /\ DOMAIN Iog0 = 1 .. 16 /\ DOMAIN Iog1 = 1 .. 16 /\ DOMAIN Iog2 = 1 .. 10
  /\ DOMAIN Iog3 = 1 .. 10 /\ DOMAIN Iog4 = 1 .. 10 /\ DOMAIN Iog5 = 1 .. 16
  /\ DOMAIN Iog6 = 1 .. 7
<1>1. DOMAIN Iog0 = 1 .. 16
  BY DEF Iog0, Named
<1>2. DOMAIN Iog1 = 1 .. 16
  BY DEF Iog1, Named
<1>3. DOMAIN Iog2 = 1 .. 10 /\ DOMAIN Iog3 = 1 .. 10 /\ DOMAIN Iog4 = 1 .. 10
  BY DEF Iog2, Iog3, Iog4, Named
<1>4. DOMAIN Iog5 = 1 .. 16
  BY DEF Iog5, Named
<1>5. DOMAIN Iog6 = 1 .. 7
  BY DEF Iog6
<1> QED
  BY <1>1, <1>2, <1>3, <1>4, <1>5

LEMMA Groups ==
  /\ Iog[0] = Iog0 /\ Iog[1] = Iog1 /\ Iog[2] = Iog2 /\ Iog[3] = Iog3
  /\ Iog[4] = Iog4 /\ Iog[5] = Iog5 /\ Iog[6] = Iog6
  BY DEF Iog

\* What the branches, jumps and calls are not called.
NotNames == {"cpy", "bad", "bintsenabled", "bintsdisabled"}

\* What each group's entries are called, and their operands.
LEMMA Entries0 ==
  \A i \in 1 .. 16 : /\ Iog0[i][2] = "ThreeRegs"
                     /\ Iog0[i][1] = Oper[1][i] /\ Iog0[i][1] # "cpy"
                     /\ \A j \in 1 .. 16 : Iog0[i] = Iog0[j] => i = j
  BY SMT DEF Iog0, Named, Oper

LEMMA Entries1 ==
  \A i \in 1 .. 16 :
    /\ Iog1[i][1] = Oper[2][i] /\ Iog1[i][1] # "cpy"
    /\ Iog1[i][1] = "addsi" <=> i = 15
    /\ Iog1[i][1] = "cpyhi" <=> i = 16
    /\ Iog1[i][1] \in {"sltsi", "sgtsi"} <=> i \in {4, 6}
    /\ Iog1[i][2] = CASE i \in {4, 6} -> "TwoRegsOneSimm"
                      [] i = 15 -> "OneRegOnePcOneSimm"
                      [] i = 16 -> "OneRegOneImm"
                      [] OTHER -> "TwoRegsOneImm"
    /\ \A j \in 1 .. 16 : Iog1[i] = Iog1[j] => i = j
<1>1. \A i \in 1 .. 16 :
        /\ Iog1[i][1] = Oper[2][i] /\ Iog1[i][1] # "cpy"
        /\ Iog1[i][1] = "addsi" <=> i = 15
        /\ Iog1[i][1] = "cpyhi" <=> i = 16
  BY SMT DEF Iog1, Named, Oper
<1>2. \A i \in 1 .. 16 :
        /\ Iog1[i][1] \in {"sltsi", "sgtsi"} <=> i \in {4, 6}
        /\ Iog1[i][2] = CASE i \in {4, 6} -> "TwoRegsOneSimm"
                          [] i = 15 -> "OneRegOnePcOneSimm"
                          [] i = 16 -> "OneRegOneImm"
                          [] OTHER -> "TwoRegsOneImm"
  BY SMT DEF Iog1, Named
<1>3. \A i, j \in 1 .. 16 : Iog1[i] = Iog1[j] => i = j
  BY SMT DEF Iog1, Named
<1> QED
  BY <1>1, <1>2, <1>3

LEMMA Entries2 ==
  \A i \in 1 .. 10 : /\ Iog2[i][2] = "Branch"
                     /\ Iog2[i][1] = Oper[3][i] /\ Iog2[i][1] \notin NotNames
                     /\ \A j \in 1 .. 10 : Iog2[i] = Iog2[j] => i = j
  BY SMT DEF Iog2, Named, Oper, NotNames

LEMMA Entries3 ==
  \A i \in 1 .. 10 : /\ Iog3[i][2] = "ThreeRegs"
                     /\ Iog3[i][1] = Oper[4][i] /\ Iog3[i][1] \notin NotNames
                     /\ \A j \in 1 .. 10 : Iog3[i] = Iog3[j] => i = j
  BY SMT DEF Iog3, Named, Oper, NotNames

LEMMA Entries4 ==
  \A i \in 1 .. 10 : /\ Iog4[i][2] = "ThreeRegs"
                     /\ Iog4[i][1] = Oper[5][i] /\ Iog4[i][1] \notin NotNames
                     /\ \A j \in 1 .. 10 : Iog4[i] = Iog4[j] => i = j
  BY SMT DEF Iog4, Named, Oper, NotNames

LEMMA Entries5 ==
  \A i \in 1 .. 16 :
    /\ Iog5[i][1] = Oper[6][i] /\ Iog5[i][1] # "cpy"
    /\ Iog5[i][2] = IF i <= 8 THEN "ThreeRegsLdst" ELSE "TwoRegsOneSimmLdst"
    /\ \A j \in 1 .. 16 : Iog5[i] = Iog5[j] => i = j
  BY SMTT(30) DEF Iog5, Named, Oper

LEMMA Entries6 ==
  \A i \in 1 .. 7 :
    /\ Oper[7][i] = IF Iog6[i][1] = "cpy" THEN Iog6[i][2] ELSE Iog6[i][1]
    /\ IF i \in 3 .. 6 THEN /\ Iog6[i][1] = "cpy"
                            /\ Iog6[i][2] \in {"OneIretaOneReg", "OneRegOneIreta",
                                               "OneIdstaOneReg", "OneRegOneIdsta"}
                       ELSE Iog6[i][2] = "NoArgs" /\ Iog6[i][1] \in {"ei", "di", "reti"}
    /\ \A j \in 1 .. 7 : Iog6[i] = Iog6[j] => i = j
  BY SMT DEF Iog6, Oper

\* No name is in two of the groups that have three registers.
LEMMA Cross ==
  /\ \A i \in DOMAIN Iog[0], j \in DOMAIN Iog[3] : Iog[0][i][1] # Iog[3][j][1]
  /\ \A i \in DOMAIN Iog[0], j \in DOMAIN Iog[4] : Iog[0][i][1] # Iog[4][j][1]
  /\ \A i \in DOMAIN Iog[3], j \in DOMAIN Iog[4] : Iog[3][i][1] # Iog[4][j][1]
<1>1. /\ \A i \in 1 .. 16, j \in 1 .. 10 : Iog0[i][1] # Iog3[j][1]
      /\ \A i \in 1 .. 16, j \in 1 .. 10 : Iog0[i][1] # Iog4[j][1]
      /\ \A i \in 1 .. 10, j \in 1 .. 10 : Iog3[i][1] # Iog4[j][1]
  BY SMT DEF Iog0, Iog3, Iog4, Named
<1> QED
  BY <1>1, Groups, Tables, Zenon

\* An entry is in one place of one table only.
LEMMA EntryIsUnique ==
  ASSUME NEW g \in 0 .. 6, NEW op \in Ops(g),
         NEW h \in 0 .. 6, NEW oq \in Ops(h),
         Iog[g][op + 1] = Iog[h][oq + 1]
  PROVE  g = h /\ op = oq
<1> DEFINE i == op + 1
           j == oq + 1
           e == Iog[g][i]
<1>0. i \in DOMAIN Iog[g] /\ j \in DOMAIN Iog[h] /\ op \in Int /\ oq \in Int
      /\ e = Iog[h][j]
  BY DEF Ops
<1> DEFINE KindsIn(k) ==
             CASE k \in {0, 3, 4} -> {"ThreeRegs"}
               [] k = 1 -> {"TwoRegsOneSimm", "OneRegOnePcOneSimm",
                            "OneRegOneImm", "TwoRegsOneImm"}
               [] k = 2 -> {"Branch"}
               [] k = 5 -> {"ThreeRegsLdst", "TwoRegsOneSimmLdst"}
               [] k = 6 -> {"NoArgs", "OneIretaOneReg", "OneRegOneIreta",
                            "OneIdstaOneReg", "OneRegOneIdsta"}
<1>1. ASSUME NEW k \in 0 .. 6, NEW n \in DOMAIN Iog[k]
      PROVE  Iog[k][n][2] \in KindsIn(k)
  <2>1. CASE k = 0
    BY <1>1, <2>1, Groups, Tables, Entries0
  <2>2. CASE k = 1
    BY <1>1, <2>2, Groups, Tables, Entries1
  <2>3. CASE k = 2
    BY <1>1, <2>3, Groups, Tables, Entries2
  <2>4. CASE k = 3
    BY <1>1, <2>4, Groups, Tables, Entries3
  <2>5. CASE k = 4
    BY <1>1, <2>5, Groups, Tables, Entries4
  <2>6. CASE k = 5
    BY <1>1, <2>6, Groups, Tables, Entries5
  <2>7. CASE k = 6
    BY <1>1, <2>7, Groups, Tables, Entries6
  <2> QED
    BY <2>1, <2>2, <2>3, <2>4, <2>5, <2>6, <2>7
<1> HIDE DEF i, j, e
<1>2. g = h \/ (g \in {0, 3, 4} /\ h \in {0, 3, 4})
  <2>1. e[2] \in KindsIn(g) /\ e[2] \in KindsIn(h)
    BY <1>0, <1>1 DEF e
  <2> QED
    BY <2>1
<1>3. g = h
  <2>1. e[1] = Iog[g][i][1] /\ e[1] = Iog[h][j][1]
    BY <1>0 DEF e
  <2>2. CASE g = 0 /\ h = 3
    BY <1>0, <2>1, <2>2, Cross
  <2>3. CASE g = 3 /\ h = 0
    BY <1>0, <2>1, <2>3, Cross
  <2>4. CASE g = 0 /\ h = 4
    BY <1>0, <2>1, <2>4, Cross
  <2>5. CASE g = 4 /\ h = 0
    BY <1>0, <2>1, <2>5, Cross
  <2>6. CASE g = 3 /\ h = 4
    BY <1>0, <2>1, <2>6, Cross
  <2>7. CASE g = 4 /\ h = 3
    BY <1>0, <2>1, <2>7, Cross
  <2> QED
    BY <1>2, <2>2, <2>3, <2>4, <2>5, <2>6, <2>7
<1>4. i = j
  <2>1. Iog[g][i] = Iog[g][j] /\ i \in DOMAIN Iog[g] /\ j \in DOMAIN Iog[g]
    BY <1>0, <1>3 DEF e
  <2>2. CASE g = 0
    BY <2>1, <2>2, Groups, Tables, Entries0
  <2>3. CASE g = 1
    BY <2>1, <2>3, Groups, Tables, Entries1
  <2>4. CASE g = 2
    BY <2>1, <2>4, Groups, Tables, Entries2
  <2>5. CASE g = 3
    BY <2>1, <2>5, Groups, Tables, Entries3
  <2>6. CASE g = 4
    BY <2>1, <2>6, Groups, Tables, Entries4
  <2>7. CASE g = 5
    BY <2>1, <2>7, Groups, Tables, Entries5
  <2>8. CASE g = 6
    BY <2>1, <2>8, Groups, Tables, Entries6
  <2> QED
    BY <2>2, <2>3, <2>4, <2>5, <2>6, <2>7, <2>8
<1> QED
  BY <1>0, <1>3, <1>4 DEF i, j

\* An instruction that is in the tables is in the place where it is looked up.
LEMMA PlaceInTables ==
  ASSUME NEW text, InTables(text)
  PROVE  /\ GroupOf(text) \in 0 .. 6 /\ OpcodeOf(text) \in Ops(GroupOf(text))
         /\ Iog[GroupOf(text)][OpcodeOf(text) + 1] = <<text.name, text.args>>
<1>1. PICK g \in 0 .. 6 : \E op \in Ops(g) : IsOp(g, op, text)
  BY DEF InTables
<1>2. GroupOf(text) \in 0 .. 6
      /\ \E op \in Ops(GroupOf(text)) : IsOp(GroupOf(text), op, text)
  BY <1>1 DEF GroupOf
<1> DEFINE h == GroupOf(text)
<1> HIDE DEF h
<1>3. \E op \in Ops(h) : IsOp(h, op, text)
  BY <1>2 DEF h
<1>4. OpcodeOf(text) = CHOOSE op \in Ops(h) : IsOp(h, op, text)
  BY DEF OpcodeOf, h
<1>5. OpcodeOf(text) \in Ops(h) /\ IsOp(h, OpcodeOf(text), text)
  BY <1>3, <1>4
<1> QED
  BY <1>2, <1>5 DEF h, IsOp

LEMMA PlaceIs ==
  ASSUME NEW text, NEW g \in 0 .. 6, NEW op \in Ops(g), IsOp(g, op, text)
  PROVE  GroupOf(text) = g /\ OpcodeOf(text) = op
<1>1. InTables(text)
  BY DEF InTables
<1> QED
  BY <1>1, PlaceInTables, EntryIsUnique DEF IsOp

(***************************************************************************)
(* Words.                                                                  *)
(***************************************************************************)
LEMMA Powers ==
  /\ 2 ^ 4 = 16 /\ 2 ^ 16 = 65536 /\ 2 ^ 20 = 1048576 /\ 2 ^ 24 = 16777216
  /\ 2 ^ 28 = 268435456 /\ 2 ^ 32 = 4294967296 /\ 2 ^ 12 = 4096 /\ 2 ^ 0 = 1
  /\ 2 ^ 11 = 2048
  BY SMT

\* The fields of a word, and the low half of it in two ways.
FieldsAre(word, g, a, b, low) ==
  /\ Bits(word, 31, 28) = g /\ Bits(word, 27, 24) = a /\ Bits(word, 23, 20) = b
  /\ Bits(word, 19, 16) = low \div 65536 /\ Bits(word, 15, 0) = low % 65536
  /\ Bits(word, 15, 4) = (low \div 16) % 4096 /\ Bits(word, 3, 0) = low % 16

SumIs(word, g, a, b, low) ==
  word % 4294967296 = g * 268435456 + a * 16777216 + b * 1048576 + low

LEMMA FieldsOfWord ==
  ASSUME NEW g \in Nat, g < 16, NEW a \in Nat, a < 16, NEW b \in Nat, b < 16,
         NEW low \in Nat, low < 1048576, NEW word \in Int,
         SumIs(word, g, a, b, low)
  PROVE  FieldsAre(word, g, a, b, low)
<1>1. PICK k \in Int : word = 4294967296 * k + g * 268435456 + a * 16777216
                                + b * 1048576 + low
  <2> DEFINE q == word \div 4294967296
  <2>1. word = 4294967296 * q + (word % 4294967296) /\ q \in Int
    BY SMT
  <2> HIDE DEF q
  <2>2. word = 4294967296 * q + g * 268435456 + a * 16777216 + b * 1048576 + low
    BY <2>1, SMT DEF SumIs
  <2> QED
    BY <2>1, <2>2, SMT
<1>2. /\ 31 - 28 + 1 = 4 /\ 27 - 24 + 1 = 4 /\ 23 - 20 + 1 = 4 /\ 19 - 16 + 1 = 4
      /\ 15 - 0 + 1 = 16 /\ 15 - 4 + 1 = 12 /\ 3 - 0 + 1 = 4 /\ word \div 1 = word
  BY SMT
<1>3. word \div 268435456 = 16 * k + g
  BY <1>1, SMT
<1>4. word \div 16777216 = 16 * (16 * k + g) + a
  BY <1>1, SMT
<1>5. word \div 1048576 = 16 * (16 * (16 * k + g) + a) + b
  BY <1>1, SMT
<1>6. word \div 65536 = 16 * (16 * (16 * (16 * k + g) + a) + b) + (low \div 65536)
  BY <1>1, SMT
<1>7. word % 65536 = low % 65536 /\ word % 16 = low % 16
  BY <1>1, SMT
<1>8. (word \div 16) % 4096 = (low \div 16) % 4096
  BY <1>1, SMT
<1>9. \A x \in Int, y \in Int : 0 <= y /\ y < 16 => (16 * x + y) % 16 = y
  BY SMT
<1>10. (16 * k + g) % 16 = g
  BY <1>9, SMT
<1>11. (16 * (16 * k + g) + a) % 16 = a
  BY <1>9, SMT
<1>12. (16 * (16 * (16 * k + g) + a) + b) % 16 = b
  BY <1>9, SMT
<1>13. (16 * (16 * (16 * (16 * k + g) + a) + b) + (low \div 65536)) % 16
         = low \div 65536
  BY <1>9, SMT
<1>14. Bits(word, 31, 28) = g
  BY <1>2, <1>3, <1>10, Powers, SMT DEF Bits
<1>15. Bits(word, 27, 24) = a
  BY <1>2, <1>4, <1>11, Powers, SMT DEF Bits
<1>16. Bits(word, 23, 20) = b
  BY <1>2, <1>5, <1>12, Powers, SMT DEF Bits
<1>17. Bits(word, 19, 16) = low \div 65536
  BY <1>2, <1>6, <1>13, Powers, SMT DEF Bits
<1>18. Bits(word, 15, 0) = low % 65536
  BY <1>2, <1>7, Powers, SMT DEF Bits
<1>19. Bits(word, 3, 0) = low % 16
  BY <1>2, <1>7, Powers, SMT DEF Bits
<1>20. Bits(word, 15, 4) = (low \div 16) % 4096
  BY <1>2, <1>8, Powers, SMT DEF Bits
<1> QED
  BY <1>14, <1>15, <1>16, <1>17, <1>18, <1>19, <1>20, SMT DEF FieldsAre

(***************************************************************************)
(* Texts.                                                                  *)
(***************************************************************************)
\* The texts of a source: any registers, and any number, in the places the
\* instruction has.
IsText(text) ==
  /\ text = Text(text.name, text.args, text.ra, text.rb, text.rc, text.imm)
  /\ text.ra \in Registers /\ text.rb \in Registers /\ text.rc \in Registers
  /\ text.imm \in Int
  /\ Fits(text.args, text.ra, text.rb, text.rc, text.imm)

\* The texts of the instructions in the tables.
IsBasic(text) == IsText(text) /\ InTables(text)

\* The low 20 bits of an instruction: with an immediate of 16 bits, with one of
\* 12, and with a register.
LowImm16(op, imm) == op * 65536 + (imm % 65536)
LowSimm12(op, imm) == (imm % 4096) * 16 + op
LowRegs(op, rc) == rc * 65536 + op

Low(text, address) ==
  LET g == GroupOf(text)
      op == OpcodeOf(text)
  IN CASE g = 1 -> LowImm16(op, text.imm)
       [] g = 2 -> LowImm16(op, text.imm - address - 4)
       [] text.args = "TwoRegsOneSimmLdst" -> LowSimm12(op, text.imm)
       [] OTHER -> LowRegs(op, text.rc)

LEMMA OpcodeFits == \A g \in 0 .. 6 : \A op \in Ops(g) : op \in 0 .. 15
  BY DEF Ops

LEMMA RegisterFields ==
  ASSUME NEW x \in 0 .. 15
  PROVE  /\ Field(x, 31, 28) = x * 268435456 /\ Field(x, 27, 24) = x * 16777216
         /\ Field(x, 23, 20) = x * 1048576 /\ Field(x, 19, 16) = x * 65536
         /\ Field(x, 3, 0) = x
<1>1. /\ 31 - 28 + 1 = 4 /\ 27 - 24 + 1 = 4 /\ 23 - 20 + 1 = 4 /\ 19 - 16 + 1 = 4
      /\ 3 - 0 + 1 = 4
  BY SMT
<1>2. x % 16 = x /\ x * 1 = x
  BY SMT
<1>3. Field(x, 31, 28) = x * 268435456 /\ Field(x, 27, 24) = x * 16777216
  BY <1>1, <1>2, Powers, SMT DEF Field
<1>4. Field(x, 23, 20) = x * 1048576 /\ Field(x, 19, 16) = x * 65536
  BY <1>1, <1>2, Powers, SMT DEF Field
<1>5. Field(x, 3, 0) = x
  BY <1>1, <1>2, Powers, SMT DEF Field
<1> QED
  BY <1>3, <1>4, <1>5, SMT

LEMMA ImmediateFields ==
  ASSUME NEW x \in Int
  PROVE  /\ Field(x, 15, 0) = x % 65536 /\ Field(x, 15, 4) = (x % 4096) * 16
         /\ x % 65536 \in Nat /\ x % 65536 < 65536
         /\ x % 4096 \in Nat /\ x % 4096 < 4096
<1>1. 15 - 0 + 1 = 16 /\ 15 - 4 + 1 = 12
  BY SMT
<1>2. /\ x % 65536 \in Nat /\ x % 65536 < 65536
      /\ x % 4096 \in Nat /\ x % 4096 < 4096
      /\ (x % 65536) * 1 = x % 65536
  BY SMT
<1>3. Field(x, 15, 0) = x % 65536
  BY <1>1, <1>2, Powers, SMT DEF Field
<1>4. Field(x, 15, 4) = (x % 4096) * 16
  BY <1>1, <1>2, Powers, SMT DEF Field
<1> QED
  BY <1>2, <1>3, <1>4, SMT

\* The kinds of operands of a text in the tables, by its group.
LEMMA KindsOfText ==
  ASSUME NEW text, IsBasic(text)
  PROVE  /\ GroupOf(text) \in 0 .. 6 /\ OpcodeOf(text) \in 0 .. 15
         /\ OpcodeOf(text) + 1 \in DOMAIN Iog[GroupOf(text)]
         /\ GroupOf(text) \in {0, 3, 4} => text.args = "ThreeRegs"
         /\ GroupOf(text) = 1 =>
              text.args = CASE OpcodeOf(text) \in {3, 5} -> "TwoRegsOneSimm"
                            [] OpcodeOf(text) = 14 -> "OneRegOnePcOneSimm"
                            [] OpcodeOf(text) = 15 -> "OneRegOneImm"
                            [] OTHER -> "TwoRegsOneImm"
         /\ GroupOf(text) = 2 => text.args = "Branch"
         /\ GroupOf(text) = 5 =>
              text.args = IF OpcodeOf(text) < 8 THEN "ThreeRegsLdst"
                          ELSE "TwoRegsOneSimmLdst"
         /\ GroupOf(text) = 6 =>
              IF text.name = "cpy"
              THEN text.args \in {"OneIretaOneReg", "OneRegOneIreta",
                                  "OneIdstaOneReg", "OneRegOneIdsta"}
              ELSE text.args = "NoArgs" /\ text.name \in {"ei", "di", "reti"}
         /\ GroupOf(text) # 6 => text.name # "cpy"
         /\ GroupOf(text) = 1 =>
              /\ text.name = "addsi" <=> OpcodeOf(text) = 14
              /\ text.name = "cpyhi" <=> OpcodeOf(text) = 15
              /\ text.name \in {"sltsi", "sgtsi"} <=> OpcodeOf(text) \in {3, 5}
         /\ GroupOf(text) \in {2, 3, 4} => text.name \notin NotNames
         /\ Oper[GroupOf(text) + 1][OpcodeOf(text) + 1]
              = IF text.name = "cpy" THEN text.args ELSE text.name
         /\ OpcodeOf(text) + 1 \in DOMAIN Oper[GroupOf(text) + 1]
<1> DEFINE g == GroupOf(text)
           op == OpcodeOf(text)
<1>1. /\ g \in 0 .. 6 /\ op \in 0 .. 15 /\ op + 1 \in DOMAIN Iog[g]
      /\ Iog[g][op + 1] = <<text.name, text.args>>
  BY PlaceInTables, OpcodeFits DEF IsBasic, IsText, Fits, Registers, Ops
<1>2. Iog[g][op + 1][1] = text.name /\ Iog[g][op + 1][2] = text.args
  BY <1>1
<1>3. /\ DOMAIN Oper[1] = 1 .. 16 /\ DOMAIN Oper[2] = 1 .. 16 /\ DOMAIN Oper[3] = 1 .. 12
      /\ DOMAIN Oper[4] = 1 .. 10 /\ DOMAIN Oper[5] = 1 .. 10 /\ DOMAIN Oper[6] = 1 .. 16
      /\ DOMAIN Oper[7] = 1 .. 7
  BY SMT DEF Oper
<1> HIDE DEF g, op
<1>4. CASE g = 0
  BY <1>1, <1>2, <1>3, <1>4, Groups, Tables, Entries0 DEF g, op
<1>5. CASE g = 1
  BY <1>1, <1>2, <1>3, <1>5, Groups, Tables, Entries1 DEF g, op
<1>6. CASE g = 2
  BY <1>1, <1>2, <1>3, <1>6, Groups, Tables, Entries2 DEF NotNames, g, op
<1>7. CASE g = 3
  BY <1>1, <1>2, <1>3, <1>7, Groups, Tables, Entries3 DEF NotNames, g, op
<1>8. CASE g = 4
  BY <1>1, <1>2, <1>3, <1>8, Groups, Tables, Entries4 DEF NotNames, g, op
<1>9. CASE g = 5
  BY <1>1, <1>2, <1>3, <1>9, Groups, Tables, Entries5 DEF g, op
<1>10. CASE g = 6
  BY <1>1, <1>2, <1>3, <1>10, Groups, Tables, Entries6 DEF g, op
<1> QED
  BY <1>1, <1>4, <1>5, <1>6, <1>7, <1>8, <1>9, <1>10 DEF g

LEMMA EncodedIs ==
  ASSUME NEW text, IsBasic(text), NEW address \in Int
  PROVE  /\ Low(text, address) \in Nat /\ Low(text, address) < 1048576
         /\ Encode(text, address) = GroupOf(text) * 268435456 + text.ra * 16777216
                                 + text.rb * 1048576 + Low(text, address)
<1> DEFINE g == GroupOf(text)
           op == OpcodeOf(text)
           ra == text.ra
           rb == text.rb
           rc == text.rc
           x  == text.imm
           y  == text.imm - address - 4
           regs == g * 268435456 + ra * 16777216 + rb * 1048576
<1>1. g \in 0 .. 6 /\ op \in 0 .. 15 /\ g \in 0 .. 15
  BY PlaceInTables, OpcodeFits DEF IsBasic, IsText, Fits, Registers
<1>2. ra \in 0 .. 15 /\ rb \in 0 .. 15 /\ rc \in 0 .. 15 /\ x \in Int /\ y \in Int
  BY DEF IsBasic, IsText, Fits, Registers
<1>3. text.args = "TwoRegsOneSimmLdst" => g = 5
  <2>1. g # 5 => text.args # "TwoRegsOneSimmLdst"
    BY KindsOfText
  <2> QED
    BY <2>1
<1> DEFINE low == Low(text, address)
           x16 == x % 65536
           x12 == x % 4096
           y16 == y % 65536
<1>4. /\ g = 1 => /\ Encode(text, address) = EncodeImm16(1, text, x)
                  /\ low = LowImm16(op, x)
      /\ g = 2 => /\ Encode(text, address) = EncodeImm16(2, text, y)
                  /\ low = LowImm16(op, y)
      /\ g \notin {1, 2} /\ text.args = "TwoRegsOneSimmLdst" =>
           /\ Encode(text, address) = EncodeSimm12(text)
           /\ low = LowSimm12(op, x)
      /\ g \notin {1, 2} /\ text.args # "TwoRegsOneSimmLdst" =>
           /\ Encode(text, address) = EncodeThreeRegs(g, text)
           /\ low = LowRegs(op, rc)
  <2>1. CASE g = 1
    <3>1. Encode(text, address) = EncodeImm16(1, text, x)
      BY <1>3, <2>1 DEF Encode
    <3>2. low = LowImm16(op, x)
      BY <1>3, <2>1 DEF Low
    <3> HIDE DEF g, op, rc, x, y, low
    <3> QED
      BY <2>1, <3>1, <3>2
  <2>2. CASE g = 2
    <3>1. Encode(text, address) = EncodeImm16(2, text, y)
      BY <1>3, <2>2 DEF Encode, BranchImmediate
    <3>2. low = LowImm16(op, y)
      BY <1>3, <2>2 DEF Low
    <3> HIDE DEF g, op, rc, x, y, low
    <3> QED
      BY <2>2, <3>1, <3>2
  <2>3. CASE g \notin {1, 2} /\ text.args = "TwoRegsOneSimmLdst"
    <3>1. g # 1 /\ g # 2
      BY <2>3
    <3>2. Encode(text, address) = EncodeSimm12(text)
      BY <2>3, <3>1 DEF Encode
    <3>3. low = LowSimm12(op, x)
      BY <2>3, <3>1 DEF Low
    <3> HIDE DEF g, op, x, y, low
    <3> QED
      BY <2>3, <3>1, <3>2, <3>3
  <2>4. CASE g \notin {1, 2} /\ text.args # "TwoRegsOneSimmLdst"
    <3>1. g # 1 /\ g # 2
      BY <2>4
    <3>2. Encode(text, address) = EncodeThreeRegs(g, text)
      BY <2>4, <3>1 DEF Encode
    <3>3. low = LowRegs(op, rc)
      BY <2>4, <3>1 DEF Low
    <3> HIDE DEF g, op, rc, x, y, low
    <3> QED
      BY <2>4, <3>1, <3>2, <3>3
  <2> QED
    BY <2>1, <2>2, <2>3, <2>4
<1>5. /\ EncodeImm16(1, text, x)
           = EncodeRegs(1, ra, rb) + Field(op, 19, 16) + Field(x, 15, 0)
      /\ EncodeImm16(2, text, y)
           = EncodeRegs(2, ra, rb) + Field(op, 19, 16) + Field(y, 15, 0)
      /\ EncodeSimm12(text) = EncodeRegs(5, ra, rb) + Field(x, 15, 4) + Field(op, 3, 0)
      /\ EncodeThreeRegs(g, text)
           = EncodeRegs(g, ra, rb) + Field(rc, 19, 16) + Field(op, 3, 0)
  BY DEF EncodeImm16, EncodeSimm12, EncodeThreeRegs
<1> HIDE DEF g, op, ra, rb, rc, x, y, low
<1>6. EncodeRegs(g, ra, rb) = regs /\ regs \in Int
  <2>1. /\ Field(g, 31, 28) = g * 268435456 /\ Field(ra, 27, 24) = ra * 16777216
        /\ Field(rb, 23, 20) = rb * 1048576
    BY <1>1, <1>2, RegisterFields, SMT
  <2>2. regs \in Int
    BY <1>1, <1>2, SMT
  <2> QED
    BY <2>1, <2>2, SMT DEF EncodeRegs
<1> HIDE DEF regs
<1>7. /\ Field(op, 19, 16) = op * 65536 /\ Field(op, 3, 0) = op
      /\ Field(rc, 19, 16) = rc * 65536
  BY <1>1, <1>2, RegisterFields, SMT
<1>8. /\ Field(x, 15, 0) = x16 /\ Field(x, 15, 4) = x12 * 16
      /\ x16 \in Nat /\ x16 < 65536 /\ x12 \in Nat /\ x12 < 4096
  BY <1>2, ImmediateFields, SMT
<1>9. Field(y, 15, 0) = y16 /\ y16 \in Nat /\ y16 < 65536
  BY <1>2, ImmediateFields, SMT
<1>10. op \in Nat /\ op < 16 /\ rc \in Nat /\ rc < 16
  BY <1>1, <1>2, SMT
<1>11. /\ LowImm16(op, x) = op * 65536 + x16 /\ LowImm16(op, y) = op * 65536 + y16
       /\ LowSimm12(op, x) = x12 * 16 + op /\ LowRegs(op, rc) = rc * 65536 + op
  BY SMT DEF LowImm16, LowSimm12, LowRegs
<1> HIDE DEF x16, x12, y16
<1>12. low \in Nat /\ low < 1048576 /\ Encode(text, address) = regs + low
  <2>1. CASE g = 1
    BY <1>4, <1>5, <1>6, <1>7, <1>8, <1>10, <1>11, <2>1, SMT
  <2>2. CASE g = 2
    BY <1>4, <1>5, <1>6, <1>7, <1>9, <1>10, <1>11, <2>2, SMT
  <2>3. CASE g \notin {1, 2} /\ text.args = "TwoRegsOneSimmLdst"
    BY <1>3, <1>4, <1>5, <1>6, <1>7, <1>8, <1>10, <1>11, <2>3, SMT
  <2>4. CASE g \notin {1, 2} /\ text.args # "TwoRegsOneSimmLdst"
    BY <1>4, <1>5, <1>6, <1>7, <1>10, <1>11, <2>4, SMT
  <2> QED
    BY <2>1, <2>2, <2>3, <2>4, SMT
<1> QED
  BY <1>12, SMT DEF regs, g, ra, rb, low

\* The fields of the low 20 bits.
LEMMA LowImm16Fields ==
  ASSUME NEW op \in Nat, op < 16, NEW imm \in Int
  PROVE  /\ LowImm16(op, imm) \div 65536 = op
         /\ LowImm16(op, imm) % 65536 = imm % 65536
<1> DEFINE y == imm % 65536
<1>1. y \in Nat /\ y < 65536
  BY SMT
<1>2. LowImm16(op, imm) = op * 65536 + y
  BY SMT DEF LowImm16
<1> HIDE DEF y
<1>3. LowImm16(op, imm) \div 65536 = op /\ LowImm16(op, imm) % 65536 = y
  BY <1>1, <1>2, SMT
<1> QED
  BY <1>3, SMT DEF y

LEMMA LowSimm12Fields ==
  ASSUME NEW op \in Nat, op < 16, NEW imm \in Int
  PROVE  /\ LowSimm12(op, imm) \div 65536 = 0
         /\ (LowSimm12(op, imm) \div 16) % 4096 = imm % 4096
         /\ LowSimm12(op, imm) % 16 = op
<1> DEFINE y == imm % 4096
<1>1. y \in Nat /\ y < 4096
  BY SMT
<1>2. LowSimm12(op, imm) = y * 16 + op
  BY SMT DEF LowSimm12
<1> HIDE DEF y
<1>3. LowSimm12(op, imm) \div 65536 = 0 /\ LowSimm12(op, imm) % 16 = op
  BY <1>1, <1>2, SMT
<1>4. LowSimm12(op, imm) \div 16 = y /\ y % 4096 = y
  BY <1>1, <1>2, SMT
<1> QED
  BY <1>3, <1>4, SMT DEF y

LEMMA LowRegsFields ==
  ASSUME NEW op \in Nat, op < 16, NEW rc \in Nat, rc < 16
  PROVE  /\ LowRegs(op, rc) \div 65536 = rc
         /\ (LowRegs(op, rc) \div 16) % 4096 = 0
         /\ LowRegs(op, rc) % 16 = op
<1>1. LowRegs(op, rc) \div 65536 = rc /\ LowRegs(op, rc) % 16 = op
  BY SMT DEF LowRegs
<1>2. LowRegs(op, rc) \div 16 = rc * 4096
  BY SMT DEF LowRegs
<1>3. (rc * 4096) % 4096 = 0
  BY SMT
<1> QED
  BY <1>1, <1>2, <1>3

LEMMA RawIs ==
  ASSUME NEW text, IsBasic(text), NEW address \in Int, NEW word \in Int,
         word % 2 ^ 32 = Encode(text, address)
  PROVE  LET raw == RawFields(word)
         IN /\ raw.group = GroupOf(text) /\ raw.opcode = OpcodeOf(text)
            /\ raw.ra = text.ra /\ raw.rb = text.rb
            /\ GroupOf(text) \notin {1, 2} => raw.rc = text.rc
            /\ GroupOf(text) = 1 => raw.imm = text.imm % 65536
            /\ GroupOf(text) = 2 => raw.imm = (text.imm - address - 4) % 65536
            /\ GroupOf(text) = 5 => raw.imm = text.imm % 4096
<1> DEFINE g == GroupOf(text)
           op == OpcodeOf(text)
           low == Low(text, address)
<1>1. g \in 0 .. 6 /\ op \in 0 .. 15
  BY KindsOfText
<1>2. /\ low \in Nat /\ low < 1048576
      /\ SumIs(word, g, text.ra, text.rb, low)
  BY EncodedIs, Powers, SMT DEF SumIs
<1>3. text.ra \in 0 .. 15 /\ text.rb \in 0 .. 15 /\ text.rc \in 0 .. 15
      /\ text.imm \in Int /\ text.imm - address - 4 \in Int
  BY DEF IsBasic, IsText, Fits, Registers
<1> HIDE DEF low
<1>4. FieldsAre(word, g, text.ra, text.rb, low)
  <2>1. /\ g \in Nat /\ g < 16 /\ text.ra \in Nat /\ text.ra < 16
        /\ text.rb \in Nat /\ text.rb < 16
    BY <1>1, <1>3, SMT
  <2> HIDE DEF g
  <2> QED
    BY <1>2, <2>1, FieldsOfWord, SMT
<1>5. /\ g \in Nat /\ op \in Nat /\ op < 16 /\ text.rc \in Nat /\ text.rc < 16
      /\ text.args = "TwoRegsOneSimmLdst" => g = 5
  <2>1. g # 5 => text.args # "TwoRegsOneSimmLdst"
    BY KindsOfText
  <2> QED
    BY <1>1, <1>3, <2>1, SMT
<1>6. CASE g \in {1, 2}
  <2> DEFINE x == IF g = 1 THEN text.imm ELSE text.imm - address - 4
  <2>1. low = LowImm16(op, x) /\ x \in Int
    BY <1>3, <1>5, <1>6 DEF low, Low
  <2> HIDE DEF x, g, op
  <2>2. low \div 65536 = op /\ low % 65536 = x % 65536
    BY <1>5, <2>1, LowImm16Fields, SMT
  <2>3. /\ RawFields(word).group = g /\ RawFields(word).opcode = low \div 65536
        /\ RawFields(word).ra = text.ra /\ RawFields(word).rb = text.rb
        /\ RawFields(word).imm = low % 65536
    BY <1>4, <1>6 DEF RawFields, FieldsAre
  <2>4. /\ RawFields(word).group = g /\ RawFields(word).opcode = op
        /\ RawFields(word).ra = text.ra /\ RawFields(word).rb = text.rb
        /\ RawFields(word).imm = x % 65536
    BY <2>2, <2>3
  <2>5. g \in {1, 2}
    BY <1>6
  <2>6. g = 1 => x = text.imm
    BY DEF x
  <2>7. g = 2 => x = text.imm - address - 4
    BY DEF x
  <2> QED
    BY <2>4, <2>5, <2>6, <2>7 DEF g, op
<1>7. CASE g \notin {1, 2} /\ text.args = "TwoRegsOneSimmLdst"
  <2>1. low = LowSimm12(op, text.imm) /\ text.rc = 0
    BY <1>7 DEF IsBasic, IsText, Fits, Registers, WithRc, low, Low
  <2> HIDE DEF g, op
  <2>2. low \div 65536 = 0 /\ (low \div 16) % 4096 = text.imm % 4096 /\ low % 16 = op
    BY <1>3, <1>5, <2>1, LowSimm12Fields, SMT
  <2>3. /\ RawFields(word).group = g /\ RawFields(word).opcode = low % 16
        /\ RawFields(word).ra = text.ra /\ RawFields(word).rb = text.rb
        /\ RawFields(word).rc = low \div 65536
        /\ g = 5 => RawFields(word).imm = (low \div 16) % 4096
    BY <1>4, <1>7 DEF RawFields, FieldsAre
  <2>4. /\ RawFields(word).group = g /\ RawFields(word).opcode = op
        /\ RawFields(word).ra = text.ra /\ RawFields(word).rb = text.rb
        /\ RawFields(word).rc = text.rc
        /\ g = 5 => RawFields(word).imm = text.imm % 4096
    BY <2>1, <2>2, <2>3
  <2> QED
    BY <1>7, <2>4 DEF g, op
<1>8. CASE g \notin {1, 2} /\ text.args # "TwoRegsOneSimmLdst"
  <2>1. low = LowRegs(op, text.rc)
    BY <1>8 DEF low, Low
  <2>2. g = 5 => text.imm = 0
    BY <1>8, KindsOfText DEF IsBasic, IsText, Fits, Registers, WithImm
  <2>3. 0 % 4096 = 0
    BY SMT
  <2> HIDE DEF g, op
  <2>4. low \div 65536 = text.rc /\ (low \div 16) % 4096 = 0 /\ low % 16 = op
    BY <1>5, <2>1, LowRegsFields, SMT
  <2>5. /\ RawFields(word).group = g /\ RawFields(word).opcode = low % 16
        /\ RawFields(word).ra = text.ra /\ RawFields(word).rb = text.rb
        /\ RawFields(word).rc = low \div 65536
        /\ g = 5 => RawFields(word).imm = (low \div 16) % 4096
    BY <1>4, <1>8 DEF RawFields, FieldsAre
  <2>6. /\ RawFields(word).group = g /\ RawFields(word).opcode = op
        /\ RawFields(word).ra = text.ra /\ RawFields(word).rb = text.rb
        /\ RawFields(word).rc = text.rc
        /\ g = 5 => RawFields(word).imm = text.imm % 4096
    BY <2>2, <2>3, <2>4, <2>5
  <2> QED
    BY <1>8, <2>6 DEF g, op
<1> QED
  BY <1>6, <1>7, <1>8

\* The decoder's output for the word of a text.
LEMMA DecodedIs ==
  ASSUME NEW text, IsBasic(text), NEW address \in Int, NEW word \in Int,
         word % 2 ^ 32 = Encode(text, address)
  PROVE  LET read == Hardware!Decode(RawFields(word))
         IN /\ read.group = GroupOf(text) /\ read.opcode = OpcodeOf(text)
            /\ read.ra = text.ra /\ read.rb = text.rb /\ read.rc = text.rc
            /\ read.imm = ImmField(text, address)
<1> DEFINE g == GroupOf(text)
           op == OpcodeOf(text)
           raw == RawFields(word)
           read == Hardware!Decode(raw)
<1>1. g \in 0 .. 6 /\ op \in 0 .. 15
  BY KindsOfText
<1>2. /\ raw.group = g /\ raw.opcode = op /\ raw.ra = text.ra /\ raw.rb = text.rb
      /\ g \notin {1, 2} => raw.rc = text.rc
      /\ g = 1 => raw.imm = text.imm % 65536
      /\ g = 2 => raw.imm = (text.imm - address - 4) % 65536
      /\ g = 5 => raw.imm = text.imm % 4096
  BY RawIs
<1>3. text.imm \in Int
  BY DEF IsBasic, IsText, Fits, Registers
<1>4. /\ g \in {1, 2} => text.rc = 0
      /\ g \in {0, 3, 4, 6} => text.imm = 0
      /\ g = 5 => text.args = "TwoRegsOneSimmLdst" \/ text.imm = 0
      /\ g # 5 => text.args # "TwoRegsOneSimmLdst"
      /\ g = 2 <=> text.args = "Branch"
  BY KindsOfText DEF IsBasic, IsText, Fits, Registers, WithRc, WithImm
<1> HIDE DEF g, op, raw
<1>5. /\ read.group = g /\ read.opcode = op /\ read.ra = text.ra /\ read.rb = text.rb
      /\ read.rc = text.rc
      /\ read.imm = CASE g \in {1, 2} -> raw.imm
                      [] g = 5 -> Hardware!SignExtImm12(raw.imm % 4096)
                      [] OTHER -> 0
  BY <1>1, <1>2, <1>4 DEF Hardware!Decode
<1>6. read.imm = ImmField(text, address)
  <2>1. CASE g \in {1, 2}
    BY <1>1, <1>2, <1>4, <1>5, <2>1, Powers DEF ImmField
  <2>2. CASE g = 5
    <3>1. \A y \in Nat : y < 4096 =>
            /\ Hardware!SignExtImm12(y % 4096)
                 = (IF y >= 2048 THEN y - 4096 ELSE y) % 65536
            /\ Signed12(y) = IF y >= 2048 THEN y - 4096 ELSE y
      BY Powers DEF Hardware!SignExtImm12, Hardware!Half, Signed12
    <3>2. text.imm % 4096 \in Nat /\ text.imm % 4096 < 4096
      BY <1>3
    <3>3. read.imm = Hardware!SignExtImm12((text.imm % 4096) % 4096)
      BY <1>2, <1>5, <2>2
    <3>4. read.imm = Signed12(text.imm % 4096) % 65536
      <4> DEFINE y == text.imm % 4096
      <4>1. y \in Nat /\ y < 4096 /\ y % 4096 = y
        BY <3>2, SMT
      <4>2. read.imm = Hardware!SignExtImm12(y % 4096)
        BY <3>3
      <4> HIDE DEF y, read
      <4>3. read.imm = Signed12(y) % 65536
        BY <3>1, <4>1, <4>2, SMT
      <4> QED
        BY <4>3 DEF y
    <3>5. CASE text.args = "TwoRegsOneSimmLdst"
      BY <1>4, <2>2, <3>4, <3>5, Powers DEF ImmField
    <3>6. CASE text.args # "TwoRegsOneSimmLdst"
      <4>1. text.imm = 0 /\ ImmField(text, address) = 0 % 65536
        BY <1>4, <2>2, <3>6, Powers DEF ImmField
      <4>2. 0 % 4096 = 0 /\ Signed12(0) = 0 /\ 0 % 65536 = 0
        BY <3>1
      <4> QED
        BY <3>4, <4>1, <4>2
    <3> QED
      BY <3>5, <3>6
  <2>3. CASE g \notin {1, 2, 5}
    BY <1>1, <1>4, <1>5, <2>3, Powers DEF ImmField
  <2> QED
    BY <2>1, <2>2, <2>3
<1> QED
  BY <1>5, <1>6 DEF g, op, raw

\* What the processor reads in a word, and what the debug display shows of it, is
\* the text that the word was assembled from: for every instruction of the tables,
\* every choice of registers, every immediate and every address.  A word that is
\* read from memory may have any bits above its 32.
THEOREM InstructionsAreReadAsWritten ==
  ASSUME NEW text, IsBasic(text), NEW address \in Int, NEW word \in Int,
         word % 2 ^ 32 = Encode(text, address)
  PROVE  ReadAsWritten(text, address, word) /\ ShownAsWritten(text, address, word)
<1> DEFINE g == GroupOf(text)
           op == OpcodeOf(text)
           read == Hardware!Decode(RawFields(word))
           oper == OperOf(read)
<1>1. /\ read.group = g /\ read.opcode = op
      /\ read.ra = text.ra /\ read.rb = text.rb /\ read.rc = text.rc
      /\ read.imm = ImmField(text, address)
  BY DecodedIs
<1> HIDE DEF read
<1>2. oper = IF text.name = "cpy" THEN text.args ELSE text.name
  BY <1>1, KindsOfText DEF OperOf
<1>3. ReadAsWritten(text, address, word)
  BY <1>1, <1>2 DEF ReadAsWritten, read
<1>4. ShownAsWritten(text, address, word)
  <2> DEFINE imm == ImmField(text, address)
             shows == [text EXCEPT !.imm = imm]
  <2>1. /\ shows = Text(text.name, text.args, text.ra, text.rb, text.rc, imm)
        /\ ~WithRa(text.args) => text.ra = 0
        /\ ~WithRb(text.args) => text.rb = 0
        /\ ~WithRc(text.args) => text.rc = 0
        /\ ~WithImm(text.args) => imm = 0
    <3>1. ~WithImm(text.args) => imm = 0
      <4>1. ~WithImm(text.args) => text.imm = 0 /\ imm = text.imm % 2 ^ 16
        BY DEF IsBasic, IsText, Fits, Registers, WithImm, ImmField
      <4>2. 0 % 2 ^ 16 = 0
        BY Powers
      <4> QED
        BY <4>1, <4>2
    <3> HIDE DEF imm
    <3> QED
      BY <3>1 DEF IsBasic, IsText, Fits, Registers, Text
  <2> SUFFICES Shown(read) = shows
    BY DEF ShownAsWritten, read
  <2> HIDE DEF imm, shows
  <2>2. read.imm = imm
    BY <1>1 DEF imm
  <2>3. g \in 0 .. 6 /\ op \in 0 .. 15
    BY KindsOfText
  <2> HIDE DEF g, op, oper
  <2>4. CASE g = 0
    <3>1. Shown(read) = ShowGroup0(oper, read)
      BY <1>1, <2>4 DEF Shown, oper
    <3> QED
      BY <1>1, <1>2, <2>1, <2>2, <2>4, <3>1, KindsOfText
         DEF ShowGroup0, Text, WithImm, g, op
  <2>5. CASE g = 1
    <3>1. Shown(read) = ShowGroup1(oper, read)
      BY <1>1, <2>5 DEF Shown, oper
    <3> QED
      BY <1>1, <1>2, <2>1, <2>2, <2>5, <3>1, KindsOfText, Entries1
         DEF ShowGroup1, Text, WithRb, WithRc, g, op
  <2>6. CASE g = 2
    <3>1. Shown(read) = ShowGroup2(oper, read)
      BY <1>1, <2>6 DEF Shown, oper
    <3> QED
      BY <1>1, <1>2, <2>1, <2>2, <2>6, <3>1, KindsOfText
         DEF ShowGroup2, NotNames, Text, WithRc, g, op
  <2>7. CASE g = 3
    <3>1. Shown(read) = ShowGroup3(oper, read)
      BY <1>1, <2>7 DEF Shown, oper
    <3> QED
      BY <1>1, <1>2, <2>1, <2>2, <2>7, <3>1, KindsOfText
         DEF ShowGroup3, NotNames, Text, WithImm, g, op
  <2>8. CASE g = 4
    <3>1. Shown(read) = ShowGroup4(oper, read)
      BY <1>1, <2>8 DEF Shown, oper
    <3> QED
      BY <1>1, <1>2, <2>1, <2>2, <2>8, <3>1, KindsOfText
         DEF ShowGroup4, NotNames, Text, WithImm, g, op
  <2>9. CASE g = 5
    <3>1. Shown(read) = ShowGroup5(oper, read)
      BY <1>1, <2>9 DEF Shown, oper
    <3> QED
      BY <1>1, <1>2, <2>1, <2>2, <2>3, <2>9, <3>1, KindsOfText
         DEF ShowGroup5, Text, WithImm, WithRc, g, op
  <2>10. CASE g = 6
    <3>1. Shown(read) = ShowGroup6(oper, read)
      BY <1>1, <2>10 DEF Shown, oper
    <3> QED
      BY <1>1, <1>2, <2>1, <2>2, <2>10, <3>1, KindsOfText
         DEF ShowGroup6, OnlyName, Text, WithRa, WithRb, WithRc, WithImm, g, op
  <2> QED
    BY <2>3, <2>4, <2>5, <2>6, <2>7, <2>8, <2>9, <2>10
<1> QED
  BY <1>3, <1>4

(***************************************************************************)
(* Pseudo instructions.                                                    *)
(***************************************************************************)
LEMMA EntryIsPair ==
  ASSUME NEW table \in Tabulated, NEW i \in DOMAIN table
  PROVE  table[i] = <<table[i][1], table[i][2]>>
<1>1. CASE table = Iog0
  BY <1>1, SMT DEF Iog0, Named
<1>2. CASE table = Iog1
  BY <1>2, SMT DEF Iog1, Named
<1>3. CASE table = Iog2
  BY <1>3, SMT DEF Iog2, Named
<1>4. CASE table = Iog3
  BY <1>4, SMT DEF Iog3, Named
<1>5. CASE table = Iog4
  BY <1>5, SMT DEF Iog4, Named
<1>6. CASE table = Iog5
  BY <1>6, SMT DEF Iog5, Named
<1>7. CASE table = Iog6
  BY <1>7, SMT DEF Iog6
<1> QED
  BY <1>1, <1>2, <1>3, <1>4, <1>5, <1>6, <1>7 DEF Tabulated

\* Texts, in a sequence.
InSource(texts) ==
  DOMAIN texts \subseteq Int /\ \A i \in DOMAIN texts : IsText(texts[i])

LEMMA TextInSource ==
  ASSUME NEW name, NEW args, NEW ra \in Registers, NEW rb \in Registers,
         NEW rc \in Registers, NEW imm \in Int, Fits(args, ra, rb, rc, imm)
  PROVE  IsText(Text(name, args, ra, rb, rc, imm))
<1> DEFINE t == Text(name, args, ra, rb, rc, imm)
<1>1. /\ t.name = name /\ t.args = args /\ t.ra = ra /\ t.rb = rb /\ t.rc = rc
      /\ t.imm = imm
  BY DEF Text
<1>2. t = Text(t.name, t.args, t.ra, t.rb, t.rc, t.imm)
  BY <1>1
<1> HIDE DEF t
<1>3. IsText(t)
  BY <1>1, <1>2 DEF IsText
<1> QED
  BY <1>3 DEF t

LEMMA KindInSource ==
  ASSUME NEW name, NEW ra \in Registers, NEW rb \in Registers,
         NEW rc \in Registers, NEW imm \in Int
  PROVE  /\ IsText(Text(name, "ThreeRegs", ra, rb, rc, 0))
         /\ IsText(Text(name, "TwoRegsOneImm", ra, rb, 0, imm))
         /\ IsText(Text(name, "TwoRegsOneSimm", ra, rb, 0, imm))
         /\ IsText(Text(name, "Branch", ra, rb, 0, imm))
         /\ IsText(Text(name, "OneRegOneImm", ra, 0, 0, imm))
         /\ IsText(Text(name, "OneRegOnePcOneSimm", ra, 0, 0, imm))
<1>1. 0 \in Int /\ 0 \in Registers
  BY DEF Registers
<1>2. IsText(Text(name, "ThreeRegs", ra, rb, rc, 0))
  <2>1. Fits("ThreeRegs", ra, rb, rc, 0)
    BY DEF Fits, WithRa, WithRb, WithRc, WithImm
  <2> QED
    BY <1>1, <2>1, TextInSource, Zenon
<1>3. IsText(Text(name, "TwoRegsOneImm", ra, rb, 0, imm))
  <2>1. Fits("TwoRegsOneImm", ra, rb, 0, imm)
    BY DEF Fits, WithRa, WithRb, WithRc, WithImm
  <2> QED
    BY <1>1, <2>1, TextInSource, Zenon
<1>4. IsText(Text(name, "TwoRegsOneSimm", ra, rb, 0, imm))
  <2>1. Fits("TwoRegsOneSimm", ra, rb, 0, imm)
    BY DEF Fits, WithRa, WithRb, WithRc, WithImm
  <2> QED
    BY <1>1, <2>1, TextInSource, Zenon
<1>5. IsText(Text(name, "Branch", ra, rb, 0, imm))
  <2>1. Fits("Branch", ra, rb, 0, imm)
    BY DEF Fits, WithRa, WithRb, WithRc, WithImm
  <2> QED
    BY <1>1, <2>1, TextInSource, Zenon
<1>6. IsText(Text(name, "OneRegOneImm", ra, 0, 0, imm))
  <2>1. Fits("OneRegOneImm", ra, 0, 0, imm)
    BY DEF Fits, WithRa, WithRb, WithRc, WithImm
  <2> QED
    BY <1>1, <2>1, TextInSource, Zenon
<1>7. IsText(Text(name, "OneRegOnePcOneSimm", ra, 0, 0, imm))
  <2>1. Fits("OneRegOnePcOneSimm", ra, 0, 0, imm)
    BY DEF Fits, WithRa, WithRb, WithRc, WithImm
  <2> QED
    BY <1>1, <2>1, TextInSource, Zenon
<1> QED
  BY <1>2, <1>3, <1>4, <1>5, <1>6, <1>7

LEMMA CpyaInSource ==
  ASSUME NEW ra \in Registers, NEW imm \in Int
  PROVE  InSource(Cpya(ra, imm)) /\ Len(Cpya(ra, imm)) = 2 
<1>0. 0 \in Registers
  BY DEF Registers
<1> DEFINE low == Text("addi", "TwoRegsOneImm", ra, 0, 0, imm)
           high == Text("cpyhi", "OneRegOneImm", ra, 0, 0, imm \div 2 ^ 16)
<1>1. imm \div 2 ^ 16 \in Int
  BY Powers, SMT
<1>2. IsText(low)
  BY <1>0, KindInSource, Zenon
<1>3. IsText(high)
  BY <1>0, <1>1, KindInSource, Zenon
<1>4. Cpya(ra, imm) = <<low, high>>
  BY DEF Cpya
<1> HIDE DEF low, high
<1> QED
  BY <1>2, <1>3, <1>4 DEF InSource

LEMMA ToInSource ==
  ASSUME NEW name, NEW ra \in Registers, NEW rb \in Registers,
         NEW rc \in Registers
  PROVE  InSource(To(name, ra, rb, rc))
<1> DEFINE t == Text(name, "ThreeRegs", ra, rb, rc, 0)
<1>1. IsText(t)
  BY KindInSource, 0 \in Int, Zenon
<1>2. To(name, ra, rb, rc) = <<t>>
  BY DEF To
<1> HIDE DEF t
<1> QED
  BY <1>1, <1>2 DEF InSource

\* What a text of a source stands for is texts of a source.
LEMMA ExpandInSource ==
  ASSUME NEW text, IsText(text), ~Eek(text)
  PROVE  InSource(Expand(text))
<1> DEFINE name == text.name
           args == text.args
<1>1. /\ text.ra \in Registers
      /\ text.rb \in Registers /\ text.rc \in Registers /\ text.imm \in Int
      /\ 0 \in Registers /\ TEMP \in Registers /\ 0 \in Int /\ 1 \in Int
  BY DEF IsText, TEMP, Registers
<1>2. DOMAIN AbsoluteToRegister = Absolute \ {"bra"}
  BY DEF AbsoluteToRegister, Absolute
<1>3. /\ name \in Absolute => args \in {"OneImm", "TwoRegsOneImm"}
      /\ name = "bra" => args = "OneImm"
      /\ args = "OneReg" => name \in {"jmp", "call", "inc", "dec"}
  BY VisitedNames
<1>4. "bra" \in Absolute /\ "cpy" \notin Absolute
  BY DEF Absolute
<1>5. CASE name \in DOMAIN AbsoluteToRegister
  <2> DEFINE jump == To(AbsoluteToRegister[name], text.ra, text.rb, TEMP)
  <2>2. InSource(jump)
    BY <1>1, ToInSource
  <2>3. InSource(Cpya(TEMP, text.imm)) /\ Len(Cpya(TEMP, text.imm)) = 2
    BY <1>1, CpyaInSource
  <2>4. Expand(text) = Cpya(TEMP, text.imm) \o jump
    BY <1>2, <1>3, <1>5 DEF Expand
  <2> QED
    BY <2>2, <2>3, <2>4 DEF InSource, Cpya, To
<1>6. CASE args = "TwoRegs"
  <2>1. Expand(text) = TwoRegsToThree(text)
    BY <1>2, <1>3, <1>6 DEF Expand
  <2>2. InSource(TwoRegsToThree(text))
    BY <1>1, ToInSource DEF TwoRegsToThree
  <2> QED
    BY <2>1, <2>2
<1>7. CASE args = "OneRegOneImm"
  <2>1. Expand(text) = OneRegOneImmToTwo(text)
    BY <1>2, <1>3, <1>7 DEF Expand
  <2>2. \A k \in {"TwoRegsOneImm", "TwoRegsOneSimm"}, rb \in Registers : \A n :
          InSource(<<Text(n, k, text.ra, rb, 0, text.imm)>>)
    <3> TAKE k \in {"TwoRegsOneImm", "TwoRegsOneSimm"}, rb \in Registers
    <3> TAKE n
    <3>1. IsText(Text(n, k, text.ra, rb, 0, text.imm))
      BY <1>1, KindInSource, Zenon
    <3> QED
      BY <3>1 DEF InSource
  <2>3. InSource(<<text>>)
    BY DEF InSource
  <2>4. InSource(Cpya(text.ra, text.imm))
    BY <1>1, CpyaInSource
  <2>5. InSource(OneRegOneImmToTwo(text))
    BY <1>1, <2>2, <2>3, <2>4 DEF OneRegOneImmToTwo
  <2> QED
    BY <2>1, <2>5
<1>8. CASE args = "OneReg"
  <2>1. Expand(text) = OneRegToOthers(text)
    BY <1>2, <1>3, <1>8 DEF Expand
  <2>2. \A n : InSource(<<Text(n, "TwoRegsOneImm", text.ra, text.ra, 0, 1)>>)
    <3> TAKE n
    <3>1. IsText(Text(n, "TwoRegsOneImm", text.ra, text.ra, 0, 1))
      BY <1>1, KindInSource, Zenon
    <3> QED
      BY <3>1 DEF InSource
  <2>3. \A n : InSource(To(n, 0, 0, text.ra))
    BY <1>1, ToInSource
  <2>4. InSource(OneRegToOthers(text))
    BY <1>3, <1>8, <2>2, <2>3 DEF OneRegToOthers
  <2> QED
    BY <2>1, <2>4
<1>9. CASE name = "bra"
  <2> DEFINE t == Text("beq", "Branch", 0, 0, 0, text.imm)
  <2>1. IsText(t)
    BY <1>1, KindInSource, Zenon
  <2>2. Expand(text) = <<t>>
    BY <1>2, <1>3, <1>9 DEF Expand
  <2> HIDE DEF t
  <2> QED
    BY <2>1, <2>2 DEF InSource
<1>10. CASE args = "OneRegOnePc"
  <2> DEFINE t == Text("addsi", "OneRegOnePcOneSimm", text.ra, 0, 0, 0)
  <2>1. IsText(t)
    BY <1>1, KindInSource, Zenon
  <2>2. Expand(text) = <<t>>
    BY <1>2, <1>3, <1>10 DEF Expand
  <2> HIDE DEF t
  <2> QED
    BY <2>1, <2>2 DEF InSource
<1>11. CASE /\ name \notin DOMAIN AbsoluteToRegister /\ name # "bra"
            /\ args \notin {"TwoRegs", "OneRegOneImm", "OneReg", "OneRegOnePc"}
  <2>1. Expand(text) = <<text>>
    BY <1>11 DEF Expand
  <2> QED
    BY <2>1 DEF InSource
<1> QED
  BY <1>5, <1>6, <1>7, <1>8, <1>9, <1>10, <1>11

LEMMA EncodedIsWord ==
  ASSUME NEW text, IsBasic(text), NEW address \in Int
  PROVE  Encode(text, address) \in Int /\ Encode(text, address) % 2 ^ 32 = Encode(text, address)
<1> DEFINE g == GroupOf(text)
           ra == text.ra
           rb == text.rb
           low == Low(text, address)
           e == Encode(text, address)
<1>1. low \in Nat /\ low < 1048576 /\ e = g * 268435456 + ra * 16777216 + rb * 1048576 + low
  BY EncodedIs
<1>2. g \in 0 .. 6 /\ ra \in 0 .. 15 /\ rb \in 0 .. 15
  BY KindsOfText DEF IsBasic, IsText, Registers
<1> HIDE DEF g, ra, rb, low, e
<1>3. /\ g \in Nat /\ g < 16 /\ ra \in Nat /\ ra < 16 /\ rb \in Nat /\ rb < 16
  BY <1>2, SMT
<1>4. e \in Nat /\ e < 4294967296
  BY <1>1, <1>3, SMT
<1>5. e % 4294967296 = e
  BY <1>4, SMT
<1> QED
  BY <1>4, <1>5, Powers, SMT DEF e

\* The words that the assembler puts out for a line (visitInstruction and the
\* rest of the visitors: any instruction and any pseudo instruction they know and
\* find in the tables) are read by the processor, and shown by its debug display,
\* as the instructions that the line stands for, each at its address.
THEOREM WordsAreReadAsWritten ==
  ASSUME NEW text, IsText(text), ~Eek(text), ~LookupThrows(text),
         NEW address \in Int
  PROVE  \A i \in DOMAIN Words(text, address) :
           LET basic == Expand(text)[i]
               place == address + 4 * (i - 1)
               word  == Words(text, address)[i]
           IN ReadAsWritten(basic, place, word) /\ ShownAsWritten(basic, place, word)
<1>1. InSource(Expand(text))
  BY ExpandInSource
<1>2. DOMAIN Words(text, address) = DOMAIN Expand(text)
  BY DEF Words
<1> SUFFICES ASSUME NEW i \in DOMAIN Words(text, address)
             PROVE  LET basic == Expand(text)[i]
                        place == address + 4 * (i - 1)
                        word  == Words(text, address)[i]
                    IN ReadAsWritten(basic, place, word) /\ ShownAsWritten(basic, place, word)
  OBVIOUS
<1> DEFINE basic == Expand(text)[i]
           place == address + 4 * (i - 1)
           word  == Words(text, address)[i]
<1>3. i \in Int /\ i \in DOMAIN Expand(text) /\ IsBasic(basic)
  BY <1>1, <1>2 DEF InSource, LookupThrows, IsBasic
<1>4. place \in Int
  BY <1>3, SMT
<1>5. word = Encode(basic, place)
  BY <1>3 DEF Words
<1> HIDE DEF basic, place, word
<1>6. word \in Int /\ word % 2 ^ 32 = Encode(basic, place)
  BY <1>3, <1>4, <1>5, EncodedIsWord
<1>7. ReadAsWritten(basic, place, word) /\ ShownAsWritten(basic, place, word)
  BY <1>3, <1>4, <1>6, InstructionsAreReadAsWritten
<1> QED
  BY <1>7 DEF basic, place, word

(***************************************************************************)
(* The disassembler.                                                       *)
(***************************************************************************)
\* A word is made of its fields.
LEMMA WordOfBits ==
  ASSUME NEW word \in Nat, word < 4294967296
  PROVE  /\ Bits(word, 31, 28) \in Nat /\ Bits(word, 31, 28) < 16
         /\ Bits(word, 27, 24) \in Nat /\ Bits(word, 27, 24) < 16
         /\ Bits(word, 23, 20) \in Nat /\ Bits(word, 23, 20) < 16
         /\ Bits(word, 19, 16) \in Nat /\ Bits(word, 19, 16) < 16
         /\ Bits(word, 15, 0) \in Nat /\ Bits(word, 15, 0) < 65536
         /\ Bits(word, 15, 4) \in Nat /\ Bits(word, 15, 4) < 4096
         /\ Bits(word, 3, 0) \in Nat /\ Bits(word, 3, 0) < 16
         /\ Bits(word, 15, 0) = Bits(word, 15, 4) * 16 + Bits(word, 3, 0)
         /\ word = Bits(word, 31, 28) * 268435456 + Bits(word, 27, 24) * 16777216
                     + Bits(word, 23, 20) * 1048576
                     + (Bits(word, 19, 16) * 65536 + Bits(word, 15, 0))
<1> DEFINE w28 == word \div 268435456
           w24 == word \div 16777216
           w20 == word \div 1048576
           w16 == word \div 65536
           w4  == word \div 16
           b19 == Bits(word, 19, 16)
           b15 == Bits(word, 15, 0)
<1>1. /\ 31 - 28 + 1 = 4 /\ 27 - 24 + 1 = 4 /\ 23 - 20 + 1 = 4 /\ 19 - 16 + 1 = 4
      /\ 15 - 0 + 1 = 16 /\ 15 - 4 + 1 = 12 /\ 3 - 0 + 1 = 4 /\ word \div 1 = word
  BY SMT
<1>2. Bits(word, 31, 28) = w28 % 16 /\ Bits(word, 27, 24) = w24 % 16
  BY <1>1, Powers, SMT DEF Bits
<1>3. Bits(word, 23, 20) = w20 % 16 /\ Bits(word, 19, 16) = w16 % 16
  BY <1>1, Powers, SMT DEF Bits
<1>4. Bits(word, 15, 0) = word % 65536 /\ Bits(word, 3, 0) = word % 16
  BY <1>1, Powers, SMT DEF Bits
<1>5. Bits(word, 15, 4) = w4 % 4096
  BY <1>1, Powers, SMT DEF Bits
<1>6. /\ w28 \in Nat /\ w28 < 16 /\ w24 \in Nat /\ w20 \in Nat /\ w16 \in Nat /\ w4 \in Nat
      /\ w24 = 16 * w28 + (w24 % 16)
      /\ w20 = 16 * w24 + (w20 % 16)
      /\ w16 = 16 * w20 + (w16 % 16)
      /\ word = 65536 * w16 + (word % 65536)
  BY SMT
<1>7. word % 65536 = (w4 % 4096) * 16 + (word % 16)
  BY SMT
<1>8. \A x \in Nat : /\ x % 16 \in Nat /\ x % 16 < 16
                     /\ x % 4096 \in Nat /\ x % 4096 < 4096
                     /\ x % 65536 \in Nat /\ x % 65536 < 65536
  BY SMT
<1>9. w28 % 16 = w28
  BY <1>6, SMT
<1> HIDE DEF w28, w24, w20, w16, w4
<1>10. /\ Bits(word, 31, 28) \in Nat /\ Bits(word, 31, 28) < 16
       /\ Bits(word, 27, 24) \in Nat /\ Bits(word, 27, 24) < 16
       /\ Bits(word, 23, 20) \in Nat /\ Bits(word, 23, 20) < 16
       /\ Bits(word, 19, 16) \in Nat /\ Bits(word, 19, 16) < 16
       /\ Bits(word, 15, 0) \in Nat /\ Bits(word, 15, 0) < 65536
       /\ Bits(word, 15, 4) \in Nat /\ Bits(word, 15, 4) < 4096
       /\ Bits(word, 3, 0) \in Nat /\ Bits(word, 3, 0) < 16
  BY <1>2, <1>3, <1>4, <1>5, <1>6, <1>8
<1>11. Bits(word, 15, 0) = Bits(word, 15, 4) * 16 + Bits(word, 3, 0)
  BY <1>4, <1>5, <1>7
<1>12. /\ w24 = 16 * Bits(word, 31, 28) + Bits(word, 27, 24)
       /\ w20 = 16 * w24 + Bits(word, 23, 20)
       /\ w16 = 16 * w20 + Bits(word, 19, 16)
       /\ word = 65536 * w16 + Bits(word, 15, 0)
  BY <1>2, <1>3, <1>4, <1>6, <1>9
<1>13. word = Bits(word, 31, 28) * 268435456 + Bits(word, 27, 24) * 16777216
                + Bits(word, 23, 20) * 1048576
                + (Bits(word, 19, 16) * 65536 + Bits(word, 15, 0))
  BY <1>10, <1>12, SMT
<1> QED
  BY <1>10, <1>11, <1>13

LEMMA KindsOfEntry ==
  ASSUME NEW g \in {0, 1, 3, 4, 5}, NEW op \in Ops(g)
  PROVE  LET args == Iog[g][op + 1][2]
         IN /\ g \in {0, 3, 4} => args = "ThreeRegs"
            /\ g = 1 => args = CASE op \in {3, 5} -> "TwoRegsOneSimm"
                                 [] op = 14 -> "OneRegOnePcOneSimm"
                                 [] op = 15 -> "OneRegOneImm"
                                 [] OTHER -> "TwoRegsOneImm"
            /\ g = 5 => args = IF op < 8 THEN "ThreeRegsLdst" ELSE "TwoRegsOneSimmLdst"
            /\ op \in 0 .. 15
<1>1. op \in 0 .. 15 /\ op + 1 \in DOMAIN Iog[g]
  BY DEF Ops
<1>2. CASE g = 0
  BY <1>1, <1>2, Groups, Tables, Entries0
<1>3. CASE g = 1
  BY <1>1, <1>3, Groups, Tables, Entries1
<1>4. CASE g = 3
  BY <1>1, <1>4, Groups, Tables, Entries3
<1>5. CASE g = 4
  BY <1>1, <1>5, Groups, Tables, Entries4
<1>6. CASE g = 5
  BY <1>1, <1>6, Groups, Tables, Entries5
<1> QED
  BY <1>2, <1>3, <1>4, <1>5, <1>6

\* The text that a word is listed with, with the number its listing shows.
ListedText(word) ==
  LET listed == Disassemble(word)
  IN [listed.text EXCEPT !.imm = IF listed.expr = <<>> THEN 0 ELSE listed.expr[1][2]]

LEMMA ListedTextIs ==
  ASSUME NEW word \in Nat, word < 2 ^ 32, HasName(word),
         Bits(word, 31, 28) \notin {2, 6}
  PROVE  LET g == Bits(word, 31, 28)
             op == OpcodeIn(word, g)
             args == Iog[g][op + 1][2]
             rb == IF WithRb(args) THEN Bits(word, 23, 20) ELSE 0
             rc == IF WithRc(args) THEN Bits(word, 19, 16) ELSE 0
             imm == CASE args \in {"ThreeRegs", "ThreeRegsLdst"} -> 0
                      [] args = "TwoRegsOneSimmLdst" -> Signed12(Bits(word, 15, 4))
                      [] OTHER -> Bits(word, 15, 0)
         IN /\ g \in {0, 1, 3, 4, 5} /\ op \in Ops(g)
            /\ ListedText(word)
                 = Text(Iog[g][op + 1][1], args, Bits(word, 27, 24), rb, rc, imm)
<1> DEFINE g == Bits(word, 31, 28)
           op == OpcodeIn(word, g)
           name == Iog[g][op + 1][1]
           args == Iog[g][op + 1][2]
           ra == Bits(word, 27, 24)
           rb == IF WithRb(args) THEN Bits(word, 23, 20) ELSE 0
           rc == IF WithRc(args) THEN Bits(word, 19, 16) ELSE 0
           imm == IF args = "TwoRegsOneSimmLdst" THEN Signed12(Bits(word, 15, 4))
                  ELSE Bits(word, 15, 0)
           text == Text(name, args, ra, rb, rc, 0)
           expr == IF args \in {"ThreeRegs", "ThreeRegsLdst"} THEN <<>>
                   ELSE <<Num(imm)>>
<1>1. g \in 0 .. 6 /\ op \in Ops(TableOf(g)) /\ g \notin {2, 6}
  BY DEF HasName
<1>2. g \in {0, 1, 3, 4, 5} /\ TableOf(g) = g /\ op \in Ops(g)
  <2> HIDE DEF g, op
  <2> QED
    BY <1>1 DEF TableOf
<1>3. args # "TwoRegs"
  <2> HIDE DEF g, op
  <2> QED
    BY <1>2, KindsOfEntry
<1>4. Disassemble(word) = Instr(text, expr)
  BY <1>2, <1>3 DEF Disassemble, WithRb, WithRc
<1>5. Disassemble(word).text = text /\ Disassemble(word).expr = expr
  <2> HIDE DEF text, expr
  <2> QED
    BY <1>4 DEF Instr
<1>6. ListedText(word) = [text EXCEPT !.imm = IF expr = <<>> THEN 0 ELSE expr[1][2]]
  BY <1>5 DEF ListedText
<1>7. (IF expr = <<>> THEN 0 ELSE expr[1][2])
        = CASE args \in {"ThreeRegs", "ThreeRegsLdst"} -> 0
            [] args = "TwoRegsOneSimmLdst" -> Signed12(Bits(word, 15, 4))
            [] OTHER -> Bits(word, 15, 0)
  <2>1. CASE args \in {"ThreeRegs", "ThreeRegsLdst"}
    BY <2>1
  <2>2. CASE args = "TwoRegsOneSimmLdst"
    <3> HIDE DEF args
    <3>1. expr = <<<<"num", imm>>>> /\ expr # <<>> /\ expr[1][2] = imm
      BY <2>2 DEF Num
    <3> QED
      BY <2>2, <3>1
  <2>3. CASE args \notin {"ThreeRegs", "ThreeRegsLdst", "TwoRegsOneSimmLdst"}
    <3> HIDE DEF args
    <3>1. expr = <<<<"num", imm>>>> /\ expr # <<>> /\ expr[1][2] = imm
      BY <2>3 DEF Num
    <3> QED
      BY <2>3, <3>1
  <2> QED
    BY <2>1, <2>2, <2>3
<1> DEFINE n == CASE args \in {"ThreeRegs", "ThreeRegsLdst"} -> 0
                  [] args = "TwoRegsOneSimmLdst" -> Signed12(Bits(word, 15, 4))
                  [] OTHER -> Bits(word, 15, 0)
<1>8. ListedText(word) = Text(name, args, ra, rb, rc, n)
  <2> HIDE DEF name, args, ra, rb, rc, expr, n
  <2> QED
    BY <1>6, <1>7 DEF Text, n
<1> QED
  BY <1>2, <1>8

\* The disassembler undoes the assembler's encoding (disassembler_class.cpp): the
\* text that a word is listed with is assembled to that word again, wherever it
\* is put.  Excepted are the words that ReadsBack excepts for what they are:
\* branches and group 6, and the words with bits that the listing does not show.
THEOREM ListedWordsEncode ==
  ASSUME NEW word \in Nat, word < 2 ^ 32, HasName(word), ShownInFull(word),
         Bits(word, 31, 28) \notin {2, 6}, NEW address \in Int
  PROVE  /\ InTables(ListedText(word))
         /\ Encode(ListedText(word), address) = word
<1> DEFINE g == Bits(word, 31, 28)
           op == OpcodeIn(word, g)
           name == Iog[g][op + 1][1]
           args == Iog[g][op + 1][2]
           ra == Bits(word, 27, 24)
           rb == IF WithRb(args) THEN Bits(word, 23, 20) ELSE 0
           rc == IF WithRc(args) THEN Bits(word, 19, 16) ELSE 0
           imm == CASE args \in {"ThreeRegs", "ThreeRegsLdst"} -> 0
                    [] args = "TwoRegsOneSimmLdst" -> Signed12(Bits(word, 15, 4))
                    [] OTHER -> Bits(word, 15, 0)
           text == Text(name, args, ra, rb, rc, imm)
           b23 == Bits(word, 23, 20)
           b19 == Bits(word, 19, 16)
           b15 == Bits(word, 15, 0)
           b12 == Bits(word, 15, 4)
           b3  == Bits(word, 3, 0)
<1>1. g \in {0, 1, 3, 4, 5} /\ op \in Ops(g) /\ ListedText(word) = text
  BY ListedTextIs
<1>2. /\ ra \in Nat /\ ra < 16 /\ b23 \in Nat /\ b23 < 16 /\ b19 \in Nat /\ b19 < 16
      /\ b15 \in Nat /\ b15 < 65536 /\ b12 \in Nat /\ b12 < 4096
      /\ b3 \in Nat /\ b3 < 16
      /\ b15 = b12 * 16 + b3
      /\ word = g * 268435456 + ra * 16777216 + b23 * 1048576 + (b19 * 65536 + b15)
  BY WordOfBits, Powers
<1>3. op = IF g = 1 THEN b19 ELSE b3
  <2> HIDE DEF g, b19, b3
  <2>1. op = IF g \in {1, 2} THEN b19 ELSE b3
    BY DEF OpcodeIn, b19, b3
  <2> QED
    BY <1>1, <2>1
<1>4. /\ g \in {0, 3, 4} => b12 = 0
      /\ g = 1 /\ op >= 14 => b23 = 0
      /\ g = 5 => IF op < 8 THEN b12 = 0 ELSE b19 = 0
  <2>1. /\ g \in {0, 3, 4} => b12 = 0
        /\ g = 1 /\ OpcodeIn(word, 1) >= 14 => b23 = 0
        /\ g = 5 => IF OpcodeIn(word, 5) < 8 THEN b12 = 0 ELSE b19 = 0
    BY DEF ShownInFull
  <2>2. g \in {1, 5} => op = OpcodeIn(word, g)
    OBVIOUS
  <2> HIDE DEF op, g, b12, b19, b23
  <2> QED
    BY <2>1, <2>2
<1>5. /\ g \in {0, 3, 4} => args = "ThreeRegs"
      /\ g = 1 => args = CASE op \in {3, 5} -> "TwoRegsOneSimm"
                           [] op = 14 -> "OneRegOnePcOneSimm"
                           [] op = 15 -> "OneRegOneImm"
                           [] OTHER -> "TwoRegsOneImm"
      /\ g = 5 => args = IF op < 8 THEN "ThreeRegsLdst" ELSE "TwoRegsOneSimmLdst"
      /\ op \in 0 .. 15
  <2> HIDE DEF g, op
  <2> QED
    BY <1>1, KindsOfEntry
<1> HIDE DEF ra, b23, b19, b15, b12, b3
<1>6. /\ rb = IF WithRb(args) THEN b23 ELSE 0
      /\ rc = IF WithRc(args) THEN b19 ELSE 0
      /\ imm = CASE args \in {"ThreeRegs", "ThreeRegsLdst"} -> 0
                 [] args = "TwoRegsOneSimmLdst" -> Signed12(b12)
                 [] OTHER -> b15
  BY DEF b23, b19, b15, b12
<1> HIDE DEF g, op, args, rb, rc, imm
<1>7. /\ rb = b23
      /\ g = 1 => rc = 0 /\ imm = b15 /\ b19 = op
      /\ args = "TwoRegsOneSimmLdst" =>
           /\ g = 5 /\ rc = 0 /\ imm = Signed12(b12) /\ b19 = 0 /\ b3 = op
      /\ g # 1 /\ args # "TwoRegsOneSimmLdst" =>
           /\ rc = b19 /\ imm = 0 /\ b12 = 0 /\ b3 = op
           /\ args \in {"ThreeRegs", "ThreeRegsLdst"}
      /\ args \notin {"NoArgs", "OneImm"}
  <2>1. CASE g \in {0, 3, 4}
    BY <1>3, <1>4, <1>5, <1>6, <2>1 DEF WithRb, WithRc
  <2>2. CASE g = 1 /\ op < 14
    BY <1>3, <1>4, <1>5, <1>6, <2>2 DEF WithRb, WithRc
  <2>3. CASE g = 1 /\ op >= 14
    BY <1>3, <1>4, <1>5, <1>6, <2>3 DEF WithRb, WithRc
  <2>4. CASE g = 5 /\ op < 8
    BY <1>3, <1>4, <1>5, <1>6, <2>4 DEF WithRb, WithRc
  <2>5. CASE g = 5 /\ op >= 8
    BY <1>3, <1>4, <1>5, <1>6, <2>5 DEF WithRb, WithRc
  <2> QED
    BY <1>1, <1>5, <2>1, <2>2, <2>3, <2>4, <2>5
<1>8. /\ Signed12(b12) \in Int
      /\ Signed12(b12) % 4096 = b12
  BY <1>2, Powers, SMT DEF Signed12
<1>9. imm \in Int /\ rb \in Registers /\ rc \in Registers /\ ra \in Registers
  <2>1. imm \in Int /\ rb \in Nat /\ rb < 16 /\ rc \in Nat /\ rc < 16
    BY <1>1, <1>2, <1>7, <1>8
  <2> QED
    BY <1>2, <2>1, SMT DEF Registers
<1>10. Fits(args, ra, rb, rc, imm)
  <2>1. ~WithRb(args) => rb = 0
    BY <1>6
  <2>2. ~WithRc(args) => rc = 0
    BY <1>6
  <2>3. ~WithImm(args) => imm = 0
    <3>1. g = 1 => WithImm(args)
      BY <1>5 DEF WithImm
    <3> QED
      BY <1>7, <3>1 DEF WithImm
  <2>4. WithRa(args)
    BY <1>7 DEF WithRa
  <2> QED
    BY <2>1, <2>2, <2>3, <2>4 DEF Fits
<1>11. IsOp(g, op, text)
  <2>1. text.name = name /\ text.args = args
    BY DEF Text
  <2>2. Iog[g][op + 1] = <<name, args>>
    <3>1. Iog[g] \in Tabulated
      BY <1>1, Groups DEF Tabulated
    <3>2. op + 1 \in DOMAIN Iog[g]
      BY <1>1 DEF Ops
    <3> QED
      BY <3>1, <3>2, EntryIsPair DEF args
  <2> HIDE DEF text, name
  <2> QED
    BY <2>1, <2>2 DEF IsOp
<1>12. GroupOf(text) = g /\ OpcodeOf(text) = op /\ InTables(text)
  <2> HIDE DEF text
  <2>1. g \in 0 .. 6
    BY <1>1
  <2> QED
    BY <1>1, <1>11, <2>1, PlaceIs DEF InTables
<1>13. IsBasic(text)
  <2>1. IsText(text)
    <3> HIDE DEF name
    <3> QED
      BY <1>9, <1>10, TextInSource
  <2> QED
    BY <1>12, <2>1 DEF IsBasic
<1>14. Encode(text, address) = g * 268435456 + ra * 16777216 + b23 * 1048576
                                  + Low(text, address)
  <2>1. text.ra = ra /\ text.rb = b23
    BY <1>7 DEF Text
  <2> HIDE DEF text
  <2> QED
    BY <1>12, <1>13, <2>1, EncodedIs
<1>15. Low(text, address) = b19 * 65536 + b15
  <2>1. text.args = args /\ text.rc = rc /\ text.imm = imm
    BY DEF Text
  <2> HIDE DEF text
  <2>2. CASE g = 1
    <3>1. Low(text, address) = LowImm16(op, imm)
      BY <1>7, <1>12, <2>1, <2>2 DEF Low
    <3>2. b15 % 65536 = b15
      BY <1>2, SMT
    <3> QED
      BY <1>7, <2>2, <3>1, <3>2 DEF LowImm16
  <2>3. CASE args = "TwoRegsOneSimmLdst"
    <3>1. Low(text, address) = LowSimm12(op, imm)
      BY <1>7, <1>12, <2>1, <2>3 DEF Low
    <3>2. LowSimm12(op, imm) = b12 * 16 + op
      BY <1>7, <1>8, <2>3 DEF LowSimm12
    <3> QED
      BY <1>2, <1>7, <2>3, <3>1, <3>2
  <2>4. CASE g # 1 /\ args # "TwoRegsOneSimmLdst"
    <3>1. Low(text, address) = LowRegs(op, rc)
      BY <1>1, <1>12, <2>1, <2>4 DEF Low
    <3> QED
      BY <1>2, <1>7, <2>4, <3>1 DEF LowRegs
  <2> QED
    BY <2>2, <2>3, <2>4
<1>16. Encode(text, address) = word
  <2> HIDE DEF text
  <2> QED
    BY <1>2, <1>14, <1>15
<1> QED
  BY <1>1, <1>12, <1>16

(***************************************************************************)
(* An instruction stands for the same names whatever the value of its      *)
(* expression.                                                             *)
(***************************************************************************)
Alike(x, y) ==
  /\ DOMAIN x = DOMAIN y
  /\ \A i \in DOMAIN x : x[i].name = y[i].name /\ x[i].args = y[i].args

LEMMA OneAlike ==
  ASSUME NEW s, NEW t, s.name = t.name, s.args = t.args
  PROVE  Alike(<<s>>, <<t>>)
BY DEF Alike

LEMMA TextsAlike ==
  \A name, args, a, b, c, i, d, e, f, j :
    Alike(<<Text(name, args, a, b, c, i)>>, <<Text(name, args, d, e, f, j)>>)
<1> SUFFICES ASSUME NEW name, NEW args, NEW a, NEW b, NEW c, NEW i,
                    NEW d, NEW e, NEW f, NEW j
             PROVE  Alike(<<Text(name, args, a, b, c, i)>>, <<Text(name, args, d, e, f, j)>>)
  OBVIOUS
<1> DEFINE x == Text(name, args, a, b, c, i)
           y == Text(name, args, d, e, f, j)
<1>1. x.name = y.name /\ x.args = y.args
  BY DEF Text
<1> HIDE DEF x, y
<1>2. Alike(<<x>>, <<y>>)
  BY <1>1, OneAlike
<1> QED
  BY <1>2 DEF x, y

LEMMA CpyaAlike ==
  \A a, i, b, j : Alike(Cpya(a, i), Cpya(b, j))
<1> SUFFICES ASSUME NEW a, NEW i, NEW b, NEW j PROVE Alike(Cpya(a, i), Cpya(b, j))
  OBVIOUS
<1> DEFINE s == Text("addi", "TwoRegsOneImm", a, 0, 0, i)
           t == Text("cpyhi", "OneRegOneImm", a, 0, 0, i \div 2 ^ 16)
           u == Text("addi", "TwoRegsOneImm", b, 0, 0, j)
           v == Text("cpyhi", "OneRegOneImm", b, 0, 0, j \div 2 ^ 16)
<1>1. s.name = u.name /\ s.args = u.args /\ t.name = v.name /\ t.args = v.args
  BY DEF Text
<1>2. Cpya(a, i) = <<s, t>> /\ Cpya(b, j) = <<u, v>>
  BY Zenon DEF Cpya
<1> HIDE DEF s, t, u, v
<1>3. Alike(<<s, t>>, <<u, v>>)
  BY <1>1 DEF Alike
<1> QED
  BY <1>2, <1>3

LEMMA ExpandAlike ==
  ASSUME NEW s, NEW t, s.name = t.name, s.args = t.args, ~Eek(s)
  PROVE  Alike(Expand(s), Expand(t))
<1> DEFINE name == s.name
           args == s.args
<1>1. \A n, a, b, c, d, e, f : Alike(To(n, a, b, c), To(n, d, e, f))
  BY TextsAlike, Zenon DEF To
<1>2. DOMAIN AbsoluteToRegister = Absolute \ {"bra"}
  BY DEF AbsoluteToRegister, Absolute
<1>3. /\ name \in Absolute => args \in {"OneImm", "TwoRegsOneImm"}
      /\ name = "bra" => args = "OneImm"
      /\ args = "OneReg" => name \in {"jmp", "call", "inc", "dec"}
  BY VisitedNames
<1>4. "bra" \in Absolute
  BY DEF Absolute
<1>5. CASE name \in DOMAIN AbsoluteToRegister
  <2>1. \A x, y, u, v : DOMAIN x = 1 .. 2 /\ DOMAIN y = 1 .. 2 /\ DOMAIN u = 1 .. 1
          /\ Alike(x, y) /\ Alike(<<u[1]>>, <<v[1]>>)
          => Alike(<<x[1], x[2]>> \o <<u[1]>>, <<y[1], y[2]>> \o <<v[1]>>)
    BY DEF Alike
  <2>2. /\ Expand(s) = Cpya(TEMP, s.imm) \o To(AbsoluteToRegister[name], s.ra, s.rb, TEMP)
        /\ Expand(t) = Cpya(TEMP, t.imm) \o To(AbsoluteToRegister[name], t.ra, t.rb, TEMP)
    BY <1>2, <1>3, <1>5 DEF Expand
  <2>3. \A i : Cpya(TEMP, i) = <<Cpya(TEMP, i)[1], Cpya(TEMP, i)[2]>>
               /\ DOMAIN Cpya(TEMP, i) = 1 .. 2
    BY DEF Cpya
  <2>4. \A n, a, b : To(n, a, b, TEMP) = <<To(n, a, b, TEMP)[1]>>
                     /\ DOMAIN To(n, a, b, TEMP) = 1 .. 1
    BY DEF To
  <2> DEFINE x == Cpya(TEMP, s.imm)
             y == Cpya(TEMP, t.imm)
             u == To(AbsoluteToRegister[name], s.ra, s.rb, TEMP)
             v == To(AbsoluteToRegister[name], t.ra, t.rb, TEMP)
  <2>5. Alike(x, y) /\ Alike(u, v)
    BY <1>1, CpyaAlike
  <2>6. x = <<x[1], x[2]>> /\ y = <<y[1], y[2]>> /\ u = <<u[1]>> /\ v = <<v[1]>>
        /\ DOMAIN x = 1 .. 2 /\ DOMAIN y = 1 .. 2 /\ DOMAIN u = 1 .. 1
    BY <2>3, <2>4
  <2> HIDE DEF x, y, u, v
  <2>7. Alike(x \o u, y \o v)
    BY <2>1, <2>5, <2>6, Zenon
  <2> QED
    BY <2>2, <2>7 DEF x, y, u, v
<1>6. CASE args = "TwoRegs"
  <2>1. Expand(s) = TwoRegsToThree(s) /\ Expand(t) = TwoRegsToThree(t)
    BY <1>2, <1>3, <1>6 DEF Expand
  <2>2. Alike(TwoRegsToThree(s), TwoRegsToThree(t))
    BY <1>1 DEF TwoRegsToThree
  <2> QED
    BY <2>1, <2>2
<1>7. CASE args = "OneRegOneImm"
  <2>1. Expand(s) = OneRegOneImmToTwo(s) /\ Expand(t) = OneRegOneImmToTwo(t)
    BY <1>2, <1>3, <1>7 DEF Expand
  <2>2. Alike(<<s>>, <<t>>)
    BY OneAlike
  <2>3. Alike(OneRegOneImmToTwo(s), OneRegOneImmToTwo(t))
    BY <2>2, TextsAlike, CpyaAlike DEF OneRegOneImmToTwo
  <2> QED
    BY <2>1, <2>3
<1>8. CASE args = "OneReg"
  <2>1. Expand(s) = OneRegToOthers(s) /\ Expand(t) = OneRegToOthers(t)
    BY <1>2, <1>3, <1>8 DEF Expand
  <2>2. Alike(OneRegToOthers(s), OneRegToOthers(t))
    BY <1>1, <1>3, <1>8, TextsAlike DEF OneRegToOthers
  <2> QED
    BY <2>1, <2>2
<1>9. CASE name = "bra"
  <2>1. /\ Expand(s) = <<Text("beq", "Branch", 0, 0, 0, s.imm)>>
        /\ Expand(t) = <<Text("beq", "Branch", 0, 0, 0, t.imm)>>
    BY <1>2, <1>3, <1>9 DEF Expand
  <2> QED
    BY <2>1, TextsAlike
<1>10. CASE args = "OneRegOnePc"
  <2>1. /\ Expand(s) = <<Text("addsi", "OneRegOnePcOneSimm", s.ra, 0, 0, 0)>>
        /\ Expand(t) = <<Text("addsi", "OneRegOnePcOneSimm", t.ra, 0, 0, 0)>>
    BY <1>2, <1>3, <1>10 DEF Expand
  <2> QED
    BY <2>1, TextsAlike
<1>11. CASE /\ name \notin DOMAIN AbsoluteToRegister /\ name # "bra"
            /\ args \notin {"TwoRegs", "OneRegOneImm", "OneReg", "OneRegOnePc"}
  <2>1. Expand(s) = <<s>> /\ Expand(t) = <<t>>
    BY <1>11 DEF Expand
  <2> QED
    BY <2>1, OneAlike
<1> QED
  BY <1>5, <1>6, <1>7, <1>8, <1>9, <1>10, <1>11

LEMMA SameLookup ==
  ASSUME NEW s, NEW t, s.name = t.name, s.args = t.args, ~Eek(s), ~LookupThrows(s)
  PROVE  ~Eek(t) /\ ~LookupThrows(t)
<1>1. Alike(Expand(s), Expand(t))
  BY ExpandAlike
<1>2. ~Eek(t)
  BY DEF Eek
<1>3. \A x, y : x.name = y.name /\ x.args = y.args /\ InTables(x) => InTables(y)
  BY DEF InTables, IsOp
<1> HIDE DEF InTables
<1> QED
  BY <1>1, <1>2, <1>3 DEF LookupThrows, Alike

(***************************************************************************)
(* The instructions of the lines that the visitor has gone past are known. *)
(***************************************************************************)
KnownLine(i) ==
  /\ IsLine(source[i])
  /\ source[i].kind = "instr" => ~Eek(source[i].text) /\ ~LookupThrows(source[i].text)

Known ==
  /\ \A i \in Lines : IsLine(source[i])
  /\ \A i \in Lines : (pass = 0 => i < at) => KnownLine(i)

\* The expressions have numbers for values.
Numbered == \A i \in Lines : \A e \in ExprsAt(i) : ValueIn(i, e[1], e[2]).num \in Int

LEMMA ToldIsText ==
  ASSUME NEW i \in Lines, source[i].kind = "instr", KnownLine(i), Numbered
  PROVE  /\ IsText(Told(i)) /\ ~Eek(Told(i)) /\ ~LookupThrows(Told(i))
<1> DEFINE t == source[i].text
           expr == source[i].expr
           v == ValueIn(i, expr, Layout[i]).num
           told == [t EXCEPT !.imm = v]
<1>1. Told(i) = told
  BY DEF Told
<1>2. /\ t = Text(t.name, t.args, t.ra, t.rb, t.rc, t.imm)
      /\ {t.ra, t.rb, t.rc} \subseteq Registers
      /\ Fits(t.args, t.ra, t.rb, t.rc, 0)
      /\ ~WithImm(t.args) => expr = <<>>
      /\ ~Eek(t) /\ ~LookupThrows(t)
  BY Zenon DEF KnownLine, IsLine
<1>3. v \in Int
  <2>1. <<expr, Layout[i]>> \in ExprsAt(i)
    BY DEF ExprsAt
  <2>2. ValueIn(i, <<expr, Layout[i]>>[1], <<expr, Layout[i]>>[2]).num \in Int
    BY <2>1, Zenon DEF Numbered
  <2> QED
    BY <2>2
<1>4. ~WithImm(t.args) => v = 0
  <2>1. expr = <<>> => v = 0
    BY DEF ValueIn, Evaluate
  <2> QED
    BY <1>2, <2>1, Zenon
<1> HIDE DEF v, t
<1>5. told = Text(t.name, t.args, t.ra, t.rb, t.rc, v)
  <2> DEFINE a == t.name
             b == t.args
             c == t.ra
             d == t.rb
             e == t.rc
             f == t.imm
  <2>1. t = Text(a, b, c, d, e, f)
    BY <1>2
  <2> HIDE DEF a, b, c, d, e, f
  <2>2. [t EXCEPT !.imm = v] = Text(a, b, c, d, e, v)
    BY <2>1 DEF Text
  <2> QED
    BY <2>2 DEF a, b, c, d, e
<1>6. told.name = t.name /\ told.args = t.args
  BY <1>5 DEF Text
<1>7. Fits(t.args, t.ra, t.rb, t.rc, v)
  BY <1>2, <1>4 DEF Fits
<1>8. IsText(told)
  BY <1>2, <1>3, <1>5, <1>7, TextInSource
<1>9. ~Eek(told) /\ ~LookupThrows(told)
  BY <1>2, <1>6, SameLookup
<1> QED
  BY <1>1, <1>8, <1>9

LEMMA KnownTells ==
  ASSUME NEW i \in Lines, KnownLine(i), Numbered, Layout[i] \in Int
  PROVE  Telling(i)
<1>1. CASE source[i].kind = "instr"
  <2> DEFINE basic == Expand(Told(i))
             n == Parts(i)
  <2>1. IsText(Told(i)) /\ ~Eek(Told(i)) /\ ~LookupThrows(Told(i))
    BY <1>1, ToldIsText
  <2>2. InSource(basic) /\ \A k \in DOMAIN basic : InTables(basic[k])
    BY <2>1, ExpandInSource DEF LookupThrows
  <2>3. n \in Nat /\ DOMAIN basic = 1 .. n
    BY <1>1, <2>1, ExpandSize DEF Sized, Parts
  <2>4. PartSize(i) = 4
    BY <1>1 DEF PartSize
  <2> HIDE DEF basic, n
  <2>5. ASSUME NEW k \in 1 .. n PROVE PartNumber(i, k) \in Int
    <3>1. IsBasic(basic[k])
      BY <2>2, <2>3 DEF InSource, IsBasic
    <3>2. PartAt(i, k) \in Int
      BY <2>4 DEF PartAt
    <3>3. Encode(basic[k], PartAt(i, k)) \in Int
      BY <3>1, <3>2, EncodedIsWord
    <3> QED
      BY <1>1, <3>3 DEF PartNumber, basic
  <2> QED
    BY <2>3, <2>4, <2>5 DEF Telling, n
<1>2. CASE source[i].kind = ".db"
  <2>1. /\ source[i].size \in {1, 2, 4} /\ Len(source[i].exprs) \in Nat
        /\ DOMAIN source[i].exprs = 1 .. Len(source[i].exprs)
    BY <1>2, Zenon DEF KnownLine, IsLine
  <2>2. Parts(i) = Len(source[i].exprs) /\ PartSize(i) = source[i].size
    BY <1>2 DEF Parts, PartSize
  <2>3. ASSUME NEW k \in 1 .. Parts(i) PROVE PartNumber(i, k) \in Int
    <3> DEFINE e == <<source[i].exprs[k], PartAt(i, k)>>
    <3>1. e \in ExprsAt(i)
      BY <1>2, <2>1, <2>2 DEF ExprsAt, PartAt
    <3>2. ValueIn(i, e[1], e[2]).num \in Int
      BY <3>1, Zenon DEF Numbered
    <3>3. e[1] = source[i].exprs[k] /\ e[2] = PartAt(i, k)
      OBVIOUS
    <3> HIDE DEF e
    <3>4. PartNumber(i, k) = ValueIn(i, e[1], e[2]).num
      BY <1>2, <3>3 DEF PartNumber
    <3> QED
      BY <3>2, <3>4
  <2> QED
    BY <2>1, <2>2, <2>3 DEF Telling
<1>3. CASE source[i].kind \notin {"instr", ".db"}
  <2>1. Parts(i) = 0
    BY <1>3 DEF Parts
  <2> QED
    BY <2>1 DEF Telling
<1> QED
  BY <1>1, <1>2, <1>3

LEMMA LineKnown ==
  ASSUME Replayed, Known, status = "running",
         EnterScope \/ LeaveScope \/ VisitLabel \/ VisitInstruction \/ VisitDotOrg
           \/ VisitDotSpace \/ VisitDotDb
  PROVE  Known'
<1>1. at \in Lines /\ at \in Int /\ Finite
  <2>1. \E kind : OnLine(kind)
    BY Zenon DEF EnterScope, LeaveScope, VisitLabel, VisitInstruction, VisitDotOrg,
                 VisitDotSpace, VisitDotDb
  <2>2. at \in Lines
    BY <2>1 DEF OnLine, Lines
  <2> QED
    BY <2>2 DEF Replayed, WellNested, Finite
<1>2. CASE Ends
  <2>1. UNCHANGED <<source, pass, at>>
    <3>1. ~Continue
      BY <1>2 DEF Continue, Ends
    <3> QED
      BY <3>1 DEF EnterScope, LeaveScope, VisitLabel, VisitInstruction, VisitDotOrg,
         VisitDotSpace, VisitDotDb, MovePc, Exit, Input
  <2> QED
    BY <2>1 DEF Known, KnownLine, Lines
<1>3. CASE ~Ends
  <2>1. UNCHANGED <<source, pass>> /\ at' = at + 1
    <3>1. Continue
      <4> DEFINE end == GenConstants(source[at].exprs, source[at].size)
      <4>1. VisitDotDb => IF Failed(end) THEN status' = end.status ELSE Continue
        BY DEF VisitDotDb, Line
      <4>2. VisitDotDb => Continue
        BY <1>3, <4>1 DEF Failed, Ends
      <4>3. \A start : MovePc(start) => Continue
        BY <1>3 DEF MovePc, Exit, Failed, Ends
      <4>4. VisitInstruction => Continue
        BY <1>3 DEF VisitInstruction, Exit, Failed, Ends
      <4> QED
        BY <1>3, <4>2, <4>3, <4>4 DEF EnterScope, LeaveScope, VisitLabel, VisitDotOrg,
           VisitDotSpace, Exit, Ends
    <3> QED
      BY <3>1 DEF Continue, Input
  <2>2. KnownLine(at)
    <3>1. source[at].kind = "instr" => ~Eek(source[at].text) /\ ~LookupThrows(source[at].text)
      BY <1>1, <1>3, NotPast
    <3> QED
      BY <1>1, <3>1 DEF Known, KnownLine
  <2>3. ASSUME NEW i \in Lines, pass = 0 => i < at + 1 PROVE KnownLine(i)
    <3>1. i = at \/ (pass = 0 => i < at)
      BY <1>1, <2>3 DEF Finite
    <3> QED
      BY <2>2, <3>1 DEF Known
  <2>4. Lines' = Lines /\ \A i : KnownLine(i)' <=> KnownLine(i)
    BY <2>1 DEF KnownLine, Lines
  <2> QED
    BY <2>1, <2>3, <2>4 DEF Known
<1> QED
  BY <1>2, <1>3

LEMMA EndKnown ==
  ASSUME Replayed, Known, EndOfPass
  PROVE  Known'
<1>1. at = Len(source) + 1 /\ source' = source /\ pass \in {0, 1}
  BY DEF EndOfPass, Input, Replayed
<1>2. Finite
  BY DEF Replayed, WellNested
<1>3. \A i \in Lines : KnownLine(i)
  <2>1. \A i \in Lines : i < at
    BY <1>1, <1>2 DEF Finite
  <2> QED
    BY <2>1 DEF Known
<1>4. Lines' = Lines /\ \A i : KnownLine(i)' <=> KnownLine(i)
  BY <1>1 DEF KnownLine, Lines
<1>5. (\A i \in Lines : KnownLine(i))'
  BY <1>3, <1>4
<1> QED
  BY <1>1, <1>5 DEF Known, KnownLine

LEMMA ParseKnown ==
  ASSUME Replayed, Parse
  PROVE  Known'
<1>1. IsLines(file) /\ \A i \in 1 .. Len(file) : IsLine(file[i])
  BY SourcesAssumption DEF Replayed, IsLines
<1>2. /\ source' = Parsed(file) /\ pass' = 0 /\ at' = 1
  BY DEF Parse, Replayed
<1>3. /\ Len(source') \in Nat /\ DOMAIN source' = 1 .. Len(source')
      /\ \A i \in 1 .. Len(source') : i \in 1 .. Len(file) /\ source'[i] = file[i]
  BY <1>1, <1>2, ParsedIs, Zenon
<1>4. (\A i \in Lines : IsLine(source[i]))'
  BY <1>1, <1>3 DEF Lines
<1>5. \A i \in Lines' : ~(i < at')
  BY <1>2, <1>3 DEF Lines
<1> QED
  BY <1>2, <1>4, <1>5 DEF Known

(***************************************************************************)
(* The output of the second pass holds the pieces of the lines before the  *)
(* visitor, each on top of those above it in the source.                   *)
(***************************************************************************)
Emitted ==
  /\ pass = 0 => out = <<>>
  /\ pass = 1 /\ status = "running" => Tells(State, Pieces(at, 0))
  /\ status = "done" => pass = 1 /\ Tells(State, Pieces(End, 0))

\* In the first pass a line writes nothing.
LEMMA LineQuiet ==
  ASSUME Known, pass = 0, status = "running",
         EnterScope \/ LeaveScope \/ VisitLabel \/ VisitInstruction \/ VisitDotOrg
           \/ VisitDotSpace \/ VisitDotDb
  PROVE  out' = out
<1>1. CASE EnterScope \/ LeaveScope \/ VisitLabel
  BY <1>1 DEF EnterScope, LeaveScope, VisitLabel, Exit
<1>2. CASE VisitDotOrg \/ VisitDotSpace
  BY <1>2 DEF VisitDotOrg, VisitDotSpace, MovePc, Exit
<1>3. CASE VisitInstruction
  <2> DEFINE text  == source[at].text
             value == Value(source[at].expr, pc.curr)
             given == [text EXCEPT !.imm = value.num]
             words == Words(given, pc.curr)
  <2>1. /\ at \in Lines /\ source[at].kind = "instr"
        /\ out' = out \/ (~Eek(text) /\ out' = GenWords(words).out)
    <3> HIDE DEF words
    <3> QED
      BY <1>3 DEF VisitInstruction, OnLine, Line, Lines, Exit, words
  <2> SUFFICES ASSUME ~Eek(text), out' = GenWords(words).out PROVE out' = out
    BY <2>1
  <2>2. given.name = text.name /\ given.args = text.args
    <3>1. text = Text(text.name, text.args, text.ra, text.rb, text.rc, text.imm)
      BY <2>1, Zenon DEF Known, IsLine
    <3> QED
      BY <3>1 DEF Text
  <2> HIDE DEF given
  <2>3. Sized(Expand(given), SizeOf(given)) /\ SizeOf(given) \in Nat
    BY <2>1, <2>2, ExpandSize DEF Eek
  <2>4. Len(words) \in Nat
    BY <2>3 DEF Words, Sized
  <2> HIDE DEF words
  <2> QED
    BY <2>1, <2>4, WordsQuiet
<1>4. CASE VisitDotDb
  <2>1. /\ at \in Lines /\ source[at].kind = ".db"
        /\ out' = GenConstants(source[at].exprs, source[at].size).out
    BY <1>4 DEF VisitDotDb, OnLine, Line, Lines
  <2>2. Len(source[at].exprs) \in Nat
    BY <2>1, Zenon DEF Known, IsLine
  <2> QED
    BY <2>1, <2>2, ConstantsQuiet
<1> QED
  BY <1>1, <1>2, <1>3, <1>4

\* What a line leaves alone.
LEMMA LineGoesOn ==
  ASSUME status = "running",
         EnterScope \/ LeaveScope \/ VisitLabel \/ VisitInstruction \/ VisitDotOrg
           \/ VisitDotSpace \/ VisitDotDb
  PROVE  /\ UNCHANGED <<source, pass>>
         /\ ~Ends => status' = status /\ at' = at + 1
<1> DEFINE end == GenConstants(source[at].exprs, source[at].size)
<1>1. VisitDotDb => \/ Failed(end) /\ status' = end.status /\ UNCHANGED <<Input, pass, at>>
                    \/ Continue
  BY DEF VisitDotDb, Line
<1>2. VisitDotDb => \/ Ends /\ UNCHANGED <<Input, pass>>
                    \/ Continue
  BY <1>1 DEF Failed, Ends
<1>3. \A start : MovePc(start) => (Ends /\ UNCHANGED <<Input, pass>>) \/ Continue
  BY DEF MovePc, Exit, Failed, Ends
<1>4. VisitInstruction => (Ends /\ UNCHANGED <<Input, pass>>) \/ Continue
  BY DEF VisitInstruction, Exit, Failed, Ends
<1>5. (Ends /\ UNCHANGED <<Input, pass>>) \/ Continue
  BY <1>2, <1>3, <1>4 DEF EnterScope, LeaveScope, VisitLabel, VisitDotOrg, VisitDotSpace,
     Exit, Ends
<1> QED
  BY <1>5 DEF Continue, Input

LEMMA LineEmits ==
  ASSUME Replayed, Kept, Placed, Known, Emitted, NamelessMoves, InMemory, Numbered,
         status = "running",
         EnterScope \/ LeaveScope \/ VisitLabel \/ VisitInstruction \/ VisitDotOrg
           \/ VisitDotSpace \/ VisitDotDb
  PROVE  Emitted'
<1>1. WellNested /\ at \in Places /\ pass \in {0, 1}
  BY DEF Replayed
<1>2. CASE Ends
  <2>1. status' # "running" /\ status' # "done" /\ pass' = pass
    BY <1>2, LineGoesOn DEF Ends
  <2>2. pass = 0 => out' = out
    BY LineQuiet
  <2> QED
    BY <2>1, <2>2 DEF Emitted
<1>3. CASE ~Ends
  <2>1. UNCHANGED <<source, pass, status>> /\ at' = at + 1 /\ status' # "done"
    BY <1>3, LineGoesOn
  <2>2. CASE pass = 0
    <3>1. out' = out
      BY <2>2, LineQuiet
    <3> QED
      BY <2>1, <2>2, <3>1 DEF Emitted
  <2>3. CASE pass = 1
    <3>1. at \in Lines
      <4>1. \E kind : OnLine(kind)
        BY Zenon DEF EnterScope, LeaveScope, VisitLabel, VisitInstruction, VisitDotOrg,
                     VisitDotSpace, VisitDotDb
      <4> QED
        BY <4>1 DEF OnLine, Lines
    <3>2. IsLine(source[at]) /\ Telling(at)
      <4>1. KnownLine(at)
        BY <2>3, <3>1 DEF Known
      <4>2. Layout[at] \in Int
        BY <1>1, InPlace
      <4> QED
        BY <3>1, <4>1, <4>2, KnownTells DEF KnownLine
    <3>3. KeptBy(Layout) /\ IsPc(pc) /\ Upwards(tree)
      BY DEF Placed, Kept
    <3>4. Tells(State, Pieces(at, 0))
      BY <2>3 DEF Emitted
    <3>5. Tells([pc |-> pc', out |-> out'], Pieces(at + 1, 0))
      BY <1>3, <2>3, <3>1, <3>2, <3>3, <3>4, LineTells
    <3>6. at + 1 \in Places
      BY <1>1, <3>1 DEF WellNested, Finite, Places
    <3>7. Pieces(at, 0)' = Pieces(at + 1, 0)
      <4>1. \A i \in Places : Pieces(i, 0)' = Pieces(i, 0)
        BY <1>1, <2>1, StillPieces
      <4> QED
        BY <2>1, <3>6, <4>1
    <3>8. Tells(State, Pieces(at, 0))'
      BY <3>5, <3>7 DEF Tells, State
    <3> QED
      BY <2>1, <2>3, <3>8 DEF Emitted
  <2> QED
    BY <1>1, <2>2, <2>3
<1> QED
  BY <1>2, <1>3

LEMMA EndEmits ==
  ASSUME Replayed, Known, Emitted, NamelessMoves, EndOfPass
  PROVE  Emitted'
<1>1. /\ status = "running" /\ at = End /\ WellNested /\ pass \in {0, 1}
      /\ UNCHANGED <<source, out>>
  BY DEF EndOfPass, Input, End, Replayed
<1>2. CASE pass = 0
  <2>1. pass' = 1 /\ at' = 1 /\ pc' = FirstPc /\ status' = "running"
    BY <1>1, <1>2 DEF EndOfPass, StartOfPass
  <2>2. out' = <<>>
    BY <1>1, <1>2 DEF Emitted
  <2>3. Tells([pc |-> FirstPc, out |-> <<>>], {})
    <3>1. <<>> \in Seq(OutLines)
      OBVIOUS
    <3>2. Loading(<<>>).addr = 0 /\ Loading(<<>>).image = <<>>
      BY LoadingNothing
    <3> QED
      BY <3>1, <3>2, NothingOver DEF Tells, FirstPc
  <2>4. Pieces(1, 0)' = {}
    <3>1. Finite'
      BY <1>1, Still DEF WellNested, Finite, Lines
    <3>2. (Finite => Pieces(1, 0) = {})'
      BY NoPieces, PTL
    <3> QED
      BY <3>1, <3>2
  <2>5. Tells(State, Pieces(at, 0))'
    BY <2>1, <2>2, <2>3, <2>4 DEF Tells, State
  <2> QED
    BY <2>1, <2>5 DEF Emitted
<1>3. CASE pass = 1
  <2>1. status' = "done" /\ UNCHANGED <<pass, at, pc>>
    BY <1>3 DEF EndOfPass
  <2>2. Tells(State, Pieces(End, 0))
    BY <1>1, <1>3 DEF Emitted
  <2>3. End' = End /\ End \in Places
    BY <1>1, Still DEF End, Places, WellNested, Finite
  <2>4. Pieces(End, 0)' = Pieces(End, 0)
    <3>1. \A i \in Places : Pieces(i, 0)' = Pieces(i, 0)
      BY <1>1, StillPieces
    <3> QED
      BY <2>3, <3>1
  <2>5. Tells(State, Pieces(End, 0))'
    BY <1>1, <2>1, <2>2, <2>4 DEF Tells, State
  <2> QED
    BY <1>3, <2>1, <2>5 DEF Emitted
<1> QED
  BY <1>1, <1>2, <1>3

(***************************************************************************)
(* The image of the source is made of these pieces.                        *)
(***************************************************************************)
LEMMA ImageIs ==
  ASSUME Finite, \A i \in Lines : KnownLine(i), Numbered
  PROVE  Image = Overlay(Pieces(End, 0))
<1> DEFINE Instrs == {[line |-> w.line, address |-> w.address,
                       bytes |-> Bytes(Encode(w.text, w.address), 4)] : w \in Written}
           Data   == {[line |-> d.line, address |-> d.address,
                       bytes |-> Bytes(d.value, d.size)] : d \in WrittenData}
<1>1. Image = Overlay(Instrs \cup Data)
  BY Zenon DEF Image
<1>2. ASSUME NEW p
      PROVE  p \in Pieces(End, 0) <=> \E i \in Lines : \E k \in 1 .. Parts(i) : p = Part(i, k)
  <2>1. {l \in Lines : l < End} = Lines
    BY DEF Finite, End
  <2>2. PartsOf(End, 0) = {}
    BY DEF PartsOf
  <2>3. \A i, n : p \in PartsOf(i, n) <=> \E k \in 1 .. n : p = Part(i, k)
    BY Zenon DEF PartsOf
  <2>4. Pieces(End, 0) = UNION {PartsOf(j, Parts(j)) : j \in Lines}
    BY <2>1, <2>2 DEF Pieces
  <2>5. p \in Pieces(End, 0) <=> \E i \in Lines : p \in PartsOf(i, Parts(i))
    BY <2>4, Zenon
  <2> QED
    BY <2>3, <2>5, Zenon
<1>3. ASSUME NEW i \in LinesOf("instr")
      PROVE  DOMAIN Expand(Told(i)) = 1 .. Parts(i)
  <2>1. i \in Lines /\ source[i].kind = "instr"
    BY DEF LinesOf
  <2>2. ~Eek(Told(i))
    BY <2>1, ToldIsText
  <2> QED
    BY <2>1, <2>2, ExpandSize DEF Sized, Parts
<1>4. ASSUME NEW i \in LinesOf("instr"), NEW k
      PROVE  Part(i, k) = [line |-> i, address |-> Layout[i] + 4 * (k - 1),
                           bytes |-> Bytes(Encode(Expand(Told(i))[k],
                                                  Layout[i] + 4 * (k - 1)), 4)]
  BY DEF LinesOf, Part, PartAt, PartNumber, PartSize
<1>5. ASSUME NEW i \in LinesOf(".db"), NEW k
      PROVE  Part(i, k) = [line |-> i, address |-> Layout[i] + source[i].size * (k - 1),
                           bytes |-> Bytes(ValueIn(i, source[i].exprs[k],
                                             Layout[i] + source[i].size * (k - 1)).num,
                                           source[i].size)]
  <2>1. source[i].kind # "instr"
    BY DEF LinesOf
  <2> QED
    BY <2>1 DEF Part, PartAt, PartNumber, PartSize
<1>6. ASSUME NEW i \in LinesOf(".db")
      PROVE  DOMAIN source[i].exprs = 1 .. Parts(i)
  <2>1. i \in Lines /\ source[i].kind = ".db"
    BY DEF LinesOf
  <2>2. DOMAIN source[i].exprs = 1 .. Len(source[i].exprs)
    BY <2>1, Zenon DEF KnownLine, IsLine
  <2> QED
    BY <2>1, <2>2 DEF Parts
<1>7. \A p : p \in Instrs <=> \E i \in LinesOf("instr") : \E k \in 1 .. Parts(i) : p = Part(i, k)
  <2> DEFINE Word(i, k) == [line |-> i, text |-> Expand(Told(i))[k],
                            address |-> Layout[i] + 4 * (k - 1)]
             WordsOf(i) == {Word(i, k) : k \in DOMAIN Expand(Told(i))}
             P(w) == [line |-> w.line, address |-> w.address,
                      bytes |-> Bytes(Encode(w.text, w.address), 4)]
  <2>1. Written = UNION {WordsOf(i) : i \in LinesOf("instr")}
    BY DEF Written, Told
  <2>2. Instrs = {P(w) : w \in Written}
    OBVIOUS
  <2>3. \A i \in LinesOf("instr") : \A k : P(Word(i, k)) = Part(i, k)
    BY <1>4
  <2>4. \A i \in LinesOf("instr") : WordsOf(i) = {Word(i, k) : k \in 1 .. Parts(i)}
    BY <1>3
  <2> HIDE DEF Word, P, Instrs
  <2>5. \A i, w : i \in LinesOf("instr") => (w \in WordsOf(i) <=> \E k \in 1 .. Parts(i) : w = Word(i, k))
    BY <2>4, Zenon
  <2> HIDE DEF WordsOf
  <2>6. \A w : w \in Written <=> \E i \in LinesOf("instr") : w \in WordsOf(i)
    BY <2>1, Zenon
  <2>7. \A p : p \in Instrs <=> \E w \in Written : p = P(w)
    BY <2>2, Zenon
  <2>8. ASSUME NEW p \in Instrs
        PROVE  \E i \in LinesOf("instr") : \E k \in 1 .. Parts(i) : p = Part(i, k)
    <3>1. PICK w \in Written : p = P(w)
      BY <2>7
    <3>2. PICK i \in LinesOf("instr") : w \in WordsOf(i)
      BY <2>6
    <3>3. PICK k \in 1 .. Parts(i) : w = Word(i, k)
      BY <2>5, <3>2
    <3> QED
      BY <2>3, <3>1, <3>3, Zenon
  <2>9. ASSUME NEW i \in LinesOf("instr"), NEW k \in 1 .. Parts(i)
        PROVE  Part(i, k) \in Instrs
    <3>1. Word(i, k) \in WordsOf(i)
      BY <2>5, Zenon
    <3>2. Word(i, k) \in Written
      BY <2>6, <3>1, Zenon
    <3> QED
      BY <2>3, <2>7, <3>2, Zenon
  <2> QED
    BY <2>8, <2>9, Zenon
<1>8. \A p : p \in Data <=> \E i \in LinesOf(".db") : \E k \in 1 .. Parts(i) : p = Part(i, k)
  <2> DEFINE Datum(i, k) == [line |-> i, size |-> source[i].size,
                             address |-> Layout[i] + source[i].size * (k - 1),
                             value |-> ValueIn(i, source[i].exprs[k],
                                               Layout[i] + source[i].size * (k - 1)).num]
             DataOf(i) == {Datum(i, k) : k \in DOMAIN source[i].exprs}
             P(d) == [line |-> d.line, address |-> d.address,
                      bytes |-> Bytes(d.value, d.size)]
  <2>1. WrittenData = UNION {DataOf(i) : i \in LinesOf(".db")}
    BY DEF WrittenData
  <2>2. Data = {P(d) : d \in WrittenData}
    OBVIOUS
  <2>3. \A i \in LinesOf(".db") : \A k : P(Datum(i, k)) = Part(i, k)
    BY <1>5
  <2>4. \A i \in LinesOf(".db") : DataOf(i) = {Datum(i, k) : k \in 1 .. Parts(i)}
    BY <1>6
  <2> HIDE DEF Datum, P, Data
  <2>5. \A i, d : i \in LinesOf(".db") => (d \in DataOf(i) <=> \E k \in 1 .. Parts(i) : d = Datum(i, k))
    BY <2>4, Zenon
  <2> HIDE DEF DataOf
  <2>6. \A d : d \in WrittenData <=> \E i \in LinesOf(".db") : d \in DataOf(i)
    BY <2>1, Zenon
  <2>7. \A p : p \in Data <=> \E d \in WrittenData : p = P(d)
    BY <2>2, Zenon
  <2>8. ASSUME NEW p \in Data
        PROVE  \E i \in LinesOf(".db") : \E k \in 1 .. Parts(i) : p = Part(i, k)
    <3>1. PICK d \in WrittenData : p = P(d)
      BY <2>7
    <3>2. PICK i \in LinesOf(".db") : d \in DataOf(i)
      BY <2>6
    <3>3. PICK k \in 1 .. Parts(i) : d = Datum(i, k)
      BY <2>5, <3>2
    <3> QED
      BY <2>3, <3>1, <3>3, Zenon
  <2>9. ASSUME NEW i \in LinesOf(".db"), NEW k \in 1 .. Parts(i)
        PROVE  Part(i, k) \in Data
    <3>1. Datum(i, k) \in DataOf(i)
      BY <2>5, Zenon
    <3>2. Datum(i, k) \in WrittenData
      BY <2>6, <3>1, Zenon
    <3> QED
      BY <2>3, <2>7, <3>2, Zenon
  <2> QED
    BY <2>8, <2>9, Zenon
<1>9. \A i \in Lines : \A k \in 1 .. Parts(i) :
        i \in LinesOf("instr") \/ i \in LinesOf(".db")
  <2>1. \A i \in Lines : source[i].kind \notin {"instr", ".db"} => Parts(i) = 0
    BY DEF Parts
  <2>2. 1 .. 0 = {}
    OBVIOUS
  <2> QED
    BY <2>1, <2>2, Zenon DEF LinesOf
<1>10. \A kind : LinesOf(kind) \subseteq Lines
  BY DEF LinesOf
<1> HIDE DEF Instrs, Data
<1>11. Instrs \cup Data = Pieces(End, 0)
  BY <1>2, <1>7, <1>8, <1>9, <1>10, Zenon
<1> QED
  BY <1>1, <1>11

LEMMA DoneIsTheAssembly ==
  ASSUME Replayed, Known, Emitted, Numbered, InMemory
  PROVE  OutputIsTheAssembly
<1> SUFFICES ASSUME status = "done" PROVE Loaded = Image
  BY DEF OutputIsTheAssembly
<1>1. pass = 1 /\ Tells(State, Pieces(End, 0))
  BY DEF Emitted
<1>2. Finite /\ End \in Places /\ \A i \in Lines : i \in Places
  BY DEF Replayed, WellNested, Finite, End, Places
<1>3. \A i \in Lines : KnownLine(i)
  BY <1>1 DEF Known
<1>4. \A i \in Lines : Telling(i) /\ Layout[i] \in Int
  BY <1>2, <1>3, KnownTells, InPlace
<1> DEFINE P == Pieces(End, 0)
<1>5. \A p \in P : p.line \in Int
  BY <1>2, PiecesAbove
<1>6. \A p, q \in P : p.line = q.line /\ Extent(p) \cap Extent(q) # {} => p = q
  BY <1>2, <1>4, PartsApart
<1>7. IsOver(Loaded, P)
  BY <1>1 DEF Tells, State, Loaded, ImageOf
<1> HIDE DEF P
<1>8. Loaded = Overlay(P)
  BY <1>5, <1>6, <1>7, OverlayIs
<1> QED
  BY <1>2, <1>3, <1>8, ImageIs DEF P

(***************************************************************************)
(* The whole of it.                                                        *)
(***************************************************************************)
Standing == Replayed /\ Kept /\ Placed /\ Known

AssemblerInv == Standing /\ Emitted

\* What the sources are asked for.
Laid == Unshadowed /\ NamelessMoves /\ InMemory
Suitable == Laid /\ Numbered

LEMMA StartsStanding == AInit /\ Laid => Standing
<1> SUFFICES ASSUME AInit, Laid PROVE Standing
  OBVIOUS
<1>1. Replayed /\ Kept /\ Placed
  BY StartsReplayed, StartsKept, StartsPlaced DEF Laid
<1>2. Lines = {}
  BY DEF AInit, AStart, Lines
<1> QED
  BY <1>1, <1>2 DEF Standing, Known

LEMMA StartsCorrect == AInit /\ Suitable => AssemblerInv
<1>1. AInit => out = <<>> /\ pass = 0 /\ status = "parsing"
  BY DEF AInit, AStart
<1> QED
  BY <1>1, StartsStanding DEF Suitable, AssemblerInv, Emitted

LEMMA ParseEmits ==
  ASSUME Replayed, Emitted, Parse
  PROVE  Emitted'
<1>1. pass = 0 /\ pass' = 0 /\ out' = out /\ status' \in {"error", "running"}
  BY DEF Parse, Replayed
<1> QED
  BY <1>1 DEF Emitted

LEMMA StillEmitted ==
  ASSUME Replayed, Emitted, NamelessMoves, UNCHANGED avars
  PROVE  Emitted'
<1>1. WellNested /\ at \in Places /\ End \in Places
      /\ UNCHANGED <<source, pass, at, pc, out, status>>
  BY DEF Replayed, avars, WellNested, Finite, End, Places
<1>2. End' = End
  BY <1>1 DEF End
<1>3. \A i \in Places : Pieces(i, 0)' = Pieces(i, 0)
  BY <1>1, StillPieces
<1>4. Pieces(at, 0)' = Pieces(at, 0) /\ Pieces(End, 0)' = Pieces(End, 0)
  BY <1>1, <1>2, <1>3
<1>5. /\ Tells(State, Pieces(at, 0)) => Tells(State, Pieces(at, 0))'
      /\ Tells(State, Pieces(End, 0)) => Tells(State, Pieces(End, 0))'
  BY <1>1, <1>4 DEF Tells, State
<1> QED
  BY <1>1, <1>5 DEF Emitted

LEMMA StepStands ==
  ASSUME Standing, Laid, Laid', [ANext]_avars
  PROVE  Standing'
<1> USE DEF Standing, Laid
<1>1. CASE Parse
  <2>1. Replayed' /\ Kept'
    BY <1>1, ParseReplayed, ParseKept
  <2>2. Placed'
    BY <1>1, <2>1, ParsePlaced
  <2> QED
    BY <1>1, <2>1, <2>2, ParseKnown
<1>2. CASE EnterScope \/ LeaveScope \/ VisitLabel \/ VisitInstruction \/ VisitDotOrg
             \/ VisitDotSpace \/ VisitDotDb
  <2>1. status = "running"
    BY <1>2, OnRunning DEF EnterScope, LeaveScope, VisitLabel, VisitInstruction,
       VisitDotOrg, VisitDotSpace, VisitDotDb
  <2>2. Replayed'
    BY <1>2, EnterReplayed, LeaveReplayed, LabelReplayed, OthersReplayed
  <2> QED
    BY <1>2, <2>1, <2>2, LineKept, LinePlaced, LineKnown
<1>3. CASE EndOfPass
  BY <1>3, EndReplayed, EndKept, EndPlaced, EndKnown
<1>4. CASE UNCHANGED avars
  <2>1. Replayed'
    BY <1>4, Stays DEF avars, Scoping
  <2>2. Kept'
    BY <1>4, Still, StillKept DEF avars, Kept, KeptBy, Upwards
  <2>3. Placed'
    <3>1. Layout' = Layout
      BY <1>4 DEF Layout, Candidates, Meaning, ScopeOf, Around, Depth, LinesOf, Lines, avars
    <3>2. KeptBy(Layout) => KeptBy(Layout)'
      BY <1>4, <3>1, Still, StillKept DEF avars, KeptBy
    <3> QED
      BY <1>4, <3>2 DEF Placed, avars
  <2>4. Known'
    BY <1>4 DEF Known, KnownLine, Lines, avars
  <2> QED
    BY <2>1, <2>2, <2>3, <2>4
<1> QED
  BY <1>1, <1>2, <1>3, <1>4 DEF ANext

LEMMA StepCorrect ==
  ASSUME AssemblerInv, Suitable, Suitable', [ANext]_avars
  PROVE  AssemblerInv'
<1>1. Standing'
  BY StepStands DEF AssemblerInv, Suitable
<1> USE DEF AssemblerInv, Standing, Suitable, Laid
<1>2. CASE Parse
  BY <1>1, <1>2, ParseEmits
<1>3. CASE EnterScope \/ LeaveScope \/ VisitLabel \/ VisitInstruction \/ VisitDotOrg
             \/ VisitDotSpace \/ VisitDotDb
  <2>1. status = "running"
    BY <1>3, OnRunning DEF EnterScope, LeaveScope, VisitLabel, VisitInstruction,
       VisitDotOrg, VisitDotSpace, VisitDotDb
  <2>2. Emitted'
    BY <1>3, <2>1, LineEmits
  <2> QED
    BY <1>1, <2>2
<1>4. Emitted'
  <2>1. EndOfPass => Emitted'
    BY EndEmits
  <2>2. UNCHANGED avars => Emitted'
    BY StillEmitted
  <2> QED
    BY <1>2, <1>3, <2>1, <2>2, ParseEmits DEF ANext
<1> QED
  BY <1>1, <1>4

\* For every file, the output of the second pass, loaded into memory, is the image
\* of the source: every line's bytes are at the line's address, and every name in
\* them stands for the address of the innermost label of that name, above or below
\* (visitInstruction, visitDotDbDirective, gen_words of assembler_class.cpp).
\* It is asked of the file that no label comes behind another of its name in a scope
\* around it and that the expressions of its .org and .space lines have no names
\* (MCShadow.cfg and MCOrg.cfg show what happens otherwise), that its addresses are
\* below 2 ^ 31, and that C++ defines the values of its expressions.
THEOREM AssemblesTheSource ==
  ASpec /\ [](Unshadowed /\ NamelessMoves /\ InMemory /\ Numbered)
    => []OutputIsTheAssembly
<1>1. AInit /\ Suitable => AssemblerInv
  BY StartsCorrect
<1>2. AssemblerInv /\ Suitable /\ Suitable' /\ [ANext]_avars => AssemblerInv'
  BY StepCorrect
<1>3. AssemblerInv /\ Suitable => OutputIsTheAssembly
  BY DoneIsTheAssembly DEF AssemblerInv, Standing, Suitable, Laid
<1> HIDE DEF Suitable, AssemblerInv
<1>4. ASpec /\ []Suitable => []OutputIsTheAssembly
  BY <1>1, <1>2, <1>3, PTL DEF ASpec
<1>5. [](Unshadowed /\ NamelessMoves /\ InMemory /\ Numbered) => []Suitable
  BY PTL DEF Suitable, Laid
<1> QED
  BY <1>4, <1>5, PTL

(***************************************************************************)
(* Which instructions the assembler takes.                                 *)
(***************************************************************************)
Sgt == {"sgtu", "sgts"}
Glt == {"gltu", "glts"}

\* The names that the lexer, the visitors or the tables treat in their own way.
LEMMA SpecialEntries ==
  ASSUME NEW g \in 0 .. 6, NEW i \in DOMAIN Iog[g]
  PROVE  /\ Iog[g][i][1] \notin Glt
         /\ Iog[g][i][1] \in Sgt => g = 0
         /\ Iog[g][i][1] = "nor" => g = 0
<1>1. CASE g = 0
  <2>1. \A j \in 1 .. 16 : Iog0[j][1] \notin Glt
    BY SMT DEF Iog0, Named, Glt
  <2> QED
    BY <1>1, <2>1, Groups, Tables
<1>2. CASE g = 1
  <2>1. \A j \in 1 .. 16 : Iog1[j][1] \notin Glt \cup Sgt \cup {"nor"}
    BY SMT DEF Iog1, Named, Glt, Sgt
  <2> QED
    BY <1>2, <2>1, Groups, Tables
<1>3. CASE g = 2
  <2>1. \A j \in 1 .. 10 : Iog2[j][1] \notin Glt \cup Sgt \cup {"nor"}
    BY SMT DEF Iog2, Named, Glt, Sgt
  <2> QED
    BY <1>3, <2>1, Groups, Tables
<1>4. CASE g = 3
  <2>1. \A j \in 1 .. 10 : Iog3[j][1] \notin Glt \cup Sgt \cup {"nor"}
    BY SMT DEF Iog3, Named, Glt, Sgt
  <2> QED
    BY <1>4, <2>1, Groups, Tables
<1>5. CASE g = 4
  <2>1. \A j \in 1 .. 10 : Iog4[j][1] \notin Glt \cup Sgt \cup {"nor"}
    BY SMT DEF Iog4, Named, Glt, Sgt
  <2> QED
    BY <1>5, <2>1, Groups, Tables
<1>6. CASE g = 5
  <2>1. \A j \in 1 .. 16 : Iog5[j][1] \notin Glt \cup Sgt \cup {"nor"}
    BY SMT DEF Iog5, Named, Glt, Sgt
  <2> QED
    BY <1>6, <2>1, Groups, Tables
<1>7. CASE g = 6
  <2>1. \A j \in 1 .. 7 : Iog6[j][1] \notin Glt \cup Sgt \cup {"nor"}
    BY SMT DEF Iog6, Glt, Sgt
  <2> QED
    BY <1>7, <2>1, Groups, Tables
<1> QED
  BY <1>1, <1>2, <1>3, <1>4, <1>5, <1>6, <1>7

LEMMA NameIsEntry ==
  ASSUME NEW g \in 0 .. 6, NEW args, NEW name
  PROVE  name \in NamesWith(Iog[g], args)
           <=> \E i \in DOMAIN Iog[g] : Iog[g][i][1] = name /\ Iog[g][i][2] = args
BY DEF NamesWith

\* A name that is in a table is found there.
LEMMA NameIsFound ==
  ASSUME NEW g \in 0 .. 6, NEW args, NEW name \in NamesWith(Iog[g], args),
         NEW text, text.name = name, text.args = args
  PROVE  InTables(text)
<1>1. PICK i \in DOMAIN Iog[g] : Iog[g][i][1] = name /\ Iog[g][i][2] = args
  BY NameIsEntry
<1>2. i \in 1 .. 16
  BY <1>1, Groups, Tables
<1>3. Iog[g][i] = <<Iog[g][i][1], Iog[g][i][2]>>
  <2>1. Iog[g] \in Tabulated
    BY Groups DEF Tabulated
  <2> QED
    BY <1>1, <2>1, EntryIsPair
<1>4. i - 1 \in Ops(g) /\ (i - 1) + 1 = i
  BY <1>2 DEF Ops
<1>5. IsOp(g, i - 1, text)
  BY <1>1, <1>3, <1>4 DEF IsOp
<1> QED
  BY <1>4, <1>5 DEF InTables

LEMMA FoundIsName ==
  ASSUME NEW text, InTables(text)
  PROVE  \E g \in 0 .. 6 : text.name \in NamesWith(Iog[g], text.args)
<1>1. PICK g \in 0 .. 6 : \E op \in Ops(g) : IsOp(g, op, text)
  BY DEF InTables
<1>2. PICK op \in Ops(g) : Iog[g][op + 1] = <<text.name, text.args>>
  BY <1>1 DEF IsOp
<1>3. op + 1 \in DOMAIN Iog[g]
  BY DEF Ops
<1> QED
  BY <1>2, <1>3, NameIsEntry
\* The entries that the pseudo instructions need, and those with a spelling.
LEMMA NeededEntries ==
  /\ \A name \in {"nor", "add", "sgtu", "sgts"} : name \in NamesWith(Iog0, "ThreeRegs")
  /\ \A name \in {"addi", "subi", "nori"} : name \in NamesWith(Iog1, "TwoRegsOneImm")
  /\ \A name \in {"sltsi", "sgtsi"} : name \in NamesWith(Iog1, "TwoRegsOneSimm")
  /\ "cpyhi" \in NamesWith(Iog1, "OneRegOneImm")
  /\ "addsi" \in NamesWith(Iog1, "OneRegOnePcOneSimm")
  /\ "beq" \in NamesWith(Iog2, "Branch")
  /\ \A name \in {"jne", "jeq"} : name \in NamesWith(Iog3, "ThreeRegs")
  /\ \A name \in {"cne", "ceq"} : name \in NamesWith(Iog4, "ThreeRegs")
<1>1. \A name \in {"nor", "add", "sgtu", "sgts"} :
        \E i \in 1 .. 16 : Iog0[i][1] = name /\ Iog0[i][2] = "ThreeRegs"
  <2>1. /\ Iog0[11] = <<"nor", "ThreeRegs">> /\ Iog0[1] = <<"add", "ThreeRegs">>
        /\ Iog0[5] = <<"sgtu", "ThreeRegs">> /\ Iog0[6] = <<"sgts", "ThreeRegs">>
    BY SMT DEF Iog0, Named
  <2> QED
    BY <2>1
<1>2. /\ \A name \in {"addi", "subi", "nori"} :
           \E i \in 1 .. 16 : Iog1[i][1] = name /\ Iog1[i][2] = "TwoRegsOneImm"
      /\ \A name \in {"sltsi", "sgtsi"} :
           \E i \in 1 .. 16 : Iog1[i][1] = name /\ Iog1[i][2] = "TwoRegsOneSimm"
      /\ Iog1[16][1] = "cpyhi" /\ Iog1[16][2] = "OneRegOneImm"
      /\ Iog1[15][1] = "addsi" /\ Iog1[15][2] = "OneRegOnePcOneSimm"
  <2>1. /\ Iog1[1] = <<"addi", "TwoRegsOneImm">> /\ Iog1[2] = <<"subi", "TwoRegsOneImm">>
        /\ Iog1[11] = <<"nori", "TwoRegsOneImm">>
    BY SMT DEF Iog1, Named
  <2>2. /\ Iog1[4] = <<"sltsi", "TwoRegsOneSimm">> /\ Iog1[6] = <<"sgtsi", "TwoRegsOneSimm">>
    BY SMT DEF Iog1, Named
  <2>3. /\ Iog1[16] = <<"cpyhi", "OneRegOneImm">>
        /\ Iog1[15] = <<"addsi", "OneRegOnePcOneSimm">>
    BY SMT DEF Iog1, Named
  <2> QED
    BY <2>1, <2>2, <2>3
<1>3. Iog2[2][1] = "beq" /\ Iog2[2][2] = "Branch"
  BY SMT DEF Iog2, Named
<1>4. Iog3[1] = <<"jne", "ThreeRegs">> /\ Iog3[2] = <<"jeq", "ThreeRegs">>
  BY SMT DEF Iog3, Named
<1>5. Iog4[1] = <<"cne", "ThreeRegs">> /\ Iog4[2] = <<"ceq", "ThreeRegs">>
  BY SMT DEF Iog4, Named
<1>6. /\ \A i \in 1 .. 16 : i \in DOMAIN Iog[0] /\ i \in DOMAIN Iog[1]
      /\ \A i \in 1 .. 2 : i \in DOMAIN Iog[2] /\ i \in DOMAIN Iog[3] /\ i \in DOMAIN Iog[4]
      /\ \A k \in 0 .. 4 : k \in 0 .. 6
  BY Groups, Tables
<1>7. /\ \A i \in 1 .. 16 : Iog[0][i] = Iog0[i] /\ Iog[1][i] = Iog1[i]
      /\ Iog[2][2] = Iog2[2]
      /\ \A i \in 1 .. 2 : Iog[3][i] = Iog3[i] /\ Iog[4][i] = Iog4[i]
  BY Groups
<1>8. \A name \in {"nor", "add", "sgtu", "sgts"} : name \in NamesWith(Iog0, "ThreeRegs")
  BY <1>1, <1>6, Groups DEF NamesWith
<1>9. /\ \A name \in {"addi", "subi", "nori"} : name \in NamesWith(Iog1, "TwoRegsOneImm")
      /\ \A name \in {"sltsi", "sgtsi"} : name \in NamesWith(Iog1, "TwoRegsOneSimm")
  BY <1>2, <1>6, Groups DEF NamesWith
<1>10. /\ "cpyhi" \in NamesWith(Iog1, "OneRegOneImm")
       /\ "addsi" \in NamesWith(Iog1, "OneRegOnePcOneSimm")
  BY <1>2, <1>6, Groups DEF NamesWith
<1>11. "beq" \in NamesWith(Iog2, "Branch")
  BY <1>3, <1>6, Groups DEF NamesWith
<1>12. /\ \A name \in {"jne", "jeq"} : name \in NamesWith(Iog3, "ThreeRegs")
       /\ \A name \in {"cne", "ceq"} : name \in NamesWith(Iog4, "ThreeRegs")
  <2>1. \A name \in {"jne", "jeq"} :
          \E i \in DOMAIN Iog[3] : Iog[3][i][1] = name /\ Iog[3][i][2] = "ThreeRegs"
    BY <1>4, <1>6, <1>7
  <2>2. \A name \in {"cne", "ceq"} :
          \E i \in DOMAIN Iog[4] : Iog[4][i][1] = name /\ Iog[4][i][2] = "ThreeRegs"
    BY <1>5, <1>6, <1>7
  <2> QED
    BY <2>1, <2>2, Groups DEF NamesWith
<1> QED
  BY <1>8, <1>9, <1>10, <1>11, <1>12

\* The pseudo instructions have no name with a spelling of its own but of group 0.
LEMMA PseudoNames ==
  ASSUME NEW args, NEW name \in PseudoInstructionNames(args)
  PROVE  /\ name \in Sgt => args = "TwoRegs"
         /\ name \notin Glt
         /\ args \notin {"ThreeRegs", "ThreeRegsLdst"}
         /\ args = "TwoRegs" =>
              name \in {"inv", "cpy"} \/ name \in NamesWith(Iog0, "ThreeRegs")
         /\ args = "TwoRegsOneImm" => name \in DOMAIN AbsoluteToRegister /\ name # "nori"
         /\ args = "OneRegOnePc" => name = "cpy"
         /\ args = "OneImm" => name = "bra" \/ name \in DOMAIN AbsoluteToRegister
         /\ args = "OneReg" => name \in {"jmp", "call", "inc", "dec"}
         /\ args = "OneRegOneImm" =>
              \/ name \in {"invi", "cpyi", "cpya"}
              \/ name \in NamesWith(Iog1, "TwoRegsOneImm")
              \/ name \in NamesWith(Iog1, "TwoRegsOneSimm")
         /\ args \in {"TwoRegs", "OneRegOnePc", "OneRegOneImm", "OneImm", "OneReg",
                      "TwoRegsOneImm"}
<1>1. ASSUME NEW g \in {0, 1}, NEW kinds, NEW n \in NamesWith(Iog[g], kinds)
      PROVE  n \notin Glt /\ (g = 1 => n \notin Sgt)
  <2>1. PICK i \in DOMAIN Iog[g] : Iog[g][i][1] = n
    BY <1>1 DEF NamesWith
  <2> QED
    BY <1>1, <2>1, SpecialEntries
<1>2. /\ \A n \in NamesWith(Iog0, "ThreeRegs") : n \notin Glt
      /\ \A n \in NamesWith(Iog1, "TwoRegsOneImm") : n \notin Glt \cup Sgt
      /\ \A n \in NamesWith(Iog1, "TwoRegsOneSimm") : n \notin Glt \cup Sgt
  BY <1>1, Groups
<1>3. /\ args \in {"TwoRegs", "OneRegOnePc", "OneRegOneImm", "OneImm", "OneReg",
                   "TwoRegsOneImm"}
      /\ args = "TwoRegs" =>
           name \in {"inv", "cpy"} \/ name \in NamesWith(Iog0, "ThreeRegs")
      /\ args = "TwoRegsOneImm" => name \in {"jmpane", "jmpaeq", "callane", "callaeq"}
      /\ args = "OneRegOnePc" => name = "cpy"
      /\ args = "OneImm" => name \in {"bra", "jmpa", "calla"}
      /\ args = "OneReg" => name \in {"jmp", "call", "inc", "dec"}
      /\ args = "OneRegOneImm" =>
           \/ name \in {"invi", "cpyi", "cpya"}
           \/ name \in NamesWith(Iog1, "TwoRegsOneImm")
           \/ name \in NamesWith(Iog1, "TwoRegsOneSimm")
  BY DEF PseudoInstructionNames
<1>4. DOMAIN AbsoluteToRegister = {"jmpa", "calla", "jmpane", "jmpaeq", "callane", "callaeq"}
  BY DEF AbsoluteToRegister
<1>5. name \notin Glt
  BY <1>2, <1>3 DEF Glt
<1>6. name \in Sgt => args = "TwoRegs"
  BY <1>2, <1>3 DEF Sgt
<1>7. /\ args = "TwoRegsOneImm" => name \in DOMAIN AbsoluteToRegister /\ name # "nori"
      /\ args = "OneImm" => name = "bra" \/ name \in DOMAIN AbsoluteToRegister
  BY <1>3, <1>4
<1> QED
  BY <1>3, <1>5, <1>6, <1>7
TabledNames(args) == UNION {NamesWith(Iog[g], args) : g \in 0 .. 6}

\* Of which instructions the tables have the names.
LEMMA Tabled ==
  ASSUME NEW args, NEW name \in TabledNames(args)
  PROVE  /\ name \notin Glt
         /\ name \in Sgt => args = "ThreeRegs"
         /\ args \notin {"OneReg", "TwoRegs", "OneImm", "OneRegOnePc"}
         /\ name \notin Absolute
<1>1. PICK g \in 0 .. 6 : name \in NamesWith(Iog[g], args)
  BY DEF TabledNames
<1>2. PICK i \in DOMAIN Iog[g] : Iog[g][i][1] = name /\ Iog[g][i][2] = args
  BY <1>1, NameIsEntry
<1>3. name \notin Glt /\ (name \in Sgt => g = 0)
  BY <1>2, SpecialEntries
<1>4. g = 0 => args = "ThreeRegs"
  BY <1>2, Groups, Tables, Entries0
<1>5. Iog[g] \in Tabulated
  BY Groups DEF Tabulated
<1> QED
  BY <1>1, <1>3, <1>4, <1>5, TableNames

LEMMA Spellings ==
  /\ \A name : name \notin Sgt => Spelled(name) = name
  /\ Spelled("sgtu") = "gltu" /\ Spelled("sgts") = "glts"
  /\ \A name : Spelled(name) \notin Sgt
BY DEF Spelled, Sgt

LEMMA DocumentedAre ==
  \A args : /\ Documented(args) = TabledNames(args) \cup PseudoInstructionNames(args)
            /\ InstructionNames(args) =
                 TabledNames(args) \ (IF args = "TwoRegsOneImm" THEN {"nori"} ELSE {})
BY DEF Documented, InstructionNames, TabledNames

\* The misspelled instructions are found under the names that they are misspelled.
LEMMA MisspelledAre ==
  ASSUME NEW text, Misspelled(text)
  PROVE  \E name \in Sgt : /\ text.name = Spelled(name)
                           /\ \/ text.args = "ThreeRegs" /\ name \in NamesWith(Iog0, "ThreeRegs")
                              \/ /\ text.args = "TwoRegs"
                                 /\ name \in PseudoInstructionNames("TwoRegs")
<1>1. PICK name \in Sgt : text.name = Spelled(name)
  BY Spellings DEF Misspelled, Sgt
<1>2. name \in NamesWith(Iog0, "ThreeRegs")
  BY NeededEntries DEF Sgt
<1>3. name \in PseudoInstructionNames("TwoRegs")
  BY <1>2 DEF PseudoInstructionNames
<1> QED
  BY <1>1, <1>2, <1>3 DEF Misspelled

\* What the assembler takes for an instruction: one that there is, or a misspelled
\* one, unless it cannot be written.
Accepted(text) ==
  /\ text.name \in Documented(text.args) \/ Misspelled(text)
  /\ ~Unwritable(text)

\* An instruction that is accepted is in the grammar.
LEMMA AcceptedIsInGrammar ==
  ASSUME NEW text, Accepted(text)
  PROVE  InGrammar(text)
<1>1. CASE Misspelled(text)
  <2>1. PICK name \in Sgt :
          /\ text.name = Spelled(name)
          /\ \/ text.args = "ThreeRegs" /\ name \in NamesWith(Iog0, "ThreeRegs")
             \/ text.args = "TwoRegs" /\ name \in PseudoInstructionNames("TwoRegs")
    BY <1>1, MisspelledAre
  <2>2. name \in NamesWith(Iog0, "ThreeRegs") => name \in InstructionNames("ThreeRegs")
    <3>1. NamesWith(Iog[0], "ThreeRegs") \subseteq TabledNames("ThreeRegs")
      BY DEF TabledNames
    <3> QED
      BY <3>1, Groups, DocumentedAre
  <2> QED
    BY <2>1, <2>2 DEF InGrammar
<1>2. CASE ~Misspelled(text)
  <2>1. text.name \in TabledNames(text.args) \cup PseudoInstructionNames(text.args)
        /\ <<text.name, text.args>> \notin Unassembled
    BY <1>2, DocumentedAre DEF Accepted, Unwritable
  <2>2. text.name \notin Sgt
    <3> SUFFICES ASSUME text.name \in Sgt PROVE FALSE
      OBVIOUS
    <3>1. text.args \in {"ThreeRegs", "TwoRegs"}
      BY <2>1, Tabled, PseudoNames
    <3> QED
      BY <2>1, <3>1 DEF Unassembled, Sgt
  <2>3. text.name = "nori" => text.args # "TwoRegsOneImm"
    BY <2>1 DEF Unassembled
  <2>4. text.name \in InstructionNames(text.args) \cup PseudoInstructionNames(text.args)
    BY <2>1, <2>3, DocumentedAre
  <2> QED
    BY <2>2, <2>4, Spellings DEF InGrammar
<1> QED
  BY <1>1, <1>2

\* and to the visitor.
LEMMA AcceptedIsVisited ==
  ASSUME NEW text, Accepted(text)
  PROVE  ~Eek(text)
<1>0. /\ VisitedInAlu(text.args) \subseteq Visited(text.args)
      /\ VisitedInFlow(text.args) \subseteq Visited(text.args)
      /\ VisitedInMemoryAndInterrupts(text.args) \subseteq Visited(text.args)
      /\ PseudoInstructionNames(text.args) \subseteq Visited(text.args)
  BY DEF Visited
<1>1. CASE Misspelled(text)
  <2>1. PICK name \in Sgt :
          /\ text.name = Spelled(name)
          /\ \/ text.args = "ThreeRegs" /\ name \in NamesWith(Iog0, "ThreeRegs")
             \/ text.args = "TwoRegs" /\ name \in PseudoInstructionNames("TwoRegs")
    BY <1>1, MisspelledAre
  <2>2. name # "nor"
    BY DEF Sgt
  <2>3. text.args = "ThreeRegs" /\ name \in NamesWith(Iog0, "ThreeRegs")
          => name \in VisitedInAlu(text.args)
    BY <2>2 DEF VisitedInAlu
  <2> QED
    BY <1>0, <2>1, <2>3 DEF Eek
<1>2. CASE ~Misspelled(text)
  <2>1. text.name \in TabledNames(text.args) \cup PseudoInstructionNames(text.args)
        /\ <<text.name, text.args>> \notin Unassembled
    BY <1>2, DocumentedAre DEF Accepted, Unwritable
  <2>2. text.name \notin Sgt
    <3> SUFFICES ASSUME text.name \in Sgt PROVE FALSE
      OBVIOUS
    <3>1. text.args \in {"ThreeRegs", "TwoRegs"}
      BY <2>1, Tabled, PseudoNames
    <3> QED
      BY <2>1, <3>1 DEF Unassembled, Sgt
  <2>3. text.name = "nor" => text.args # "ThreeRegs"
    BY <2>1 DEF Unassembled
  <2>4. ASSUME NEW g \in 0 .. 6, text.name \in NamesWith(Iog[g], text.args)
        PROVE  text.name \in Visited(text.args)
    <3>1. PICK i \in DOMAIN Iog[g] : Iog[g][i][1] = text.name /\ Iog[g][i][2] = text.args
      BY <2>4, NameIsEntry
    <3>2. CASE g = 0
      <4>1. text.args = "ThreeRegs"
        BY <3>1, <3>2, Groups, Tables, Entries0
      <4>2. text.name \in VisitedInAlu(text.args)
        BY <2>3, <2>4, <3>2, <4>1, Groups DEF VisitedInAlu
      <4> QED
        BY <1>0, <4>2
    <3>3. CASE g = 1
      <4>1. text.args # "ThreeRegs"
        BY <3>1, <3>3, Groups, Tables, Entries1
      <4>2. text.name \in VisitedInAlu(text.args)
        BY <2>4, <3>3, <4>1, Groups DEF VisitedInAlu
      <4> QED
        BY <1>0, <4>2
    <3>4. CASE g \in {2, 3, 4}
      <4>1. text.name \in VisitedInFlow(text.args)
        BY <2>4, <3>4, Groups DEF VisitedInFlow
      <4> QED
        BY <1>0, <4>1
    <3>5. CASE g \in {5, 6}
      <4>1. text.name \in VisitedInMemoryAndInterrupts(text.args)
        BY <2>4, <3>5, Groups DEF VisitedInMemoryAndInterrupts
      <4> QED
        BY <1>0, <4>1
    <3> QED
      BY <3>2, <3>3, <3>4, <3>5
  <2>5. text.name \in Visited(text.args)
    BY <1>0, <2>1, <2>4 DEF TabledNames
  <2> QED
    BY <2>2, <2>5, Spellings DEF Eek
<1> QED
  BY <1>1, <1>2

\* The parser and the visitor take no other.
LEMMA TakenIsAccepted ==
  ASSUME NEW text, InGrammar(text), ~Eek(text)
  PROVE  Accepted(text)
<1>1. PICK name \in InstructionNames(text.args) \cup PseudoInstructionNames(text.args) :
        text.name = Spelled(name)
  BY DEF InGrammar
<1>2. name \in Documented(text.args)
  BY DocumentedAre
<1>3. text.name \in Documented(text.args) \/ Misspelled(text)
  <2>1. CASE name \in Sgt
    <3>1. text.args \in {"ThreeRegs", "TwoRegs"}
      BY <1>2, <2>1, DocumentedAre, Tabled, PseudoNames
    <3> QED
      BY <1>1, <2>1, <3>1, Spellings DEF Misspelled, Sgt
  <2>2. CASE name \notin Sgt
    BY <1>1, <1>2, <2>2, Spellings
  <2> QED
    BY <2>1, <2>2
<1>4. text.name \notin Sgt
  BY <1>1, Spellings
<1>5. ~(text.name = "nori" /\ text.args = "TwoRegsOneImm")
  <2> SUFFICES ASSUME text.name = "nori", text.args = "TwoRegsOneImm" PROVE FALSE
    OBVIOUS
  <2>1. name = "nori"
    BY <1>1, Spellings DEF Sgt
  <2>2. name \notin InstructionNames(text.args)
    BY <2>1, DocumentedAre
  <2> QED
    BY <1>1, <2>1, <2>2, PseudoNames
<1>6. ~(text.name = "nor" /\ text.args = "ThreeRegs")
  <2> SUFFICES ASSUME text.name = "nor", text.args = "ThreeRegs" PROVE FALSE
    OBVIOUS
  <2>1. PICK n \in Visited(text.args) : text.name = Spelled(n)
    BY DEF Eek
  <2>2. n = "nor"
    BY <2>1, Spellings DEF Sgt
  <2>3. \A g \in 1 .. 6 : n \notin NamesWith(Iog[g], text.args)
    <3> SUFFICES ASSUME NEW g \in 1 .. 6, n \in NamesWith(Iog[g], text.args) PROVE FALSE
      OBVIOUS
    <3>1. PICK i \in DOMAIN Iog[g] : Iog[g][i][1] = n
      BY DEF NamesWith
    <3> QED
      BY <2>2, <3>1, SpecialEntries
  <2>4. n \notin VisitedInAlu(text.args)
    BY <2>2 DEF VisitedInAlu
  <2>5. n \notin VisitedInFlow(text.args)
    BY <2>3, Groups DEF VisitedInFlow
  <2>6. n \notin VisitedInMemoryAndInterrupts(text.args)
    BY <2>3, Groups DEF VisitedInMemoryAndInterrupts
  <2>7. n \notin PseudoInstructionNames(text.args)
    BY PseudoNames
  <2> QED
    BY <2>1, <2>4, <2>5, <2>6, <2>7 DEF Visited
<1>7. <<text.name, text.args>> \notin Unassembled
  BY <1>4, <1>5, <1>6 DEF Unassembled, Sgt
<1> QED
  BY <1>3, <1>7 DEF Accepted, Unwritable

AllFound(texts) == \A i \in DOMAIN texts : InTables(texts[i])

LEMMA OneFound ==
  ASSUME NEW text, InTables(text)
  PROVE  AllFound(<<text>>)
BY DEF AllFound

\* The instructions that an accepted one, if it is not misspelled, stands for are in the
\* tables.
LEMMA ExpandFound ==
  ASSUME NEW text, Accepted(text), ~Misspelled(text)
  PROVE  AllFound(Expand(text))
<1> DEFINE name == text.name
           args == text.args
<1>1. ~Eek(text)
  BY AcceptedIsVisited
<1>2. DOMAIN AbsoluteToRegister = Absolute \ {"bra"}
  BY DEF AbsoluteToRegister, Absolute
<1>3. /\ name \in Absolute => args \in {"OneImm", "TwoRegsOneImm"}
      /\ name = "bra" => args = "OneImm"
      /\ args = "OneReg" => name \in {"jmp", "call", "inc", "dec"}
      /\ "bra" \in Absolute /\ "cpy" \notin Absolute
  BY <1>1, VisitedNames DEF Absolute
<1>4. name \in TabledNames(args) \/ name \in PseudoInstructionNames(args)
  BY DocumentedAre DEF Accepted
<1>5. ASSUME NEW g \in 0 .. 6, NEW kinds, NEW n, n \in NamesWith(Iog[g], kinds)
      PROVE  \A ra, rb, rc, imm : InTables(Text(n, kinds, ra, rb, rc, imm))
  <2> TAKE ra, rb, rc, imm
  <2> DEFINE t == Text(n, kinds, ra, rb, rc, imm)
  <2>1. t.name = n /\ t.args = kinds
    BY DEF Text
  <2> HIDE DEF t
  <2>2. InTables(t)
    BY <1>5, <2>1, NameIsFound
  <2> QED
    BY <2>2 DEF t
<1>6. /\ \A n \in NamesWith(Iog0, "ThreeRegs") \cup NamesWith(Iog3, "ThreeRegs")
                    \cup NamesWith(Iog4, "ThreeRegs") :
           \A ra, rb, rc, imm : InTables(Text(n, "ThreeRegs", ra, rb, rc, imm))
      /\ \A kinds : \A n \in NamesWith(Iog1, kinds) :
           \A ra, rb, rc, imm : InTables(Text(n, kinds, ra, rb, rc, imm))
      /\ \A ra, rb, rc, imm : InTables(Text("beq", "Branch", ra, rb, rc, imm))
  <2>1. /\ Iog0 = Iog[0] /\ 0 \in 0 .. 6 /\ Iog1 = Iog[1] /\ 1 \in 0 .. 6
        /\ Iog2 = Iog[2] /\ 2 \in 0 .. 6 /\ Iog3 = Iog[3] /\ 3 \in 0 .. 6
        /\ Iog4 = Iog[4] /\ 4 \in 0 .. 6
    BY Groups
  <2> QED
    BY <1>5, <2>1, NeededEntries, Zenon
<1>7. ASSUME NEW n \in NamesWith(Iog0, "ThreeRegs") \cup NamesWith(Iog3, "ThreeRegs")
                         \cup NamesWith(Iog4, "ThreeRegs"),
             NEW ra, NEW rb, NEW rc
      PROVE  AllFound(To(n, ra, rb, rc))
  BY <1>6, <1>7, OneFound, Zenon DEF To
<1>8. ASSUME NEW ra, NEW imm
      PROVE  AllFound(Cpya(ra, imm)) /\ Len(Cpya(ra, imm)) = 2
  <2> DEFINE low == Text("addi", "TwoRegsOneImm", ra, 0, 0, imm)
             high == Text("cpyhi", "OneRegOneImm", ra, 0, 0, imm \div 2 ^ 16)
  <2>1. InTables(low)
    BY <1>6, NeededEntries, Zenon
  <2>2. InTables(high)
    BY <1>6, NeededEntries, Zenon
  <2>3. Cpya(ra, imm) = <<low, high>>
    BY DEF Cpya
  <2> HIDE DEF low, high
  <2> QED
    BY <2>1, <2>2, <2>3 DEF AllFound
<1>9. CASE name \in DOMAIN AbsoluteToRegister
  <2> DEFINE jump == To(AbsoluteToRegister[name], text.ra, text.rb, TEMP)
  <2>1. AbsoluteToRegister[name] \in {"jne", "jeq", "cne", "ceq"}
    BY <1>9 DEF AbsoluteToRegister
  <2>2. AllFound(jump)
    BY <1>7, <2>1, NeededEntries
  <2>3. AllFound(Cpya(TEMP, text.imm)) /\ Len(Cpya(TEMP, text.imm)) = 2
    BY <1>8
  <2>4. Expand(text) = Cpya(TEMP, text.imm) \o jump
    BY <1>2, <1>3, <1>9 DEF Expand
  <2> QED
    BY <2>2, <2>3, <2>4 DEF AllFound, Cpya, To
<1>10. CASE args = "TwoRegs"
  <2>1. Expand(text) = TwoRegsToThree(text)
    BY <1>2, <1>3, <1>10 DEF Expand
  <2>2. name \in {"inv", "cpy"} \/ name \in NamesWith(Iog0, "ThreeRegs")
    BY <1>4, <1>10, Tabled, PseudoNames
  <2>3. AllFound(TwoRegsToThree(text))
    BY <1>7, <2>2, NeededEntries DEF TwoRegsToThree
  <2> QED
    BY <2>1, <2>3
<1>11. CASE args = "OneRegOneImm"
  <2>1. Expand(text) = OneRegOneImmToTwo(text)
    BY <1>2, <1>3, <1>11 DEF Expand
  <2>2. \/ name \in {"invi", "cpyi", "cpya"}
        \/ name \in NamesWith(Iog1, "TwoRegsOneImm")
        \/ name \in NamesWith(Iog1, "TwoRegsOneSimm")
        \/ name = "cpyhi"
    <3>1. ASSUME name \in TabledNames(args) PROVE name = "cpyhi"
      <4>1. PICK g \in 0 .. 6 : name \in NamesWith(Iog[g], args)
        BY <3>1 DEF TabledNames
      <4>2. PICK i \in DOMAIN Iog[g] : Iog[g][i][1] = name /\ Iog[g][i][2] = args
        BY <4>1, NameIsEntry
      <4>3. g = 1
        <5>1. CASE g = 0
          BY <1>11, <4>2, <5>1, Groups, Tables, Entries0
        <5>2. CASE g = 2
          BY <1>11, <4>2, <5>2, Groups, Tables, Entries2
        <5>3. CASE g = 3
          BY <1>11, <4>2, <5>3, Groups, Tables, Entries3
        <5>4. CASE g = 4
          BY <1>11, <4>2, <5>4, Groups, Tables, Entries4
        <5>5. CASE g = 5
          BY <1>11, <4>2, <5>5, Groups, Tables, Entries5
        <5>6. CASE g = 6
          BY <1>11, <4>2, <5>6, Groups, Tables, Entries6
        <5> QED
          BY <5>1, <5>2, <5>3, <5>4, <5>5, <5>6
      <4> QED
        BY <1>11, <4>2, <4>3, Groups, Tables, Entries1
    <3> QED
      BY <1>4, <1>11, <3>1, PseudoNames
  <2>3. name \in {"sltsi", "sgtsi"} <=> name \in NamesWith(Iog1, "TwoRegsOneSimm")
    <3>1. \A i \in 1 .. 16 : Iog1[i][2] = "TwoRegsOneSimm" => Iog1[i][1] \in {"sltsi", "sgtsi"}
      BY Entries1
    <3> QED
      BY <3>1, NeededEntries, Tables DEF NamesWith
  <2>4. ASSUME NEW kinds, NEW n \in NamesWith(Iog1, kinds), NEW rb
        PROVE  AllFound(<<Text(n, kinds, text.ra, rb, 0, text.imm)>>)
    BY <1>6, OneFound, Zenon
  <2>5. ASSUME name = "cpyhi" PROVE AllFound(<<text>>)
    <3>1. name \in NamesWith(Iog[1], args)
      BY <1>11, <2>5, NeededEntries, Groups
    <3>2. InTables(text)
      BY <3>1, NameIsFound
    <3> QED
      BY <3>2, OneFound
  <2>6. AllFound(Cpya(text.ra, text.imm))
    BY <1>8
  <2>7. AllFound(OneRegOneImmToTwo(text))
    BY <2>2, <2>3, <2>4, <2>5, <2>6, NeededEntries DEF OneRegOneImmToTwo
  <2> QED
    BY <2>1, <2>7
<1>12. CASE args = "OneReg"
  <2>1. Expand(text) = OneRegToOthers(text)
    BY <1>2, <1>3, <1>12 DEF Expand
  <2>2. \A n \in {"addi", "subi"} :
          AllFound(<<Text(n, "TwoRegsOneImm", text.ra, text.ra, 0, 1)>>)
    BY <1>6, OneFound, NeededEntries
  <2>3. \A n \in {"jeq", "ceq"} : AllFound(To(n, 0, 0, text.ra))
    BY <1>7, NeededEntries
  <2>4. AllFound(OneRegToOthers(text))
    BY <1>3, <1>12, <2>2, <2>3 DEF OneRegToOthers
  <2> QED
    BY <2>1, <2>4
<1>13. CASE name = "bra"
  <2>1. Expand(text) = <<Text("beq", "Branch", 0, 0, 0, text.imm)>>
    BY <1>2, <1>3, <1>13 DEF Expand
  <2> QED
    BY <1>6, <2>1, OneFound
<1>14. CASE args = "OneRegOnePc"
  <2>1. Expand(text) = <<Text("addsi", "OneRegOnePcOneSimm", text.ra, 0, 0, 0)>>
    BY <1>2, <1>3, <1>14 DEF Expand
  <2> QED
    BY <1>6, <2>1, OneFound, NeededEntries
<1>15. CASE /\ name \notin DOMAIN AbsoluteToRegister /\ name # "bra"
            /\ args \notin {"TwoRegs", "OneRegOneImm", "OneReg", "OneRegOnePc"}
  <2>1. Expand(text) = <<text>>
    BY <1>15 DEF Expand
  <2>2. name \in TabledNames(args)
    BY <1>4, <1>15, PseudoNames
  <2>3. InTables(text)
    BY <2>2, NameIsFound DEF TabledNames
  <2> QED
    BY <2>1, <2>3, OneFound
<1> QED
  BY <1>9, <1>10, <1>11, <1>12, <1>13, <1>14, <1>15

LEMMA OnlyMisspelledThrow ==
  ASSUME NEW text, Accepted(text)
  PROVE  LookupThrows(text) <=> Misspelled(text)
<1>1. ~Misspelled(text) => ~LookupThrows(text)
  BY ExpandFound DEF AllFound, LookupThrows
<1>2. ASSUME Misspelled(text) PROVE LookupThrows(text)
  <2>1. \A t : t.name \in Glt => ~InTables(t)
    <3> SUFFICES ASSUME NEW t, t.name \in Glt, InTables(t) PROVE FALSE
      OBVIOUS
    <3>1. PICK g \in 0 .. 6 : t.name \in NamesWith(Iog[g], t.args)
      BY FoundIsName
    <3> QED
      BY <3>1, NameIsEntry, SpecialEntries
  <2>2. text.name \in Glt /\ text.args \in {"ThreeRegs", "TwoRegs"}
    BY <1>2 DEF Misspelled, Glt
  <2>3. text.name \notin DOMAIN AbsoluteToRegister /\ text.name \notin {"inv", "cpy", "bra"}
    BY <2>2 DEF AbsoluteToRegister, Glt
  <2>4. PICK t : t.name = text.name /\ Expand(text) = <<t>>
    <3>1. CASE text.args = "ThreeRegs"
      <4>1. Expand(text) = <<text>>
        BY <2>3, <3>1 DEF Expand
      <4> QED
        BY <4>1
    <3>2. CASE text.args = "TwoRegs"
      <4>1. Expand(text) = To(text.name, text.ra, text.ra, text.rb)
        BY <2>3, <3>2 DEF Expand, TwoRegsToThree
      <4> QED
        BY <4>1 DEF To, Text
    <3> QED
      BY <2>2, <3>1, <3>2
  <2>5. 1 \in DOMAIN Expand(text) /\ Expand(text)[1] = t
    BY <2>4
  <2> QED
    BY <2>1, <2>2, <2>4, <2>5 DEF LookupThrows
<1> QED
  BY <1>1, <1>2

(***************************************************************************)
(* Values in the first pass.                                               *)
(***************************************************************************)
\* In the first pass, in which each name has a number and a quotient by 0 is 0, no
\* expression is an error.
LEMMA NoErrorAtFirst ==
  ASSUME NEW expr, IsExpr(expr), NEW here
  PROVE  Evaluate(expr, FALSE, here, [name \in NamesIn(expr) |-> 0]).status # "error"
<1> DEFINE addr == [name \in NamesIn(expr) |-> 0]
      Push(s, n) == [s EXCEPT !.nums = Append(@, n)]
      Stop(s, how) == [s EXCEPT !.status = how]
      Top(s, k) == s.nums[Len(s.nums) - k]
      Pop(s, k) == [s EXCEPT !.nums = SubSeq(@, 1, Len(@) - k)]
      Operate(s, op) ==
        IF op \in {"neg", "~", "!"} THEN Push(Pop(s, 1), Unary(op, Top(s, 0)))
        ELSE IF op = "/" /\ Top(s, 0) = 0 /\ FALSE THEN Stop(s, "error")
        ELSE IF op = "%" /\ Top(s, 0) = 0 THEN Stop(s, "crashed")
        ELSE Push(Pop(s, 2), Binary(op, Top(s, 1), Top(s, 0)))
      Token(s, t) ==
        IF s.status # "running" THEN s
        ELSE CASE t[1] = "num" -> Push(s, t[2])
               [] t[1] = "pc"  -> Push(s, here)
               [] t[1] = "op"  -> Operate(s, t[2])
               [] t[1] = "ident" ->
                    IF addr[t[2]] = NotFound THEN Stop(s, "error")
                    ELSE Push(s, addr[t[2]])
      Run[i \in 0 .. Len(expr)] ==
        IF i = 0 THEN [nums |-> <<>>, status |-> "running"]
        ELSE Token(Run[i - 1], expr[i])
      Result(end) ==
        [num    |-> IF end.status = "running" /\ expr # <<>> THEN end.nums[1] ELSE 0,
         status |-> end.status]
<1>1. Evaluate(expr, FALSE, here, addr) = Result(Run[Len(expr)])
  BY DEF Evaluate
<1> DEFINE n == Len(expr)
           Fresh == [nums |-> <<>>, status |-> "running"]
           Step(s, i) == Token(s, expr[i])
           Is(Q, m) == Q = [i \in 0 .. m |-> IF i = 0 THEN Fresh ELSE Step(Q[i - 1], i)]
           Fine(s) == IsState(s) /\ s.status \in {"running", "crashed"}
<1>2. n \in Nat /\ \A i \in 1 .. n : /\ expr[i][1] \in {"num", "ident", "op", "pc"}
                                     /\ expr[i][1] = "ident" => expr[i][2] \in NamesIn(expr)
  BY DEF IsExpr, NamesIn
<1>3. \A name \in NamesIn(expr) : addr[name] = 0 /\ addr[name] # NotFound
  BY DEF NotFound
<1>4. ASSUME NEW s, Fine(s), NEW i \in 1 .. n
      PROVE  Fine(Step(s, i))
  <2> DEFINE t == expr[i]
  <2>1. ASSUME NEW u, IsState(u), u.status = "running", NEW m PROVE Fine(Push(u, m))
    <3>1. \A v : LET p == [u EXCEPT !.nums = v] IN IsState(p) /\ p.status = "running"
      BY <2>1 DEF IsState
    <3> QED
      BY <3>1, Zenon
  <2>2. Fine(Stop(s, "crashed"))
    BY <1>4 DEF IsState
  <2>3. \A k : IsState(Pop(s, k)) /\ Pop(s, k).status = s.status
    <3>1. \A v : LET p == [s EXCEPT !.nums = v] IN IsState(p) /\ p.status = s.status
      BY <1>4 DEF IsState
    <3> QED
      BY <3>1, Zenon
  <2>4. t[1] \in {"num", "ident", "op", "pc"} /\ (t[1] = "ident" => addr[t[2]] # NotFound)
    BY <1>2, <1>3
  <2> HIDE DEF Push, Stop, Pop, Top, addr
  <2>5. s.status = "running" => \A k, m : Fine(Push(Pop(s, k), m))
    BY <2>1, <2>3
  <2>6. s.status = "running" => \A op : Fine(Operate(s, op))
    BY <2>2, <2>5
  <2> HIDE DEF Operate
  <2>7. CASE s.status # "running"
    BY <1>4, <2>7
  <2>8. CASE s.status = "running"
    <3>1. IsState(s)
      BY <1>4
    <3> HIDE DEF Fine, t
    <3> QED
      BY <2>1, <2>4, <2>6, <2>8, <3>1 DEF t
  <2> QED
    BY <2>7, <2>8
<1>5. Fine(Fresh)
  BY DEF IsState
<1>6. Run = CHOOSE Q : Is(Q, n)
  OBVIOUS
<1> HIDE DEF n, Fresh, Step, Run, addr
<1>7. \E Q : Is(Q, n)
  <2> DEFINE S == {m \in Nat : \E Q : Is(Q, m)}
  <2>1. 0 \in S
    <3>1. Is([i \in 0 .. 0 |-> Fresh], 0)
      OBVIOUS
    <3> QED
      BY <3>1
  <2>2. ASSUME NEW m \in Nat, m \in S PROVE m + 1 \in S
    <3>1. PICK Q : Is(Q, m)
      BY <2>2
    <3> DEFINE R == [i \in 0 .. m + 1 |-> IF i = m + 1 THEN Step(Q[m], m + 1) ELSE Q[i]]
    <3>2. ASSUME NEW i \in 0 .. m + 1
          PROVE  R[i] = IF i = 0 THEN Fresh ELSE Step(R[i - 1], i)
      <4>1. CASE i = m + 1
        BY <4>1
      <4>2. CASE i # m + 1
        <5>1. i \in 0 .. m /\ (i # 0 => i - 1 \in 0 .. m)
          BY <4>2
        <5>2. R[i] = Q[i] /\ (i # 0 => R[i - 1] = Q[i - 1])
          BY <5>1
        <5> QED
          BY <3>1, <5>1, <5>2
      <4> QED
        BY <4>1, <4>2
    <3>3. Is(R, m + 1)
      BY <3>2
    <3> HIDE DEF R
    <3> QED
      BY <3>3
  <2> HIDE DEF S
  <2>3. n \in S
    BY <1>2, <2>1, <2>2, Induction
  <2> QED
    BY <2>3 DEF S
<1>8. Is(Run, n)
  BY <1>6, <1>7
<1> HIDE DEF Fine
<1> DEFINE S == {m \in Nat : m <= n => Fine(Run[m])}
<1>9. 0 \in S
  BY <1>2, <1>5, <1>8
<1>10. ASSUME NEW m \in Nat, m \in S PROVE m + 1 \in S
  <2> SUFFICES ASSUME m + 1 <= n PROVE Fine(Run[m + 1])
    OBVIOUS
  <2>1. Fine(Run[m]) /\ m + 1 \in 1 .. n /\ m + 1 \in 0 .. n /\ (m + 1) - 1 = m /\ m + 1 # 0
    BY <1>2, <1>10
  <2>2. Run[m + 1] = Step(Run[m], m + 1)
    BY <1>8, <2>1
  <2> QED
    BY <1>4, <2>1, <2>2
<1> HIDE DEF S
<1>11. n \in S
  BY <1>2, <1>9, <1>10, Induction
<1>12. Fine(Run[n])
  BY <1>2, <1>11 DEF S
<1>13. Evaluate(expr, FALSE, here, addr).status = Run[n].status
  <2>1. \A s : Result(s).status = s.status
    OBVIOUS
  <2> HIDE DEF Result
  <2> QED
    BY <1>1, <2>1 DEF n
<1> QED
  BY <1>12, <1>13 DEF Fine, addr

\* A line of data ends the program with the first of its constants that has no
\* value, each where it stands, and with no other.
LEMMA ConstantsJudged ==
  ASSUME NEW exprs, Len(exprs) \in Nat, NEW size \in {1, 2, 4}, pc.curr \in Int,
         NEW V, V = [k \in 1 .. Len(exprs) |-> Value(exprs[k], pc.curr + size * (k - 1))]
  PROVE  \/ /\ GenConstants(exprs, size).status = "running"
            /\ \A k \in 1 .. Len(exprs) : ~Failed(V[k])
         \/ \E k \in 1 .. Len(exprs) : /\ Failed(V[k])
                                       /\ GenConstants(exprs, size).status = V[k].status
<1> DEFINE n == Len(exprs)
           HasParts(s) == s = [pc |-> s.pc, out |-> s.out, status |-> s.status]
           Ok(s, k) == /\ HasParts(s)
                       /\ \/ /\ s.status = "running" /\ s.pc.curr = pc.curr + size * k
                             /\ \A j \in 1 .. k : ~Failed(V[j])
                          \/ \E j \in 1 .. k : Failed(V[j]) /\ s.status = V[j].status
<1>0. n \in Nat /\ size \in Int
  OBVIOUS
<1>1. PICK R : /\ R[0] = [pc |-> pc, out |-> out, status |-> "running"]
               /\ \A i \in 1 .. n : R[i] = ConstantStep(R[i - 1], exprs[i], size)
               /\ GenConstants(exprs, size) = R[n]
  BY <1>0, ConstantsRun
<1>2. Ok(R[0], 0)
  <2>1. pc.curr + size * 0 = pc.curr
    BY <1>0
  <2> QED
    BY <1>1, <2>1
<1>3. ASSUME NEW s, NEW k \in Nat, k < n, Ok(s, k)
      PROVE  Ok(ConstantStep(s, exprs[k + 1], size), k + 1)
  <2> DEFINE value == Value(exprs[k + 1], s.pc.curr)
             gen   == Gen(s, Bytes(value.num, size))
             on    == [pc |-> gen.pc, out |-> gen.out, status |-> "running"]
             stopped == [s EXCEPT !.status = value.status]
             next == ConstantStep(s, exprs[k + 1], size)
  <2>0. /\ k + 1 \in 1 .. n /\ \A j \in 1 .. k + 1 : j \in 1 .. k \/ j = k + 1
        /\ \A j \in 1 .. k : j \in 1 .. k + 1
        /\ (k + 1) - 1 = k
    BY <1>0, <1>3
  <2>1. CASE s.status # "running"
    <3>1. next = s
      BY <2>1 DEF ConstantStep
    <3>2. \E j \in 1 .. k : Failed(V[j]) /\ s.status = V[j].status
      BY <1>3, <2>1
    <3>3. HasParts(s)
      BY <1>3
    <3>4. \E j \in 1 .. k + 1 : Failed(V[j]) /\ s.status = V[j].status
      BY <2>0, <3>2
    <3> HIDE DEF next, HasParts
    <3> QED
      BY <3>1, <3>3, <3>4, Zenon DEF next
  <2>2. CASE s.status = "running"
    <3>1. /\ s.pc.curr = pc.curr + size * k
          /\ \A j \in 1 .. k : ~Failed(V[j])
      BY <1>3, <2>2 DEF Failed
    <3>2. V[k + 1] = value
      BY <2>0, <3>1
    <3>3. gen.pc.curr = pc.curr + size * (k + 1)
      <4>1. gen.pc.curr = s.pc.curr + size
        BY GenMoves
      <4> HIDE DEF gen
      <4> QED
        BY <1>0, <3>1, <4>1
    <3>4. next = IF Failed(value) THEN stopped ELSE on
      BY <2>2 DEF ConstantStep
    <3> HIDE DEF value, gen, next
    <3>5. HasParts(stopped) /\ stopped.status = value.status
      <4>1. HasParts(s)
        BY <1>3
      <4>2. \A v : LET u == [s EXCEPT !.status = v]
                   IN u = [pc |-> u.pc, out |-> u.out, status |-> u.status] /\ u.status = v
        BY <4>1
      <4> QED
        BY <4>2, Zenon
    <3>6. HasParts(on) /\ on.status = "running" /\ on.pc.curr = gen.pc.curr
      OBVIOUS
    <3> HIDE DEF stopped, on, HasParts
    <3>7. CASE Failed(value)
      <4>1. next = stopped
        BY <3>4, <3>7
      <4>2. k + 1 \in 1 .. k + 1
        BY <1>0
      <4>3. Failed(V[k + 1]) /\ next.status = V[k + 1].status
        BY <3>2, <3>5, <3>7, <4>1, Zenon
      <4>4. HasParts(next)
        BY <3>5, <4>1, Zenon
      <4> QED
        BY <4>2, <4>3, <4>4, Zenon DEF next
    <3>8. CASE ~Failed(value)
      BY <2>0, <3>1, <3>2, <3>3, <3>4, <3>6, <3>8 DEF next
    <3> QED
      BY <3>7, <3>8
  <2> QED
    BY <2>1, <2>2
<1> HIDE DEF Ok, n
<1> DEFINE S == {m \in Nat : m <= n => Ok(R[m], m)}
<1>4. 0 \in S
  BY <1>2
<1>5. ASSUME NEW m \in Nat, m \in S PROVE m + 1 \in S
  <2> SUFFICES ASSUME m + 1 <= n PROVE Ok(R[m + 1], m + 1)
    OBVIOUS
  <2>1. m + 1 \in 1 .. n /\ (m + 1) - 1 = m /\ m < n /\ Ok(R[m], m)
    BY <1>0, <1>5
  <2>2. R[m + 1] = ConstantStep(R[m], exprs[m + 1], size)
    BY <1>1, <2>1
  <2> QED
    BY <1>3, <2>1, <2>2
<1> HIDE DEF S
<1>6. n \in S
  BY <1>0, <1>4, <1>5, Induction
<1>7. Ok(R[n], n)
  BY <1>0, <1>6 DEF S
<1> QED
  BY <1>1, <1>7 DEF Ok, n

(***************************************************************************)
(* The outcome of a line, in either pass.                                  *)
(***************************************************************************)
\* What the values of the expressions of the line that the visitor is at come to.
OutcomesHere == {Value(e[1], e[2]).status : e \in ExprsAt(at)}

LEMMA OutcomesAre ==
  ASSUME Replayed, Upwards(tree), KeptBy(Layout)
  PROVE  /\ pass = 0 => OutcomesHere = FirstOutcomes(at)
         /\ pass = 1 => OutcomesHere = Outcomes(at)
<1>1. ASSUME pass = 0 PROVE OutcomesHere = FirstOutcomes(at)
  <2>1. ASSUME NEW expr, NEW here
        PROVE  Value(expr, here) = Evaluate(expr, FALSE, here, [name \in NamesIn(expr) |-> 0])
    <3>1. [name \in NamesIn(expr) |-> AddressOf(name)] = [name \in NamesIn(expr) |-> 0]
      BY <1>1 DEF AddressOf
    <3>2. (pass = 1) = FALSE
      BY <1>1
    <3> QED
      BY <3>1, <3>2, Zenon DEF Value
  <2> QED
    BY <2>1, Zenon DEF OutcomesHere, FirstOutcomes
<1>2. ASSUME pass = 1 PROVE OutcomesHere = Outcomes(at)
  <2>1. TablesAre(tree, Labels, Layout)
    BY <1>2 DEF KeptBy
  <2>2. \A expr, here : Value(expr, here) = ValueIn(at, expr, here)
    BY <1>2, <2>1, ValuesAre
  <2> QED
    BY <2>2, Zenon DEF OutcomesHere, Outcomes
<1> QED
  BY <1>1, <1>2

\* In the first pass there is no error.
LEMMA FirstOutcomeIsNoError ==
  ASSUME NEW i \in Lines, IsLine(source[i])
  PROVE  "error" \notin FirstOutcomes(i)
<1>1. ASSUME NEW e \in ExprsAt(i) PROVE IsExpr(e[1])
  <2>1. CASE source[i].kind \in {".org", ".space", "instr"}
    <3>1. e = <<source[i].expr, Layout[i]>>
      BY <2>1 DEF ExprsAt
    <3>2. IsExpr(source[i].expr)
      BY <2>1, Zenon DEF IsLine
    <3> QED
      BY <3>1, <3>2
  <2>2. CASE source[i].kind = ".db"
    <3>1. PICK k \in DOMAIN source[i].exprs :
            e = <<source[i].exprs[k], Layout[i] + source[i].size * (k - 1)>>
      BY <2>2 DEF ExprsAt
    <3>2. IsExpr(source[i].exprs[k])
      BY <2>2, Zenon DEF IsLine
    <3> QED
      BY <3>1, <3>2
  <2>3. CASE source[i].kind \notin {".org", ".space", "instr", ".db"}
    BY <2>3 DEF ExprsAt
  <2> QED
    BY <2>1, <2>2, <2>3
<1> SUFFICES ASSUME NEW e \in ExprsAt(i),
               Evaluate(e[1], FALSE, e[2], [name \in NamesIn(e[1]) |-> 0]).status = "error"
             PROVE  FALSE
  BY Zenon DEF FirstOutcomes
<1> QED
  BY <1>1, NoErrorAtFirst

Failures == {"error", "crashed"}

\* What ends the program at a line with expressions, if anything does: one of its
\* values, or the instruction.
LEMMA ValuesJudged ==
  ASSUME Replayed, at \in Lines, IsLine(source[at]), KeptBy(Layout), Layout[at] \in Int,
         status = "running",
         VisitInstruction \/ VisitDotOrg \/ VisitDotSpace \/ VisitDotDb
  PROVE  \/ ~Ends /\ OutcomesHere \cap Failures = {}
         \/ Ends /\ status' \in OutcomesHere
         \/ /\ source[at].kind = "instr" /\ status' = "error"
            /\ Eek(source[at].text)
         \/ /\ source[at].kind = "instr" /\ status' = "crashed"
            /\ ~Eek(source[at].text) /\ LookupThrows(source[at].text)
<1>1. pc.curr = Layout[at]
  BY DEF KeptBy
<1> DEFINE value == Value(source[at].expr, pc.curr)
<1>2. ASSUME source[at].kind \in {".org", ".space", "instr"}
      PROVE  OutcomesHere = {value.status}
  <2>1. ExprsAt(at) = {<<source[at].expr, pc.curr>>}
    BY <1>1, <1>2 DEF ExprsAt
  <2> HIDE DEF value
  <2>2. \A a, b : {Value(e[1], e[2]).status : e \in {<<a, b>>}} = {Value(a, b).status}
    OBVIOUS
  <2> QED
    BY <2>1, <2>2 DEF OutcomesHere, value
<1>3. ASSUME NEW how PROVE how \in Failures <=> how \in {"error", "crashed"}
  BY DEF Failures
<1>4. CASE VisitDotOrg \/ VisitDotSpace
  <2>1. OutcomesHere = {value.status}
    <3>1. source[at].kind \in {".org", ".space", "instr"}
      BY <1>4 DEF VisitDotOrg, VisitDotSpace, OnLine, Line
    <3> QED
      BY <1>2, <3>1
  <2>2. \/ Failed(value) /\ status' = value.status
        \/ ~Failed(value) /\ status' = status
    BY <1>4 DEF VisitDotOrg, VisitDotSpace, MovePc, Line, Exit, Continue
  <2> HIDE DEF value
  <2> QED
    BY <2>1, <2>2 DEF Failed, Ends, Failures
<1>5. CASE VisitInstruction
  <2>1. source[at].kind = "instr"
    BY <1>5 DEF VisitInstruction, OnLine, Line
  <2>2. OutcomesHere = {value.status}
    BY <1>2, <2>1
  <2>3. \/ Eek(source[at].text) /\ status' = "error"
        \/ ~Eek(source[at].text) /\ LookupThrows(source[at].text) /\ status' = "crashed"
        \/ Failed(value) /\ status' = value.status
        \/ ~Failed(value) /\ status' = status
    BY <1>5, Zenon DEF VisitInstruction, Line, Exit, Continue
  <2> HIDE DEF value
  <2> QED
    BY <2>1, <2>2, <2>3 DEF Failed, Ends, Failures
<1>6. CASE VisitDotDb
  <2> DEFINE exprs == source[at].exprs
             size == source[at].size
             n == Len(exprs)
             V == [k \in 1 .. n |-> Value(exprs[k], pc.curr + size * (k - 1))]
             end == GenConstants(exprs, size)
  <2>1. /\ source[at].kind = ".db"
        /\ IF Failed(end) THEN status' = end.status ELSE status' = status
    BY <1>6 DEF VisitDotDb, OnLine, Line, Continue
  <2>2. n \in Nat /\ size \in {1, 2, 4} /\ DOMAIN exprs = 1 .. n
    BY <2>1, Zenon DEF IsLine
  <2>3. OutcomesHere = {V[k].status : k \in 1 .. n}
    <3>1. ExprsAt(at) = {<<exprs[k], pc.curr + size * (k - 1)>> : k \in 1 .. n}
      BY <1>1, <2>1, <2>2 DEF ExprsAt
    <3>2. \A k \in 1 .. n : V[k] = Value(exprs[k], pc.curr + size * (k - 1))
      OBVIOUS
    <3>3. \A a, b : <<a, b>>[1] = a /\ <<a, b>>[2] = b
      OBVIOUS
    <3> HIDE DEF exprs, size, n, V
    <3> DEFINE addr(k) == pc.curr + size * (k - 1)
    <3>4. OutcomesHere = {Value(exprs[k], addr(k)).status : k \in 1 .. n}
      <4>1. ExprsAt(at) = {<<exprs[k], addr(k)>> : k \in 1 .. n}
        BY <3>1
      <4> HIDE DEF addr
      <4>2. ASSUME NEW x \in OutcomesHere
            PROVE  \E k \in 1 .. n : x = Value(exprs[k], addr(k)).status
        <5>1. PICK e \in ExprsAt(at) : x = Value(e[1], e[2]).status
          BY DEF OutcomesHere
        <5>2. PICK k \in 1 .. n : e = <<exprs[k], addr(k)>>
          BY <4>1
        <5>3. e[1] = exprs[k] /\ e[2] = addr(k)
          BY <3>3, <5>2, Zenon
        <5> QED
          BY <5>1, <5>3, Zenon
      <4>3. ASSUME NEW k \in 1 .. n PROVE Value(exprs[k], addr(k)).status \in OutcomesHere
        <5> DEFINE e == <<exprs[k], addr(k)>>
        <5>1. e \in ExprsAt(at) /\ e[1] = exprs[k] /\ e[2] = addr(k)
          BY <3>3, <4>1
        <5> HIDE DEF e
        <5>2. Value(e[1], e[2]).status \in OutcomesHere
          BY <5>1, Zenon DEF OutcomesHere
        <5> QED
          BY <5>1, <5>2, Zenon
      <4> QED
        BY <4>2, <4>3
    <3> DEFINE W(k) == Value(exprs[k], addr(k)).status
    <3>5. OutcomesHere = {W(k) : k \in 1 .. n} /\ \A k \in 1 .. n : V[k].status = W(k)
      BY <3>2, <3>4, Zenon
    <3> HIDE DEF W
    <3> QED
      BY <3>5
  <2>4. pc.curr \in Int
    BY <1>1
  <2> HIDE DEF exprs, size
  <2>5. \/ end.status = "running" /\ \A k \in 1 .. n : ~Failed(V[k])
        \/ \E k \in 1 .. n : Failed(V[k]) /\ end.status = V[k].status
    BY <2>2, <2>4, ConstantsJudged
  <2> HIDE DEF end, V, n
  <2> QED
    BY <2>1, <2>3, <2>5 DEF Failed, Ends, Failures
<1> QED
  BY <1>4, <1>5, <1>6

\* A label ends the program if it comes twice in a scope, and nothing else does.
LEMMA LabelJudged ==
  ASSUME Replayed, NEW A, KeptBy(A), VisitLabel
  PROVE  /\ at \in Labels
         /\ Ends => status' = "error" /\ Twice
         /\ pass = 0 /\ ~Ends =>
              \A d \in LabelsBefore(at) :
                source[d].name = source[at].name => ScopeOf(d) # ScopeOf(at)
<1> DEFINE name == source[at].name
<1>1. at \in Labels /\ Line.name = name /\ status = "running"
  BY DEF VisitLabel, OnLine, Line, Labels, LinesOf, Lines
<1>2. WellNested /\ at \in Places /\ curr_scope_node = Home(at)
  BY DEF Replayed, Home
<1>3. ASSUME pass = 0
      PROVE  /\ TreeOf(tree, at) /\ TablesAre(tree, LabelsBefore(at), A)
             /\ ScopeOf(at) \in Before(at)
             /\ Home(at) \in 1 .. Len(tree) /\ Home(at) # NullPtr
  <2>1. TreeOf(tree, at) /\ TablesAre(tree, LabelsBefore(at), A)
    BY <1>3 DEF Replayed, KeptBy
  <2>2. ScopeOf(at) \in Before(at)
    BY <1>2, Scopes DEF Before
  <2> QED
    BY <1>2, <2>1, <2>2, InTree DEF TreeOf, Home, NullPtr
<1>4. pass = 0 => FindInThisBlkLev(tree, curr_scope_node, name) =
                    IF name \in DOMAIN tree[Home(at)].table THEN Home(at) ELSE NullPtr
  BY <1>2 DEF FindInThisBlkLev
<1>5. ASSUME DuplicateLabel
      PROVE  Twice
  <2>1. pass = 0 /\ name \in DOMAIN tree[Home(at)].table
    BY <1>1, <1>4, <1>5 DEF DuplicateLabel
  <2>2. PICK d \in LabelsBefore(at) : source[d].name = name /\ Home(d) = Home(at)
    BY <1>3, <2>1 DEF TablesAre
  <2>3. ScopeOf(d) \in Before(at)
    BY <1>2, <1>3, <2>1, HomeIs
  <2>4. ScopeOf(d) = ScopeOf(at)
    BY <1>2, <1>3, <2>1, <2>2, <2>3, InTree DEF Home
  <2>5. d \in LinesOf("label") /\ d < at
    BY DEF LabelsBefore
  <2> QED
    BY <1>1, <2>2, <2>4, <2>5 DEF Twice, Labels
<1>6. ASSUME ~DuplicateLabel, pass = 0, NEW d \in LabelsBefore(at),
             source[d].name = name, ScopeOf(d) = ScopeOf(at)
      PROVE  FALSE
  <2>1. Home(d) = Home(at)
    BY <1>6 DEF Home
  <2>2. Holds(tree[Home(at)].table, name, A[d])
    BY <1>3, <1>6, <2>1 DEF TablesAre
  <2>3. name \in DOMAIN tree[Home(at)].table /\ tree[Home(at)].table[name].found_as_label
    BY <2>2 DEF Holds, Entry
  <2> QED
    BY <1>1, <1>2, <1>3, <1>4, <1>6, <2>3 DEF DuplicateLabel
<1>7. IF DuplicateLabel THEN status' = "error" ELSE status' = status
  BY DEF VisitLabel, Exit, Continue
<1> QED
  BY <1>1, <1>5, <1>6, <1>7 DEF Ends

\* A brace or a label has no values, and braces end no program.
LEMMA OthersJudged ==
  /\ EnterScope \/ LeaveScope \/ VisitLabel => OutcomesHere = {}
  /\ EnterScope \/ LeaveScope => ~Ends
<1>1. ASSUME EnterScope \/ LeaveScope \/ VisitLabel
      PROVE  ExprsAt(at) = {}
  <2>1. \E kind \in {"{", "}", "label"} : OnLine(kind)
    BY <1>1, Zenon DEF EnterScope, LeaveScope, VisitLabel
  <2>2. source[at].kind \notin {".org", ".space", ".db", "instr"}
    BY <2>1, OtherKinds
  <2> QED
    BY <2>2 DEF ExprsAt
<1>2. ExprsAt(at) = {} => OutcomesHere = {}
  BY DEF OutcomesHere
<1>3. EnterScope \/ LeaveScope => status = "running" /\ status' = status
  BY OnRunning DEF EnterScope, LeaveScope, Continue
<1> QED
  BY <1>1, <1>2, <1>3 DEF Ends

(***************************************************************************)
(* What has been found right of the lines before the visitor, and what is  *)
(* wrong when the program has ended.                                       *)
(***************************************************************************)
\* No two labels of a name before place l are in one scope.
Distinct(l) ==
  \A d, e \in Labels :
    d < e /\ e < l /\ source[d].name = source[e].name => ScopeOf(d) # ScopeOf(e)

NoCrash(i) == "crashed" \notin FirstOutcomes(i)
NoFailure(i) == Outcomes(i) \cap Failures = {}

Passed ==
  /\ ~SyntaxError(source)
  /\ \A i \in Lines : (pass = 0 => i < at) => NoCrash(i)
  /\ Distinct(IF pass = 0 THEN at ELSE End)
  /\ pass = 1 => \A i \in Lines : i < at => NoFailure(i)

Judged ==
  /\ status \in {"running", "done"} => Passed
  /\ status = "done" => pass = 1 /\ at = End
  /\ status = "error" => Erroneous \/ Unwritten
  /\ status = "crashed" => Crashing

LEMMA StillJudged ==
  ASSUME source' = source
  PROVE  /\ Lines' = Lines /\ End' = End
         /\ \A i : (NoCrash(i)' <=> NoCrash(i)) /\ (NoFailure(i)' <=> NoFailure(i))
         /\ \A l : Distinct(l)' <=> Distinct(l)
         /\ SyntaxError(source)' <=> SyntaxError(source)
         /\ (Erroneous' <=> Erroneous) /\ (Unwritten' <=> Unwritten)
         /\ (Crashing' <=> Crashing)
<1>1. Layout' = Layout
  BY DEF Layout, Candidates, Meaning, ScopeOf, Around, Depth, LinesOf, Lines
<1>2. \A i, name : AddressOfMeaning(i, name)' = AddressOfMeaning(i, name)
  BY <1>1 DEF AddressOfMeaning, Candidates, Meaning, ScopeOf, Around, Depth, LinesOf, Lines
<1>3. \A i, expr, here : ValueIn(i, expr, here)' = ValueIn(i, expr, here)
  BY <1>2 DEF ValueIn
<1>4. \A i : ExprsAt(i)' = ExprsAt(i)
  BY <1>1 DEF ExprsAt
<1>5. \A i : Outcomes(i)' = Outcomes(i) /\ FirstOutcomes(i)' = FirstOutcomes(i)
  BY <1>3, <1>4 DEF Outcomes, FirstOutcomes
<1>6. /\ Lines' = Lines /\ End' = End
      /\ \A kind : LinesOf(kind)' = LinesOf(kind)
      /\ \A i : ScopeOf(i)' = ScopeOf(i)
  BY DEF Lines, End, LinesOf, ScopeOf, Around, Depth
<1>7. Twice' <=> Twice
  BY <1>6 DEF Twice
<1>8. \A l : Distinct(l)' <=> Distinct(l)
  BY <1>6 DEF Distinct, Labels
<1>9. SyntaxError(source)' <=> SyntaxError(source)
  BY DEF SyntaxError
<1> QED
  BY <1>5, <1>6, <1>7, <1>8, <1>9 DEF NoCrash, NoFailure, Erroneous, Unwritten, Crashing

LEMMA ParseJudged ==
  ASSUME Replayed, Replayed', Parse
  PROVE  Judged'
<1>1. /\ pass' = 0 /\ at' = 1
      /\ status' = IF SyntaxError(source') THEN "error" ELSE "running"
  BY DEF Parse, Replayed
<1>2. (\A i \in Lines : i \in Nat /\ i >= 1)'
  BY DEF Replayed, WellNested, Finite
<1>3. ASSUME SyntaxError(source') PROVE Erroneous' \/ Unwritten'
  <2>1. CASE OpenAt(source', Len(source')) # 0
    BY <2>1 DEF Erroneous
  <2>2. CASE \E i \in DOMAIN source' : source'[i].kind = "stray"
    BY <2>2 DEF Erroneous, LinesOf, Lines
  <2>3. CASE \E i \in DOMAIN source' :
               source'[i].kind = "instr" /\ ~InGrammar(source'[i].text)
    <3>1. PICK i \in DOMAIN source' :
            source'[i].kind = "instr" /\ ~InGrammar(source'[i].text)
      BY <2>3
    <3>2. Unknown(source'[i].text) \/ Unwritable(source'[i].text)
      BY <3>1, AcceptedIsInGrammar DEF Accepted, Unknown
    <3>3. (\E j \in LinesOf("instr") :
             Unknown(source[j].text) \/ Unwritable(source[j].text))'
      BY <3>1, <3>2 DEF LinesOf, Lines
    <3> QED
      BY <3>3 DEF Erroneous, Unwritten
  <2> QED
    BY <1>3, <2>1, <2>2, <2>3, Zenon DEF SyntaxError
<1>4. ASSUME ~SyntaxError(source') PROVE Passed'
  <2>1. (\A i \in Lines : ~(i < 1))'
    BY <1>2
  <2>2. Distinct(1)'
    BY <1>2 DEF Distinct, Labels, LinesOf
  <2> QED
    BY <1>1, <1>4, <2>1, <2>2 DEF Passed
<1> QED
  BY <1>1, <1>3, <1>4 DEF Judged

LEMMA LineJudged ==
  ASSUME Replayed, Kept, Placed, Known, Judged, InMemory, status = "running",
         EnterScope \/ LeaveScope \/ VisitLabel \/ VisitInstruction \/ VisitDotOrg
           \/ VisitDotSpace \/ VisitDotDb
  PROVE  Judged'
<1>1. /\ WellNested /\ Finite /\ at \in Places /\ pass \in {0, 1}
      /\ Upwards(tree) /\ KeptBy(Layout) /\ Layout[at] \in Int
      /\ Passed
  BY InPlace DEF Replayed, Kept, Placed, Judged, WellNested
<1>2. at \in Lines /\ IsLine(source[at])
  <2>1. \E kind : OnLine(kind)
    BY Zenon DEF EnterScope, LeaveScope, VisitLabel, VisitInstruction, VisitDotOrg,
                 VisitDotSpace, VisitDotDb
  <2>2. at \in Lines
    BY <2>1 DEF OnLine, Lines
  <2> QED
    BY <2>2 DEF Known
<1>3. /\ pass = 0 => OutcomesHere = FirstOutcomes(at)
      /\ pass = 1 => OutcomesHere = Outcomes(at)
  BY <1>1, OutcomesAre
<1>4. UNCHANGED <<source, pass>> /\ (~Ends => status' = status /\ at' = at + 1)
  BY LineGoesOn
<1>5. CASE Ends
  <2>1. CASE status' \in OutcomesHere
    <3>1. pass = 0 => status' = "crashed"
      BY <1>2, <1>3, <1>5, <2>1, FirstOutcomeIsNoError DEF Ends
    <3>2. status' \in Outcomes(at) \/ (status' = "crashed" /\ status' \in FirstOutcomes(at))
      BY <1>1, <1>3, <2>1, <3>1
    <3>3. (status' = "error" => Erroneous) /\ (status' = "crashed" => Crashing)
      BY <1>2, <3>2 DEF Erroneous, Crashing
    <3> QED
      BY <1>4, <1>5, <3>3, StillJudged DEF Judged, Ends
  <2>2. CASE source[at].kind = "instr" /\ status' = "error" /\ Eek(source[at].text)
    <3>1. Unknown(source[at].text) \/ Unwritable(source[at].text)
      BY <2>2, AcceptedIsVisited DEF Accepted, Unknown
    <3>2. Erroneous \/ Unwritten
      BY <1>2, <2>2, <3>1 DEF Erroneous, Unwritten, LinesOf
    <3> QED
      BY <1>4, <2>2, <3>2, StillJudged DEF Judged
  <2>3. CASE /\ source[at].kind = "instr" /\ status' = "crashed"
             /\ ~Eek(source[at].text) /\ LookupThrows(source[at].text)
    <3>1. InGrammar(source[at].text)
      BY <1>1, <1>2, <2>3 DEF Passed, SyntaxError, Lines
    <3>2. Misspelled(source[at].text)
      BY <2>3, <3>1, TakenIsAccepted, OnlyMisspelledThrow
    <3>3. Crashing
      BY <1>2, <2>3, <3>2 DEF Crashing, LinesOf
    <3> QED
      BY <1>4, <2>3, <3>3, StillJudged DEF Judged
  <2>4. CASE VisitLabel
    <3>1. status' = "error" /\ Twice
      BY <1>1, <1>5, <2>4, LabelJudged
    <3>2. Erroneous
      BY <3>1 DEF Erroneous
    <3> QED
      BY <1>4, <3>1, <3>2, StillJudged DEF Judged
  <2> QED
    BY <1>1, <1>2, <1>5, <2>1, <2>2, <2>3, <2>4, OthersJudged, ValuesJudged
<1>6. CASE ~Ends
  <2>1. OutcomesHere \cap Failures = {}
    BY <1>1, <1>2, <1>6, ValuesJudged, OthersJudged DEF Ends
  <2>2. /\ pass = 0 => NoCrash(at)
        /\ pass = 1 => NoFailure(at)
    BY <1>3, <2>1 DEF NoCrash, NoFailure, Failures
  <2>3. at \in Int /\ \A i \in Lines : i \in Int /\ (i < at + 1 => i < at \/ i = at)
    BY <1>1, <1>2 DEF Finite
  <2>4. /\ \A i \in Lines : (pass = 0 => i < at + 1) => NoCrash(i)
        /\ pass = 1 => \A i \in Lines : i < at + 1 => NoFailure(i)
    BY <1>1, <2>2, <2>3 DEF Passed
  <2>5. Distinct(IF pass = 0 THEN at + 1 ELSE End)
    <3>1. CASE pass = 0
      <4>1. Distinct(at)
        BY <1>1, <3>1 DEF Passed
      <4>2. ASSUME at \in Labels, NEW d \in Labels, d < at, source[d].name = source[at].name
            PROVE  ScopeOf(d) # ScopeOf(at)
        <5>1. VisitLabel
          <6>1. source[at].kind = "label"
            BY <4>2 DEF Labels, LinesOf
          <6>2. "{" # "label" /\ "}" # "label" /\ "instr" # "label" /\ ".org" # "label"
                /\ ".space" # "label" /\ ".db" # "label"
            BY Zenon
          <6>3. \A kind : OnLine(kind) => kind = "label"
            BY <6>1, Zenon DEF OnLine, Line
          <6> QED
            BY <6>2, <6>3, Zenon DEF EnterScope, LeaveScope, VisitInstruction, VisitDotOrg,
               VisitDotSpace, VisitDotDb
        <5>2. d \in LabelsBefore(at)
          BY <4>2 DEF LabelsBefore, Labels
        <5> QED
          BY <1>1, <1>6, <3>1, <4>2, <5>1, <5>2, LabelJudged
      <4>3. \A e \in Labels : e \in Lines
        BY DEF Labels, LinesOf
      <4>4. Distinct(at + 1)
        BY <2>3, <4>1, <4>2, <4>3 DEF Distinct
      <4> QED
        BY <3>1, <4>4
    <3>2. CASE pass # 0
      BY <1>1, <3>2 DEF Passed
    <3> QED
      BY <3>1, <3>2
  <2>6. Passed'
    BY <1>1, <1>4, <1>6, <2>4, <2>5, StillJudged DEF Passed
  <2> QED
    BY <1>4, <1>6, <2>6 DEF Judged
<1> QED
  BY <1>5, <1>6

LEMMA EndJudged ==
  ASSUME Replayed, Judged, EndOfPass
  PROVE  Judged'
<1>1. /\ Finite /\ pass \in {0, 1} /\ at = End /\ status = "running" /\ Passed
      /\ source' = source
  BY DEF Replayed, WellNested, EndOfPass, Judged, End, Input
<1>2. \A i \in Lines : i < End /\ ~(i < 1)
  BY <1>1 DEF Finite, End
<1>3. /\ \A i \in Lines : NoCrash(i)
      /\ pass = 1 => \A i \in Lines : NoFailure(i)
      /\ Distinct(End) /\ ~SyntaxError(source)
  BY <1>1, <1>2 DEF Passed
<1>4. \/ pass = 0 /\ pass' = 1 /\ at' = 1 /\ status' = "running"
      \/ pass = 1 /\ pass' = 1 /\ at' = End /\ status' = "done"
  BY <1>1 DEF EndOfPass
<1>5. Passed'
  BY <1>1, <1>2, <1>3, <1>4, StillJudged DEF Passed
<1> QED
  BY <1>1, <1>4, <1>5, StillJudged DEF Judged

\* When the program has finished, nothing was wrong.
LEMMA JudgedRight ==
  ASSUME Replayed, Known, Judged
  PROVE  RejectsExactly
<1> SUFFICES ASSUME status = "done" PROVE ~Erroneous
  BY DEF Judged, RejectsExactly
<1>1. /\ Passed /\ pass = 1 /\ at = End /\ Finite
  BY DEF Judged, Replayed, WellNested
<1>2. \A i \in Lines : i < End
  BY <1>1 DEF Finite, End
<1>3. ASSUME NEW i \in LinesOf("instr")
      PROVE  ~Unknown(source[i].text)
  <2>1. /\ i \in Lines /\ source[i].kind = "instr"
        /\ ~Eek(source[i].text) /\ ~LookupThrows(source[i].text)
    BY <1>1 DEF LinesOf, Known, KnownLine
  <2>2. InGrammar(source[i].text)
    BY <1>1, <2>1 DEF Passed, SyntaxError, Lines
  <2> QED
    BY <2>1, <2>2, TakenIsAccepted, OnlyMisspelledThrow DEF Accepted, Unknown
<1>4. ~Twice
  <2>1. \A d \in Labels : d < End
    BY <1>2 DEF Labels, LinesOf
  <2> QED
    BY <1>1, <2>1 DEF Passed, Distinct, Twice, Labels
<1>5. \A i \in Lines : Outcomes(i) \cap {"error", "crashed"} = {}
  BY <1>1, <1>2 DEF Passed, NoFailure, Failures
<1>6. OpenAt(source, Len(source)) = 0 /\ LinesOf("stray") = {}
  BY <1>1 DEF Passed, SyntaxError, LinesOf, Lines
<1> QED
  BY <1>3, <1>4, <1>5, <1>6, Zenon DEF Erroneous

\* The assembler finishes with no file that has an error; it ends with an error only
\* for those and for the instructions that cannot be written, and is killed only for
\* the files that Crashing lists: whatever the parser, the visitors, the tables and
\* both passes look at comes to the same as one look at the source
\* (Assembler::Assembler, run, visitLabel, visitInstruction, visitExprMulDivModEtc
\* of assembler_class.cpp).
THEOREM RejectsTheErroneous ==
  ASpec /\ [](Unshadowed /\ NamelessMoves /\ InMemory) => []RejectsExactly
<1>1. AInit => Judged
  BY DEF AInit, AStart, Judged
<1>2. ASSUME Standing, Judged, Laid, Laid', [ANext]_avars
      PROVE  Judged'
  <2>1. Standing'
    BY <1>2, StepStands
  <2>2. CASE Parse
    BY <1>2, <2>1, <2>2, ParseJudged DEF Standing
  <2>3. CASE EnterScope \/ LeaveScope \/ VisitLabel \/ VisitInstruction \/ VisitDotOrg
               \/ VisitDotSpace \/ VisitDotDb
    <3>1. status = "running"
      BY <2>3, OnRunning DEF EnterScope, LeaveScope, VisitLabel, VisitInstruction,
         VisitDotOrg, VisitDotSpace, VisitDotDb
    <3> QED
      BY <1>2, <2>3, <3>1, LineJudged DEF Standing, Laid
  <2>4. CASE EndOfPass
    BY <1>2, <2>4, EndJudged DEF Standing
  <2>5. CASE UNCHANGED avars
    BY <1>2, <2>5, StillJudged DEF Judged, Passed, avars
  <2> QED
    BY <1>2, <2>2, <2>3, <2>4, <2>5 DEF ANext
<1>3. AInit /\ Laid => Standing
  BY StartsStanding
<1>4. Standing /\ Laid /\ Laid' /\ [ANext]_avars => Standing'
  BY StepStands
<1>5. Standing /\ Judged => RejectsExactly
  BY JudgedRight DEF Standing
<1> HIDE DEF Laid, Standing, Judged
<1>6. ASpec /\ []Laid => []RejectsExactly
  BY <1>1, <1>2, <1>3, <1>4, <1>5, PTL DEF ASpec
<1>7. [](Unshadowed /\ NamelessMoves /\ InMemory) => []Laid
  BY PTL DEF Laid
<1> QED
  BY <1>6, <1>7, PTL

(***************************************************************************)
(* The word at an instruction's address.                                   *)
(***************************************************************************)
Wide == 4294967296

\* Two more digits behind a number of at most six.
Digits4(x) == x \in Nat /\ x < 65536
Digits6(x) == x \in Nat /\ x < 16777216

LEMMA ShiftedIn ==
  ASSUME NEW x, Digits6(x), NEW b \in Byte
  PROVE  /\ Digits4(x) => ShiftIn(ShiftIn(x, b \div 16), b % 16) = x * 256 + b
         /\ ShiftIn(ShiftIn(x, b \div 16), b % 16)
              \in {x * 256 + b, (x * 256 + b) - Wide}
<1> DEFINE Small(t) == t \in Nat /\ t < 134217728
           Large(t) == t \in Nat /\ t >= 134217728 /\ t < 268435456
<1>1. 2 ^ 27 = 134217728 /\ 2 ^ 28 = 268435456
  BY Powers, SMT
<1>2. ASSUME NEW t, NEW d \in 0 .. 15, Small(t) PROVE ShiftIn(t, d) = t * 16 + d
  BY <1>1, <1>2, SMT DEF ShiftIn
<1>3. ASSUME NEW t, NEW d \in 0 .. 15, Large(t) PROVE ShiftIn(t, d) = (t * 16 + d) - Wide
  BY <1>1, <1>3, SMT DEF ShiftIn, Wide
<1> DEFINE c == b \div 16
           d == b % 16
<1>4. c \in 0 .. 15 /\ d \in 0 .. 15 /\ b = 16 * c + d
  BY SMT DEF Byte
<1> HIDE DEF c, d
<1> DEFINE y == x * 16 + c
<1>5. Small(x)
  BY SMT DEF Digits6
<1>6. /\ Small(y) \/ Large(y)
      /\ Digits4(x) => Small(y)
  BY <1>4, SMT DEF Digits4, Digits6
<1>7. x * 256 + b = y * 16 + d
  BY <1>4, SMT DEF Digits6, Byte
<1>8. y \in Int
  BY <1>4, SMT DEF Digits6
<1> HIDE DEF Small, Large
<1>9. ShiftIn(x, c) = y
  BY <1>2, <1>4, <1>5
<1> HIDE DEF y
<1>10. /\ Small(y) => ShiftIn(y, d) = y * 16 + d
       /\ Large(y) => ShiftIn(y, d) = (y * 16 + d) - Wide
  BY <1>2, <1>3, <1>4, Zenon
<1>11. Digits4(x) => ShiftIn(ShiftIn(x, c), d) = x * 256 + b
  BY <1>6, <1>7, <1>9, <1>10, SMT
<1>12. ShiftIn(ShiftIn(x, c), d) \in {x * 256 + b, (x * 256 + b) - Wide}
  <2>1. ShiftIn(y, d) = x * 256 + b \/ ShiftIn(y, d) = (x * 256 + b) - Wide
    BY <1>6, <1>7, <1>10
  <2> QED
    BY <1>9, <2>1, Zenon
<1> QED
  BY <1>11, <1>12, SMT DEF c, d
\* The bytes of a word, first to last.
WordOf(b, c, d, e) == ((b * 256 + c) * 256 + d) * 256 + e

LEMMA BytesRead ==
  ASSUME NEW b \in Byte, NEW c \in Byte, NEW d \in Byte, NEW e \in Byte
  PROVE  LET digits == TwoDigits(b) \o TwoDigits(c) \o TwoDigits(d) \o TwoDigits(e)
         IN HexValue(digits) \in {WordOf(b, c, d, e), WordOf(b, c, d, e) - Wide}
<1> DEFINE x == TwoDigits(b)
           y == TwoDigits(c)
           z == TwoDigits(d)
           w == TwoDigits(e)
           digits == x \o y \o z \o w
           Two(s, n) == s \in Seq(Nat) /\ Len(s) = 2 /\ s[1] = n \div 16 /\ s[2] = n % 16
<1>1. Two(x, b) /\ Two(y, c) /\ Two(z, d) /\ Two(w, e)
  BY DigitsOfByte
<1> HIDE DEF x, y, z, w
<1>2. x \in Seq(Nat) /\ y \in Seq(Nat) /\ z \in Seq(Nat) /\ w \in Seq(Nat)
      /\ Len(x) = 2 /\ Len(y) = 2 /\ Len(z) = 2 /\ Len(w) = 2
  BY <1>1
<1> DEFINE p == x \o y
           q == p \o z
<1>3. /\ p \in Seq(Nat) /\ Len(p) = 4
      /\ p[1] = x[1] /\ p[2] = x[2] /\ p[3] = y[1] /\ p[4] = y[2]
  BY <1>2, JoinTwos
<1> HIDE DEF p
<1>4. /\ q \in Seq(Nat) /\ Len(q) = 6
      /\ q[1] = p[1] /\ q[2] = p[2] /\ q[3] = p[3] /\ q[4] = p[4]
      /\ q[5] = z[1] /\ q[6] = z[2]
  BY <1>2, <1>3, JoinFourTwo
<1> HIDE DEF q
<1> DEFINE r == q \o w
<1>5. /\ r \in Seq(Nat) /\ Len(r) = 8
      /\ r[1] = q[1] /\ r[2] = q[2] /\ r[3] = q[3] /\ r[4] = q[4]
      /\ r[5] = q[5] /\ r[6] = q[6] /\ r[7] = w[1] /\ r[8] = w[2]
  BY <1>2, <1>4, JoinSixTwo
<1>6. digits = r
  BY DEF p, q
<1> HIDE DEF r, digits
<1>7. PICK R : /\ R[0] = 0
               /\ \A i \in 1 .. 8 : R[i] = ShiftIn(R[i - 1], r[i])
               /\ HexValue(r) = R[8]
  <2>1. Len(r) = 8 /\ 8 \in Nat
    BY <1>5
  <2> QED
    BY <2>1, HexValueOf, Zenon
<1>8. /\ R[1] = ShiftIn(R[0], r[1]) /\ R[2] = ShiftIn(R[1], r[2])
      /\ R[3] = ShiftIn(R[2], r[3]) /\ R[4] = ShiftIn(R[3], r[4])
      /\ R[5] = ShiftIn(R[4], r[5]) /\ R[6] = ShiftIn(R[5], r[6])
      /\ R[7] = ShiftIn(R[6], r[7]) /\ R[8] = ShiftIn(R[7], r[8])
  BY <1>7
<1> DEFINE Then(t, n) == ShiftIn(ShiftIn(t, n \div 16), n % 16)
<1>9. /\ R[2] = Then(0, b) /\ R[4] = Then(R[2], c)
      /\ R[6] = Then(R[4], d) /\ R[8] = Then(R[6], e)
  BY <1>1, <1>3, <1>4, <1>5, <1>7, <1>8
<1>10. \A t : \A n \in Byte : Digits6(t) => /\ Digits4(t) => Then(t, n) = t * 256 + n
                                           /\ Then(t, n) \in {t * 256 + n, (t * 256 + n) - Wide}
  BY ShiftedIn
<1> HIDE DEF Then
<1> DEFINE k == 0 * 256 + b
           l == k * 256 + c
           m == l * 256 + d
           n == m * 256 + e
<1>11. /\ Digits4(0) /\ Digits4(k) /\ Digits4(l) /\ Digits6(m)
       /\ Digits6(0) /\ Digits6(k) /\ Digits6(l)
  BY SMT DEF Digits4, Digits6, Byte
<1>12. n = WordOf(b, c, d, e)
  BY SMT DEF WordOf, Byte
<1> HIDE DEF k, l, m, n
<1>13. R[2] = k /\ R[4] = l /\ R[6] = m
  <2>1. R[2] = k
    BY <1>9, <1>10, <1>11 DEF k
  <2>2. R[4] = l
    BY <1>9, <1>10, <1>11, <2>1 DEF l
  <2> QED
    BY <1>9, <1>10, <1>11, <2>1, <2>2 DEF m
<1>14. R[8] \in {n, n - Wide}
  BY <1>9, <1>10, <1>11, <1>13 DEF n
<1> QED
  BY <1>6, <1>7, <1>12, <1>14, Zenon DEF digits, x, y, z, w

\* A word is its bytes.
LEMMA WordIsBytes ==
  ASSUME NEW e \in Int, e % 2 ^ 32 = e
  PROVE  LET bytes == Bytes(e, 4)
         IN WordOf(bytes[1], bytes[2], bytes[3], bytes[4]) = e
<1> DEFINE b == (e \div 16777216) % 256
           c == (e \div 65536) % 256
           d == (e \div 256) % 256
           l == e % 256
           bytes == Bytes(e, 4)
<1>1. bytes[1] = b /\ bytes[2] = c /\ bytes[3] = d /\ bytes[4] = l
  <2>1. /\ 2 ^ 24 = 16777216 /\ 2 ^ 16 = 65536 /\ 2 ^ 8 = 256 /\ 2 ^ 0 = 1
        /\ e \div 1 = e
    BY Powers, SMT
  <2>2. /\ 8 * (4 - 1) = 24 /\ 8 * (4 - 2) = 16 /\ 8 * (4 - 3) = 8 /\ 8 * (4 - 4) = 0
        /\ (24 + 7) - 24 + 1 = 8 /\ (16 + 7) - 16 + 1 = 8 /\ (8 + 7) - 8 + 1 = 8
        /\ (0 + 7) - 0 + 1 = 8
    BY SMT
  <2>3. /\ bytes[1] = Bits(e, 24 + 7, 24) /\ bytes[2] = Bits(e, 16 + 7, 16)
        /\ bytes[3] = Bits(e, 8 + 7, 8) /\ bytes[4] = Bits(e, 0 + 7, 0)
    <3>1. \A i \in 1 .. 4 : bytes[i] = Bits(e, 8 * (4 - i) + 7, 8 * (4 - i))
      BY SMT DEF Bytes
    <3> HIDE DEF bytes
    <3> QED
      BY <2>2, <3>1, SMT
  <2> HIDE DEF bytes
  <2> QED
    BY <2>1, <2>2, <2>3, SMT DEF Bits
<1>2. e \in Nat /\ e < 4294967296
  BY Powers, SMT
<1>3. WordOf(b, c, d, l) = e
  <2> DEFINE p == e \div 256
             q == e \div 65536
             r == e \div 16777216
  <2>1. p \in Nat /\ q \in Nat /\ r \in Nat /\ r < 256
    BY <1>2, SMT
  <2>2. p = 256 * q + d
    BY <1>2, SMT
  <2>3. q = 256 * r + c
    BY <1>2, SMT
  <2>4. r = b /\ e = 256 * p + l
    BY <1>2, <2>1, SMT
  <2>5. l \in Int /\ d \in Int /\ c \in Int /\ b \in Int
    BY SMT
  <2> HIDE DEF p, q, r, b, c, d, l
  <2> QED
    BY <2>1, <2>2, <2>3, <2>4, <2>5, SMT DEF WordOf
<1> HIDE DEF b, c, d, l, bytes
<1>4. WordOf(bytes[1], bytes[2], bytes[3], bytes[4]) = e
  BY <1>1, <1>3
<1> QED
  BY <1>4 DEF bytes

LEMMA FourBytes ==
  ASSUME NEW S, NEW bytes \in Seq(S), Len(bytes) = 4
  PROVE  bytes[1] \in S /\ bytes[2] \in S /\ bytes[3] \in S /\ bytes[4] \in S
OBVIOUS

\* What is read of the bytes of a word is the word, perhaps as a negative number.
LEMMA WordRead ==
  ASSUME NEW e \in Int, e % 2 ^ 32 = e
  PROVE  LET bytes == Bytes(e, 4)
             word  == HexValue(TwoDigits(bytes[1]) \o TwoDigits(bytes[2])
                                 \o TwoDigits(bytes[3]) \o TwoDigits(bytes[4]))
         IN word \in Int /\ word % 2 ^ 32 = e
<1> DEFINE bytes == Bytes(e, 4)
           word == HexValue(TwoDigits(bytes[1]) \o TwoDigits(bytes[2])
                              \o TwoDigits(bytes[3]) \o TwoDigits(bytes[4]))
<1>1. bytes \in Seq(Byte) /\ Len(bytes) = 4
  <2>1. 4 \in {1, 2, 4}
    OBVIOUS
  <2> QED
    BY <2>1, BytesAre, Zenon
<1>2. WordOf(bytes[1], bytes[2], bytes[3], bytes[4]) = e
  BY WordIsBytes
<1> HIDE DEF bytes
<1>3. bytes[1] \in Byte /\ bytes[2] \in Byte /\ bytes[3] \in Byte /\ bytes[4] \in Byte
  BY <1>1, FourBytes, Zenon
<1>4. word \in {e, e - Wide}
  <2>1. word \in {WordOf(bytes[1], bytes[2], bytes[3], bytes[4]),
                  WordOf(bytes[1], bytes[2], bytes[3], bytes[4]) - Wide}
    BY <1>3, BytesRead, Zenon
  <2> HIDE DEF word
  <2> QED
    BY <1>2, <2>1, Zenon
<1> HIDE DEF word
<1>5. word \in Int /\ word % 2 ^ 32 = e
  BY <1>4, Powers, SMT DEF Wide
<1> QED
  BY <1>5 DEF word, bytes

(***************************************************************************)
(* No line comes over an instruction.                                      *)
(***************************************************************************)
LEMMA ToldAlike ==
  ASSUME NEW i \in Lines, source[i].kind = "instr", IsLine(source[i])
  PROVE  Told(i).name = source[i].text.name /\ Told(i).args = source[i].text.args
<1> DEFINE t == source[i].text
           v == ValueIn(i, source[i].expr, Layout[i]).num
<1>1. t = Text(t.name, t.args, t.ra, t.rb, t.rc, t.imm)
  BY Zenon DEF IsLine
<1>2. Told(i) = [t EXCEPT !.imm = v]
  BY DEF Told
<1> HIDE DEF t, v
<1>3. DOMAIN t = {"name", "args", "ra", "rb", "rc", "imm"}
  <2> DEFINE a == t.name
             b == t.args
             c == t.ra
             d == t.rb
             e == t.rc
             f == t.imm
  <2>1. t = Text(a, b, c, d, e, f)
    BY <1>1
  <2> HIDE DEF a, b, c, d, e, f
  <2> QED
    BY <2>1 DEF Text
<1>4. [t EXCEPT !.imm = v].name = t.name /\ [t EXCEPT !.imm = v].args = t.args
  BY <1>3
<1> QED
  BY <1>2, <1>4 DEF t

\* A line of instructions or data goes as far as its parts.
LEMMA LineIsWide ==
  ASSUME WellNested, NamelessMoves, NEW i \in Lines, KnownLine(i),
         source[i].kind \in {"instr", ".db"}
  PROVE  Layout[i + 1] = Layout[i] + PartSize(i) * Parts(i)
<1>1. Layout[i + 1] = NextAddress(i, Layout[i])
  BY LayoutIs
<1>2. CASE source[i].kind = "instr"
  <2> DEFINE t == source[i].text
             told == Told(i)
  <2>1. told.name = t.name /\ told.args = t.args
    BY <1>2, ToldAlike DEF KnownLine
  <2>2. ~Eek(t)
    BY <1>2 DEF KnownLine
  <2> HIDE DEF told
  <2>3. ~Eek(told) /\ SizeOf(told) = SizeOf(t)
    BY <2>1, <2>2 DEF Eek, SizeOf
  <2>4. Len(Expand(told)) = Len(Expand(t))
    BY <2>2, <2>3, ExpandSize DEF Sized
  <2>5. Parts(i) = Len(Expand(told)) /\ PartSize(i) = 4
    BY <1>2 DEF Parts, PartSize, told
  <2>6. NextAddress(i, Layout[i]) = Layout[i] + 4 * Len(Expand(t))
    BY <1>2 DEF NextAddress
  <2> QED
    BY <1>1, <2>4, <2>5, <2>6
<1>3. CASE source[i].kind = ".db"
  <2>1. Parts(i) = Len(source[i].exprs) /\ PartSize(i) = source[i].size
    BY <1>3 DEF Parts, PartSize
  <2>2. NextAddress(i, Layout[i]) = Layout[i] + source[i].size * Len(source[i].exprs)
    BY <1>3 DEF NextAddress
  <2> QED
    BY <1>1, <2>1, <2>2
<1> QED
  BY <1>2, <1>3

LEMMA PartInside ==
  ASSUME NEW i, Telling(i), Layout[i] \in Int, NEW k \in 1 .. Parts(i),
         Layout[i + 1] = Layout[i] + PartSize(i) * Parts(i)
  PROVE  Extent(Part(i, k)) \subseteq Layout[i] .. Layout[i + 1] - 1
<1> DEFINE z == PartSize(i)
           n == Parts(i)
           a == Layout[i]
           b == Layout[i + 1]
           p == Part(i, k)
<1>1. n \in Nat /\ (n # 0 => z \in {1, 2, 4})
  BY Zenon DEF Telling
<1>2. n # 0 /\ k \in Nat /\ 1 <= k /\ k <= n
  BY <1>1
<1>3. z \in {1, 2, 4} /\ z \in Nat
  BY <1>1, <1>2
<1>4. a \in Int /\ b = a + z * n
  OBVIOUS
<1>5. p.address = a + z * (k - 1) /\ Len(p.bytes) = z
  BY <1>3 DEF Part, PartAt, Bytes
<1>6. Extent(p) = a + z * (k - 1) .. a + z * (k - 1) + z - 1
  BY <1>5 DEF Extent
<1> SUFFICES Extent(p) \subseteq a .. b - 1
  OBVIOUS
<1> HIDE DEF z, n, a, b, p
<1>7. CASE z = 1
  BY <1>1, <1>2, <1>4, <1>6, <1>7
<1>8. CASE z = 2
  BY <1>1, <1>2, <1>4, <1>6, <1>8
<1>9. CASE z = 4
  BY <1>1, <1>2, <1>4, <1>6, <1>9
<1> QED
  BY <1>3, <1>7, <1>8, <1>9

LEMMA Alone ==
  ASSUME AssemblerInv, Suitable, status = "done", Disjoint,
         NEW i \in LinesOf("instr"), NEW k \in 1 .. Parts(i),
         NEW a \in Extent(Part(i, k))
  PROVE  Loaded[a] = Part(i, k).bytes[a - PartAt(i, k) + 1]
<1> DEFINE P == Pieces(End, 0)
           p == Part(i, k)
<1>1. WellNested /\ Finite /\ End \in Places /\ \A j \in Lines : j \in Places
  BY DEF AssemblerInv, Standing, Replayed, WellNested, Finite, End, Places
<1>2. pass = 1 /\ Tells(State, P)
  BY DEF AssemblerInv, Standing, Emitted
<1>3. \A j \in Lines : KnownLine(j)
  BY <1>2 DEF AssemblerInv, Standing, Known
<1>4. \A j \in Lines : Telling(j) /\ Layout[j] \in Int
  BY <1>1, <1>3, KnownTells, InPlace DEF Suitable, Laid
<1>5. IsOver(Loaded, P)
  BY <1>2 DEF Tells, State, Loaded, ImageOf
<1>6. ASSUME NEW q \in P
      PROVE  \E j \in LinesOf("instr") \cup LinesOf(".db") : \E m \in 1 .. Parts(j) :
               q = Part(j, m)
  <2>1. PartsOf(End, 0) = {}
    BY DEF PartsOf
  <2>2. PICK j \in Lines : q \in PartsOf(j, Parts(j))
    BY <2>1, Zenon DEF Pieces
  <2>3. PICK m \in 1 .. Parts(j) : q = Part(j, m)
    BY <2>2, Zenon DEF PartsOf
  <2>4. source[j].kind \in {"instr", ".db"}
    <3>1. source[j].kind \notin {"instr", ".db"} => Parts(j) = 0
      BY DEF Parts
    <3> QED
      BY <2>3, <3>1
  <2> QED
    BY <2>3, <2>4 DEF LinesOf
<1>7. p \in P
  <2>1. i \in {l \in Lines : l < End}
    BY <1>1 DEF LinesOf, Finite, End
  <2>2. p \in PartsOf(i, Parts(i))
    BY DEF PartsOf
  <2> QED
    BY <2>1, <2>2, Zenon DEF Pieces
<1> HIDE DEF P
<1>8. PICK q \in P : a \in Extent(q) /\ Loaded[a] = q.bytes[a - q.address + 1]
  <2>1. a \in DOMAIN Loaded
    BY <1>5, <1>7 DEF IsOver
  <2> QED
    BY <1>5, <2>1 DEF IsOver
<1>9. PICK j \in LinesOf("instr") \cup LinesOf(".db") : \E m \in 1 .. Parts(j) : q = Part(j, m)
  BY <1>6
<1>10. PICK m \in 1 .. Parts(j) : q = Part(j, m)
  BY <1>9
<1>11. i \in Lines /\ source[i].kind = "instr" /\ j \in Lines /\ source[j].kind \in {"instr", ".db"}
  BY DEF LinesOf
<1>12. /\ a \in Layout[i] .. Layout[i + 1] - 1
       /\ a \in Layout[j] .. Layout[j + 1] - 1
  BY <1>1, <1>3, <1>4, <1>8, <1>10, <1>11, LineIsWide, PartInside DEF Suitable, Laid
<1>13. j = i
  BY <1>12 DEF Disjoint
<1>14. q = p
  <2>1. q.line = p.line
    BY <1>10, <1>13 DEF Part
  <2>2. Extent(p) \cap Extent(q) # {}
    BY <1>8
  <2> QED
    BY <1>1, <1>4, <1>7, <2>1, <2>2, PartsApart DEF P
<1>15. p.address = PartAt(i, k)
  BY DEF Part
<1> QED
  BY <1>8, <1>14, <1>15

LEMMA InstructionRead ==
  ASSUME AssemblerInv, Suitable, status = "done", Disjoint,
         NEW i \in LinesOf("instr"), NEW k \in 1 .. Parts(i)
  PROVE  /\ ReadAsWritten(Expand(Told(i))[k], PartAt(i, k), WordAt(Loaded, PartAt(i, k)))
         /\ ShownAsWritten(Expand(Told(i))[k], PartAt(i, k), WordAt(Loaded, PartAt(i, k)))
<1> DEFINE text == Expand(Told(i))[k]
           address == PartAt(i, k)
           e == Encode(text, address)
           bytes == Bytes(e, 4)
           word == WordAt(Loaded, address)
<1>1. i \in Lines /\ source[i].kind = "instr" /\ PartSize(i) = 4
  BY DEF LinesOf, PartSize
<1>2. KnownLine(i)
  BY <1>1 DEF AssemblerInv, Standing, Emitted, Known
<1>3. IsText(Told(i)) /\ ~Eek(Told(i)) /\ ~LookupThrows(Told(i))
  BY <1>1, <1>2, ToldIsText DEF Suitable, Laid
<1>4. IsBasic(text)
  <2> DEFINE basic == Expand(Told(i))
  <2>1. InSource(basic) /\ \A l \in DOMAIN basic : InTables(basic[l])
    BY <1>3, ExpandInSource DEF LookupThrows
  <2>2. k \in DOMAIN basic
    BY <1>1, <1>3, ExpandSize DEF Sized, Parts
  <2> HIDE DEF basic
  <2>3. IsBasic(basic[k])
    BY <2>1, <2>2 DEF InSource, IsBasic
  <2> QED
    BY <2>3 DEF basic
<1>5. address \in Int
  <2>1. Layout[i] \in Int
    <3>1. i \in Places
      BY <1>1 DEF AssemblerInv, Standing, Replayed, WellNested, Finite, Places
    <3> QED
      BY <3>1, InPlace DEF Suitable, Laid
  <2> QED
    BY <1>1, <2>1 DEF PartAt
<1>6. Part(i, k).bytes = bytes /\ Extent(Part(i, k)) = address .. address + Len(bytes) - 1
  <2>1. PartNumber(i, k) = e
    BY <1>1 DEF PartNumber
  <2>2. Part(i, k).bytes = bytes /\ Part(i, k).address = address
    BY <1>1, <2>1 DEF Part
  <2> QED
    BY <2>2 DEF Extent
<1>7. e \in Int /\ e % 2 ^ 32 = e
  BY <1>4, <1>5, EncodedIsWord
<1>8. Len(bytes) = 4
  BY DEF Bytes
<1> HIDE DEF text, address, e, bytes
<1>9. \A a \in address .. address + 3 : Loaded[a] = bytes[a - address + 1]
  <2>1. \A a \in Extent(Part(i, k)) : Loaded[a] = Part(i, k).bytes[a - PartAt(i, k) + 1]
    BY Alone
  <2>2. address + Len(bytes) - 1 = address + 3
    BY <1>5, <1>8
  <2> QED
    BY <1>6, <2>1, <2>2, Zenon DEF address
<1>10. /\ Loaded[address] = bytes[1] /\ Loaded[address + 1] = bytes[2]
       /\ Loaded[address + 2] = bytes[3] /\ Loaded[address + 3] = bytes[4]
  <2>1. \A j \in 0 .. 3 : address + j \in address .. address + 3
                          /\ (address + j) - address + 1 = j + 1
    BY <1>5
  <2>2. \A j \in 0 .. 3 : Loaded[address + j] = bytes[j + 1]
    BY <1>9, <2>1
  <2>3. address + 0 = address
    BY <1>5
  <2> QED
    BY <2>2, <2>3
<1>11. word \in Int /\ word % 2 ^ 32 = e
  <2>1. word = HexValue(TwoDigits(bytes[1]) \o TwoDigits(bytes[2])
                          \o TwoDigits(bytes[3]) \o TwoDigits(bytes[4]))
    BY <1>10, Zenon DEF WordAt
  <2> HIDE DEF word
  <2> QED
    BY <1>7, <2>1, WordRead, Zenon DEF bytes
<1> HIDE DEF word
<1>12. ReadAsWritten(text, address, word) /\ ShownAsWritten(text, address, word)
  BY <1>4, <1>5, <1>11, InstructionsAreReadAsWritten DEF e
<1> QED
  BY <1>12 DEF text, address, word

LEMMA WrittenIs ==
  ASSUME Finite, \A i \in Lines : KnownLine(i), Numbered, NEW w \in Written
  PROVE  \E i \in LinesOf("instr") : \E k \in 1 .. Parts(i) :
           w.text = Expand(Told(i))[k] /\ w.address = PartAt(i, k)
<1> DEFINE Word(i, k) == [line |-> i, text |-> Expand(Told(i))[k],
                          address |-> Layout[i] + 4 * (k - 1)]
           WordsOf(i) == {Word(i, k) : k \in DOMAIN Expand(Told(i))}
<1>1. Written = UNION {WordsOf(i) : i \in LinesOf("instr")}
  BY DEF Written, Told
<1>2. PICK i \in LinesOf("instr") : w \in WordsOf(i)
  BY <1>1, Zenon
<1>3. PICK k \in DOMAIN Expand(Told(i)) : w = Word(i, k)
  BY <1>2
<1>4. i \in Lines /\ source[i].kind = "instr"
  BY DEF LinesOf
<1>5. k \in 1 .. Parts(i)
  <2>1. ~Eek(Told(i))
    BY <1>4, ToldIsText
  <2> QED
    BY <1>4, <2>1, ExpandSize DEF Sized, Parts
<1>6. PartAt(i, k) = Layout[i] + 4 * (k - 1)
  BY <1>4 DEF PartAt, PartSize
<1> QED
  BY <1>3, <1>5, <1>6

LEMMA WrittenRead ==
  ASSUME AssemblerInv, Suitable, status = "done", Disjoint, NEW w \in Written
  PROVE  /\ ReadAsWritten(w.text, w.address, WordAt(Loaded, w.address))
         /\ ShownAsWritten(w.text, w.address, WordAt(Loaded, w.address))
<1>1. Finite /\ Numbered /\ \A i \in Lines : KnownLine(i)
  BY DEF AssemblerInv, Standing, Emitted, Known, Replayed, WellNested, Suitable, Laid
<1>2. PICK i \in LinesOf("instr") : \E k \in 1 .. Parts(i) :
             w.text = Expand(Told(i))[k] /\ w.address = PartAt(i, k)
  BY <1>1, WrittenIs
<1>3. PICK k \in 1 .. Parts(i) : w.text = Expand(Told(i))[k] /\ w.address = PartAt(i, k)
  BY <1>2
<1> QED
  BY <1>3, InstructionRead

(***************************************************************************)
(* The tools in a row.                                                     *)
(***************************************************************************)
Assembling == stage = "assembling" => AssemblerInv

LEMMA StartsAssembling == TInit /\ (stage = "assembling" => Suitable) => Assembling
BY StartsCorrect DEF TInit, Assembling

LEMMA StaysAssembling ==
  ASSUME Assembling, stage = "assembling" => Suitable, (stage = "assembling" => Suitable)',
         [TNext]_tvars
  PROVE  Assembling'
<1> SUFFICES ASSUME stage' = "assembling" PROVE AssemblerInv'
  BY DEF Assembling
<1>1. stage = "assembling" /\ [ANext]_avars
  BY DEF TNext, AssemblerRuns, PipeToDisassembler, DisassemblerRuns, PipeToAssembler, tvars
<1>2. AssemblerInv /\ Suitable /\ Suitable'
  BY <1>1 DEF Assembling
<1> QED
  BY <1>1, <1>2, StepCorrect

LEMMA ReadWhenAssembled ==
  TSpec /\ [](stage = "assembling" => Unshadowed /\ NamelessMoves /\ InMemory /\ Numbered)
    => [](CpuReadsWhatWasWritten /\ DebugShowsWhatWasWritten)
<1> DEFINE Asked == stage = "assembling" => Suitable
<1>1. TInit /\ Asked => Assembling
  BY StartsAssembling
<1>2. Assembling /\ Asked /\ Asked' /\ [TNext]_tvars => Assembling'
  BY StaysAssembling
<1>3. Assembling /\ Asked => CpuReadsWhatWasWritten /\ DebugShowsWhatWasWritten
  <2> SUFFICES ASSUME Assembling, Asked, Assembled
               PROVE  \A w \in Written :
                        /\ ReadAsWritten(w.text, w.address, WordAt(Loaded, w.address))
                        /\ ShownAsWritten(w.text, w.address, WordAt(Loaded, w.address))
    BY DEF CpuReadsWhatWasWritten, DebugShowsWhatWasWritten
  <2>1. AssemblerInv /\ Suitable /\ status = "done" /\ Disjoint
    BY DEF Assembling, Assembled
  <2> QED
    BY <2>1, WrittenRead
<1>4. TSpec /\ []Asked => [](CpuReadsWhatWasWritten /\ DebugShowsWhatWasWritten)
  <2> HIDE DEF Asked, Assembling, CpuReadsWhatWasWritten, DebugShowsWhatWasWritten
  <2> QED
    BY <1>1, <1>2, <1>3, PTL DEF TSpec
<1>5. Asked <=> (stage = "assembling" => Unshadowed /\ NamelessMoves /\ InMemory /\ Numbered)
  BY DEF Suitable, Laid
<1> HIDE DEF Asked
<1> QED
  BY <1>4, <1>5, PTL

\* For every file that AssemblesTheSource is about, the processor's decoder reads in
\* each word of memory, at the address it was put, the instruction, registers and
\* immediate that the source has there, with the labels' addresses for their names
\* (instr_decoder.src.sv reads what assembler_class.cpp encodes).
THEOREM CpuReadsTheSource ==
  TSpec /\ [](stage = "assembling" => Unshadowed /\ NamelessMoves /\ InMemory /\ Numbered)
    => []CpuReadsWhatWasWritten
BY ReadWhenAssembled, PTL

\* For the same files, the debug display of the simulation shows of each word the
\* text that the source has there (debug_instr_decoder.header.sv:7-777).
THEOREM DebugShowsTheSource ==
  TSpec /\ [](stage = "assembling" => Unshadowed /\ NamelessMoves /\ InMemory /\ Numbered)
    => []DebugShowsWhatWasWritten
BY ReadWhenAssembled, PTL
================================================================================
