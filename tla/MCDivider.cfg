\* The divider on pairs of four-bit operands, signed and unsigned: zero, one, the
\* extremes of both signs, and exact and inexact quotients.
SPECIFICATION MCSpec
CONSTANTS
  Width = 4
  Byte = 2
  Imm12Mod = 8
  IterationsPerCycle = 2
  Operands <- MCOperands
  Distraction <- MCDistraction
PROPERTIES
  DividerAnswers
