\* The multiplier on every pair of four-bit operands.
SPECIFICATION BSpec
CONSTANTS
  Width = 4
  Byte = 2
  Imm12Mod = 8
  PowerUp = {0, 9}
  Operands <- MCOperands
  Distraction <- MCDistraction
PROPERTIES
  MultiplierAnswers
