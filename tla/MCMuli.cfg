\* Violated: muli inherits the stall state of an earlier instruction.
SPECIFICATION RSpec
CONSTANTS
  Width = 8
  Byte = 4
  Imm12Mod = 8
  IterationsPerCycle = 2
  MemWords = 16
  PowerUp = {0}
  Reg <- MCReg
  Code <- MCCode
  Programs <- MuliPrograms
  Alu <- AluData
INVARIANTS
  MultiplyGoesOnWithTheNextInstruction
