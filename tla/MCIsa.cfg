\* The refinement of the instruction set: data hazards, control flow, and
\* interrupts at any clock edge.
SPECIFICATION RSpec
CONSTANTS
  Width = 8
  Byte = 4
  Imm12Mod = 8
  IterationsPerCycle = 2
  MemWords = 16
  PowerUp = {0}
  Reg <- MCReg
  Code <- ConformingCode
  Programs <- IsaPrograms
  Alu <- AluData
PROPERTY ImplementsIsa
