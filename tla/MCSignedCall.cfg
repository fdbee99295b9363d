\* Violated: a signed call that is not made overwrites lr.
SPECIFICATION FairRSpec
CONSTANTS
  Width = 8
  Byte = 4
  Imm12Mod = 8
  IterationsPerCycle = 2
  MemWords = 16
  PowerUp = {0}
  Reg <- MCReg
  Code <- MCCode
  Programs <- SignedCallPrograms
  Alu <- AluData
PROPERTIES
  CallNotMadeKeepsLr
