\* The stages in step: every instruction, muli included, before one that uses
\* its result, with an interrupt at any clock edge; and no stall lasts for ever.
SPECIFICATION FairSpec
CONSTANTS
  Width = 8
  Byte = 4
  Imm12Mod = 8
  IterationsPerCycle = 2
  MemWords = 16
  PowerUp = {0, 201}
  Reg <- MCReg
  Code <- MCCode
  Programs <- AllPrograms
  Alu <- AluData
INVARIANTS
  TypeOK
  FetchCoherence
  OperandsAreNewest
  MultiplierInTime
  DividerInTime
PROPERTIES
  MemWrittenOnlyByStores
  StallsEnd
