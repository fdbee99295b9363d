CHECK_DEADLOCK FALSE
CONSTANTS
  Sources <- ProgramSources
  VmemFiles <- NoVmemFiles
SPECIFICATION TSpec
INVARIANT MemoryHoldsTheProgram
