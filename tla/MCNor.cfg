CHECK_DEADLOCK FALSE
CONSTANTS
  Sources <- DocumentedSources
  VmemFiles <- NoVmemFiles
SPECIFICATION TSpec
INVARIANT DocumentedInstructionsAssemble
