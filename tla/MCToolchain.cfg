\* The tools stop when they have finished.
CHECK_DEADLOCK FALSE
CONSTANTS
  Sources <- ToolchainSources
  VmemFiles <- MCVmemFiles
SPECIFICATION TSpec
INVARIANTS
  OutputIsTheAssembly
  RejectsExactly
  ScopesReplayed
  CpuReadsWhatWasWritten
  DebugShowsWhatWasWritten
  ListingReassembles
PROPERTY LabelsKeepTheirAddress
