CONSTANTS
  h1 = h1
  h2 = h2
  Host = {h1, h2}
  HostOf <- TwoHosts
  Entries <- OneEntryEach
  NumTasks = 2
  Parallel = 1
  Gather = TRUE
  MaxSignals = 2
SPECIFICATION Spec
INVARIANTS CleanupOrder SummaryProgress
PROPERTIES StopEnds RunEnds ContractSpec
CHECK_DEADLOCK FALSE
