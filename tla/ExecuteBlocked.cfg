CONSTANTS
  h1 = h1
  h2 = h2
  Host = {h1}
  HostOf <- OneHost
  Entries <- OneEntryEach
  NumTasks = 1
  Parallel = 2
  Gather = TRUE
  MaxSignals = 1
SPECIFICATION Spec
CHECK_DEADLOCK FALSE
PROPERTY SignalEndsRun
