CONSTANTS
  h1 = h1
  h2 = h2
  Host = {h1, h2}
  HostOf <- OneTwiceThenOther
  Entries <- OneThenTwoEntries
  NumTasks = 3
  Parallel = 2
  Gather = FALSE
  MaxSignals = 1
SPECIFICATION Spec
INVARIANTS TypeOK ExitTruthful CancelBound SummaryExact
CHECK_DEADLOCK FALSE
