CONSTANTS
  h1 = h1
  h2 = h2
  NumLines = 2
  Host = {h1}
  HostOf <- Twice
  Accepting = {h1}
  Parallel = 3
SPECIFICATION Spec
CHECK_DEADLOCK FALSE
INVARIANT NeverExcluded
