CONSTANTS
  h1 = h1
  h2 = h2
  NumLines = 3
  Host = {h1, h2}
  HostOf <- TwiceAndOnce
  Accepting = {h1}
  Parallel = 3
SPECIFICATION Spec
CHECK_DEADLOCK FALSE
INVARIANTS TypeOK HostServed ProbesClosed SessionsFindable SessionsClosed
PROPERTIES SessionsKept
