CONSTANTS
  w1 = w1
  w2 = w2
  Worker = {w1, w2}
  Records <- MoreMain
SYMMETRY Alike
SPECIFICATION Spec
CHECK_DEADLOCK FALSE
INVARIANTS TypeOK Flushed Reinitialised
