CONSTANTS
  f1 = f1
  f2 = f2
  f3 = f3
  NumEntries = 4
  File = {f1, f2, f3}
  PathOf <- TwiceAndLink
  Link = {4}
  MaxFaults = 3
SPECIFICATION Spec
CHECK_DEADLOCK FALSE
INVARIANTS TypeOK Contained Accounted MetaRemoved
PROPERTIES OwnersKept
