CONSTANTS
  f1 = f1
  f2 = f2
  d1 = d1
  e1 = e1
  File = {f1, f2}
  EmptyDir = {e1}
  ParentDir = {d1}
  ParentOf <- OneInEach
  MaxFaults = 1
SPECIFICATION Spec
CHECK_DEADLOCK FALSE
INVARIANT ErrorCounted
