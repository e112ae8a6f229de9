CONSTANTS
  Entries = 2
  NumMembers = 7
  LinkTo <- Links
  Path <- Places
  Dropped = {}
  LinkedDir = {"linked"}
  MaxFaults = 3
SPECIFICATION Spec
CHECK_DEADLOCK FALSE
INVARIANTS TypeOK  Arrived TempsRemoved
