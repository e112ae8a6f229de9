CONSTANTS
  Kind <- LocalTree
  LinkTo <- Targets
  Names <- AllNames
  Private <- NoPrivate
  Cwd <- Dir
  Requests <- SomeRequests
  MaxLinks = 2
  Movable <- Taken
  MaxChanges = 2
SPECIFICATION Spec
CHECK_DEADLOCK FALSE
INVARIANTS TypeOK Placed
