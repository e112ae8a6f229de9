CONSTANTS
  Kind <- RemoteTree
  LinkTo <- Targets
  Private <- RootOnly
  Names <- AllNames
  Safe <- SafeNames
  Home <- HomeDir
  Requests <- SomeRequests
  FollowSymlinks = FALSE
  MaxLinks = 1
  Movable <- Taken
  MaxChanges = 1
  MaxFaults = 1
SPECIFICATION FairSpec
CHECK_DEADLOCK FALSE
INVARIANTS TypeOK PlanExact Fetched
PROPERTIES GatherEnds
