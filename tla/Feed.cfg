SPECIFICATION FeedFairSpec
CONSTANTS
  MaxConns = 2
  SendBuffer = 1
  ReplayLimit = 1
  SocketSize = 1
  MaxRows = 3
  MaxFaults = 1
INVARIANTS
  FeedTypeOK
  NeverBackwards
  NoBroadcastMissed
  HolesAreExplained
PROPERTIES
  QueuedIsShown
  AlwaysReconnects
  ScopeSleeps
CHECK_DEADLOCK FALSE
