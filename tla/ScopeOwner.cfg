SPECIFICATION ScopesSpec
CONSTANTS
  NoScope = NoScope
  ScopeIds = {"household", "street"}
  SeedsOf <- MCSeedsOf
  Residents = {"her"}
  Addressed = {{}, {"her"}}
  Calls = {c1}
  MaxDeals = 1
  TurnCap = 2
  QueueSize = 2
INVARIANT
  IndexNamesOwner
CONSTRAINT
  MCBounds
CHECK_DEADLOCK FALSE
