SPECIFICATION FabricSpec
CONSTANTS
  NoTerms = NoTerms
  NoThing = NoThing
  Names <- MCNames
  Values <- MCValues
  Terms <- MCTerms
  SchemaValid <- MCTerms
  Cast <- MCCast
  Credits = {}
  PrincipalOf <- MCPrincipalOf
  Injections = {}
  Listeners <- MCListeners
  Acts <- Market
  TurnCap = 3
  MaxUtt = 4
  MaxInc = 1
  MaxMarks = 2
  Residents <- MCResidents
  ResidentCharter <- MCResidentCharter
  PersonCap = 1
  Stake = 2
  QueueSize = 2
  Calls = {c1}
  MaxFails = 1
INVARIANTS
  FabricTypeOK
  NothingVanishes
  FeedIsHonest
  LedgersAgree
  IndexCatchesUp
CHECK_DEADLOCK FALSE
