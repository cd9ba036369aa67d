SPECIFICATION FabricFairSpec
CONSTANTS
  NoTerms = NoTerms
  NoThing = NoThing
  Names <- MCNames
  Values <- MCValues
  Terms <- MCTerms
  SchemaValid <- MCTerms
  Cast <- MCCast
  Credits = {}
  PrincipalOf <- MCPrincipalOf
  Injections <- Murmurs
  Listeners <- MCListeners
  Acts = {}
  TurnCap = 3
  MaxUtt = 3
  MaxInc = 1
  MaxMarks = 2
  Residents <- MCResidents
  ResidentCharter <- MCResidentCharter
  PersonCap = 1
  Stake = 2
  QueueSize = 2
  Calls = {c1}
  MaxFails = 1
PROPERTY
  QueuedIsRecorded
CHECK_DEADLOCK FALSE
