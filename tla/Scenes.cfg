SPECIFICATION ScenesFairSpec
CONSTANTS
  NoTerms = NoTerms
  NoThing = NoThing
  Names <- MCNames
  Values <- MCValues
  Terms <- MCTerms
  SchemaValid <- MCTerms
  Cast = {}
  Credits = {}
  PrincipalOf <- MCPrincipalOf
  Injections = {}
  Listeners <- MCNames
  Acts = {}
  TurnCap = 12
  MaxUtt = 20
  MaxInc = 1
  MaxMarks = 100
  Words = {"cold", "warm", "dark", "sweet"}
  RecentWindow = 20
  MaxSays = 2
INVARIANTS
  TalkIsBounded
  NobodyLeftHanging
PROPERTIES
  NothingBoughtUnasked
  FallsSilent
CHECK_DEADLOCK FALSE
