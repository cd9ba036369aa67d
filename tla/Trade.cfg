SPECIFICATION Spec
CONSTANTS
  NoTerms = NoTerms
  NoThing = NoThing
  Names <- TradeNames
  Values <- MCValues
  Terms <- TradeTerms
  SchemaValid <- TradeTerms
  Cast <- TradeCast
  Credits <- TradeCredits
  PrincipalOf <- TradePrincipal
  Injections <- TradeInjections
  Listeners <- TradeNames
  Acts <- TradeActs
  TurnCap = 3
  MaxUtt = 4
  MaxInc = 1
  MaxMarks = 2
INVARIANTS
  TypeOK
  MarksNeverNegative
  GatePredictsFunnel
PROPERTIES
  TradesAreAuthorised
CHECK_DEADLOCK FALSE
