SPECIFICATION FairSpec
CONSTANTS
  NoTerms = NoTerms
  NoThing = NoThing
  Names <- ReclaimNames
  Values <- MCValues
  Terms <- ReclaimTerms
  SchemaValid <- ReclaimTerms
  Cast <- ReclaimCast
  Credits = {}
  PrincipalOf <- NoPrincipal
  Injections <- ReclaimInjections
  Listeners <- ReclaimNames
  Acts <- ReclaimActs
  TurnCap = 2
  MaxUtt = 3
  MaxInc = 2
  MaxMarks = 0
INVARIANTS
  OneLiveThink
PROPERTIES
  MandateHoldsOnRecord
  NoLateReply
  EveryThinkEnds
CHECK_DEADLOCK FALSE
