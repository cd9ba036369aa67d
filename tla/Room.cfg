SPECIFICATION Spec
CONSTANTS
  NoTerms = NoTerms
  NoThing = NoThing
  Names <- RoomNames
  Values <- MCValues
  Terms <- RoomTerms
  SchemaValid <- RoomTerms
  Cast <- RoomCast
  Credits = {}
  PrincipalOf <- NoPrincipal
  Injections <- RoomInjections
  Listeners = {}
  Acts = {}
  TurnCap = 3
  MaxUtt = 4
  MaxInc = 1
  MaxMarks = 0
INVARIANTS
  OpenStaysListed
PROPERTIES
  WorldChangesOnRecord
  KeepsBargain
CHECK_DEADLOCK FALSE
