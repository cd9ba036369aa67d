SPECIFICATION PageSpec
CONSTANTS
  Exchanges = {x1}
  NoExc = NoExc
  ItemCap = 2
  FastCloses = 2
  MaxRecord = 3
  MaxClaims = 2
  MaxFaults = 2
  MaxHoles = 1
  MaxReloads = 1
INVARIANTS
  PageTypeOK
  PromptedOnce
  NoGhostPrompt
  AskReachesPrincipal
PROPERTIES
  LapseIsEarned
CHECK_DEADLOCK FALSE
