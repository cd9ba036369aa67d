SPECIFICATION BudgetSpec
CONSTANTS
  Thinkers = {p1, p2}
  Limit = 2
  Hour = 2
  MaxTokens = 2
  MaxTime = 4
INVARIANTS
  OvershootBounded
  HourBounded
  EveryFlipIsLogged
SYMMETRY MCSymmetry
