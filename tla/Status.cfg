SPECIFICATION StatusFairSpec
CONSTANTS
  MaxSettles = 3
  MaxFaults = 2
PROPERTIES
  NewsIsShown
  DeafOnlyByBatching
CHECK_DEADLOCK FALSE
