CONSTANTS
  Workers = {"w1", "w2"}
  Operators = {"o1", "o2"}
  Loaders = {"ticker", "handler"}
  Ticker = "ticker"
  NumActions = 2
  Triggers = {"short", "long"}
  Duration <- MCDuration
  MaxSamples = 2
  Cooldown = 1
  MaxDaily = 2
  DayLength = 3
  TTL = 1
  LastFrame = 3
  MaxTime = 3
  MaxEdits = 1
  MaxFaults = 1
  MaxEvents = 2
SPECIFICATION MCSpec
CHECK_DEADLOCK FALSE
INVARIANTS ExecutedIsWhole ConfirmedAsSeen AnchorBacked
PROPERTIES DecisionIsFinal
