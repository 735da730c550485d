SPECIFICATION LiveSpec
CONSTANTS
  Ticks = {t1}
  LastDay = 3
  MaxAttempts = 2
  Fragile = {"older", "more", "capture", "source", "lookup", "insert", "save", "mark", "note", "restart"}
  NewMind = TRUE
  MaxFaults = 1
PROPERTIES
  FrozenIsFinished
