SPECIFICATION Spec
CONSTANTS
  Ticks = {t1, t2}
  LastDay = 3
  MaxAttempts = 2
  Fragile = {"source", "lookup", "insert", "save", "mark", "note", "restart"}
  NewMind = FALSE
  MaxFaults = 2
SYMMETRY Sym
INVARIANTS
  OneEntryPerDay
  InDayOrder
  DateHasEntry
