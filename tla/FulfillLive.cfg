SPECIFICATION LiveSpec
CONSTANTS
  w1 = w1
  w2 = w2
  d1 = d1
  Workers = {w1, w2}
  Refunds = {}
  Disputes = {d1}
  DisputeStatuses = {"opened", "won"}
  Pack = 4
  Price = 4
  Amounts = {}
  Unknown = Unknown
  Foreign = Foreign
  OtherCredits = 0
  MaxSpent = 0
  MaxCrashes = 1
  SlowHolders = FALSE
  FailedAttempts = FALSE
PROPERTIES
  PendingIsApplied
