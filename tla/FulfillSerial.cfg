SPECIFICATION Spec
CONSTANTS
  w1 = w1
  r1 = r1
  d1 = d1
  Workers = {w1}
  Refunds = {r1}
  Disputes = {d1}
  DisputeStatuses = {"opened", "accepted", "expired", "lost", "won", "cancelled"}
  Pack = 4
  Price = 4
  Amounts = {1, 2, Unknown, Foreign}
  Unknown = Unknown
  Foreign = Foreign
  OtherCredits = 0
  MaxSpent = 0
  MaxCrashes = 0
  SlowHolders = FALSE
  FailedAttempts = TRUE
SYMMETRY Symmetric
INVARIANTS
  NetIsEntitlement
