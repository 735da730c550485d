SPECIFICATION Spec
CONSTANTS
  w1 = w1
  w2 = w2
  r1 = r1
  d1 = d1
  Workers = {w1, w2}
  Refunds = {r1}
  Disputes = {d1}
  DisputeStatuses = {"opened", "won"}
  Pack = 3
  Price = 3
  Amounts = {1}
  Unknown = Unknown
  Foreign = Foreign
  OtherCredits = 1
  MaxSpent = 1
  MaxCrashes = 1
  SlowHolders = FALSE
  FailedAttempts = FALSE
SYMMETRY Symmetric
INVARIANTS
  TypeOK
  BalanceIsTheLedger
  CreditsOnce
  NetWithinPack
  DisputedIsHeld
PROPERTIES
  RowsAreFinal
