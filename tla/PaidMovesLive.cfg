SPECIFICATION LiveSpec
CONSTANTS
  Requests = {r1}
  Keys = {k1}
  Reconcilers = {c1, c2}
  BeliefCost = 2
  ShieldCost = 1
  FreeShields = 0
  InitialCredits = 2
  GrantSize = 0
  MaxLedger = 0
  ReconcileAfter = 0
  ReconcileMax = 1
  IdempotencyTtl = 2
  SpendTtl = 4
  ReconcileBatch = 1
  MaxMisjudged = 1
  PromptInvocations = FALSE
  RetryPending = TRUE
  RetryWindow = 1
  SaveMayFail = TRUE
PROPERTIES
  PendingResolves
