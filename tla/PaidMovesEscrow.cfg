SPECIFICATION Spec
CONSTANTS
  Requests = {r1, r2}
  Keys = {k1, k2}
  Reconcilers = {c1, c2}
  BeliefCost = 2
  ShieldCost = 1
  FreeShields = 1
  InitialCredits = 2
  GrantSize = 0
  MaxLedger = 0
  ReconcileAfter = 0
  ReconcileMax = 1
  IdempotencyTtl = 2
  SpendTtl = 4
  ReconcileBatch = 1
  MaxMisjudged = 1
  PromptInvocations = TRUE
  RetryPending = FALSE
  RetryWindow = 1
  SaveMayFail = TRUE
SYMMETRY Symmetry
INVARIANTS
  MovesArePaid
  SpentIsDurable
PROPERTIES
  FreshChargeBuysAMove
  ImplementsEscrow
