SPECIFICATION Spec
CONSTANTS
  Requests = {r1, r2}
  Keys = {k1}
  Reconcilers = {c1}
  BeliefCost = 2
  ShieldCost = 1
  FreeShields = 1
  InitialCredits = 2
  GrantSize = 1
  MaxLedger = 2
  ReconcileAfter = 0
  ReconcileMax = 1
  IdempotencyTtl = 2
  SpendTtl = 3
  ReconcileBatch = 1
  MaxMisjudged = 1
  PromptInvocations = FALSE
  RetryPending = TRUE
  RetryWindow = 3
  SaveMayFail = FALSE
SYMMETRY Symmetry
INVARIANTS
  CreditsConserved
  FreeShieldsConserved
  ForfeitsOnlyTheSeen
PROPERTIES
  ResolvedIsFinal
