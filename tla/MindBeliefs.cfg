SPECIFICATION Spec
CONSTANTS
  Capacity = 2
  Sizes = {1, 2}
  Lifetime = 2
  Cutoffs = {2}
  MaxWait = 1
  Protecting = TRUE
  Decaying = TRUE
  LastTime = 2
  MaxBeliefs = 3
  MaxVersion = 3
  Fragile = {"save", "publish", "restart"}
  MaxFaults = 2
INVARIANTS
  TypeOK
  KeepsPromise
  SnapshotFollows
PROPERTIES
  WeakestFirst
CHECK_DEADLOCK FALSE
