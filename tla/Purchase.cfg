SPECIFICATION LiveSpec
CONSTANTS
  Job = Job
  Requests = {r1, r2}
  Sessions = {s1, s2}
  Events = {s1, s2}
  Handlers = {h1, Job}
  None = None
  Recovered = Recovered
  NoOwner = NoOwner
  NoEvent = NoEvent
  Gone = Gone
  Again = FALSE
  Withheld = {s2}
  Fragile = {"create", "escalate", "refusal", "unsure", "refused", "ambiguous", "finalize", "reread", "order", "catch", "request", "complete", "handler", "slow", "fulfill", "recover", "list", "mark", "job"}
  MaxFaults = 2
INVARIANTS
  TypeOK
  AckedIsSettled
  MissedNeedsFailure
  OnePage
  OneOrder
PROPERTIES
  CompletedIsFinal
  PaidIsGranted
  DeliverySettles
