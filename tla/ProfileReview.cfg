SPECIFICATION Spec
CONSTANTS
  e1 = e1
  e2 = e2
  p1 = p1
  p2 = p2
  v1 = v1
  v2 = v2
  i1 = i1
  i2 = i2
  Edits = {e1, e2}
  Reviews = {p1, p2}
  Values = {v1, v2}
  Ids = {i1, i2}
  Nothing = Nothing
  Field = "link"
  Fragile = {"mail", "edit", "review"}
  MaxFaults = 1
SYMMETRY Sym
INVARIANTS
  ShownWasApproved
  TakenBackIsHidden
  
CHECK_DEADLOCK FALSE
