SPECIFICATION Spec
CONSTANTS
  r1 = r1
  r2 = r2
  a1 = a1
  a2 = a2
  a3 = a3
  l1 = l1
  l2 = l2
  l3 = l3
  t1 = t1
  t2 = t2
  Requests = {r1, r2}
  Accounts = {a1, a2, a3}
  Links = {l1, l2, l3}
  Tokens = {t1, t2}
  Nothing = Nothing
  EmailLimit = 2
  IpLimit = 1
  Releases = {"current"}
SYMMETRY Sym
INVARIANTS
  BucketIsExact
  OneAccount
  DeletedIsClosed
  LinkOpensOne
