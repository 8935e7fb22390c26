\* Can two clients stream under one identifier?
SPECIFICATION Spec
CONSTANTS
  c1 = c1
  c2 = c2
  c3 = c3
  i1 = i1
  i2 = i2
  None = None
  Conns = {c1, c2, c3}
  Ids = {i1}
  IdsOf <- SharedIds
  MaxSessions = 2
  Workers = 2
  ResetMayRaise = FALSE
  MaxVersion = 0
INVARIANT IdsExclusive
