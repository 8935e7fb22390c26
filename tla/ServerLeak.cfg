\* Does a disconnect always remove the session?
SPECIFICATION Spec
CONSTANTS
  c1 = c1
  c2 = c2
  c3 = c3
  i1 = i1
  i2 = i2
  None = None
  Conns = {c1, c2}
  Ids = {i1, i2}
  IdsOf <- OwnIds
  MaxSessions = 1
  Workers = 2
  ResetMayRaise = FALSE
  MaxVersion = 1
INVARIANT CleanedUp
