SPECIFICATION PayrollSpec
CONSTANTS
  MaxLost = 1
  i1 = i1
  i2 = i2
  i3 = i3
  w1 = w1
  w2 = w2
  r1 = r1
  e1 = e1
  e2 = e2
  NoItem = NoItem
  Items = {i1, i2}
  Flagged = {}
  JobWorkers = {w1, w2}
  Retriers = {r1}
  Editors = {e1, e2}
  MaxEdits = 3
  MaxJobs = 1
  MaxFaults = 1
SYMMETRY Symmetric
INVARIANTS
  ItemPaidAgainOnlyIfLost
  SentWasPaid
  EveryoneTried
CHECK_DEADLOCK FALSE
