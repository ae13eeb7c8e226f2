SPECIFICATION Spec
CONSTANTS
  r1 = r1
  r2 = r2
  p1 = p1
  p2 = p2
  b1 = b1
  b2 = b2
  NoPayload = NoPayload
  Endpoints = {"send", "deposit"}
  Requests = {r1, r2}
  Payloads = {p1, p2}
  Buckets = {b1, b2}
  Debits <- MCDebits
  Funds <- MCFunds
  MayExpire = TRUE
  MaxRequests = 4
SYMMETRY Symmetric
INVARIANTS
  PaidAgainOnlyIfLost
  OneAnswer
  OkMeansBooked
CHECK_DEADLOCK FALSE
