SPECIFICATION Spec
CONSTANTS
  s1 = s1
  s2 = s2
  l1 = l1
  l2 = l2
  h1 = h1
  h2 = h2
  Treasury = Treasury
  Outside = Outside
  NoSession = NoSession
  NoLimit = NoLimit
  Sessions = {s1, s2}
  Links = {l1}
  LinkOf <- MCOneLink
  AmountExpected <- MCSamePrice
  FixedAmount = {l1}
  MaxUses <- MCUnlimited
  Handlers = {h1, h2}
  Amounts = {1}
  Strangers = FALSE
  Operators = FALSE
  NoticeHashes = {TRUE}
  MaxTransfers = 3
SYMMETRY Symmetric
INVARIANTS
  ConfirmedWasPaid
CHECK_DEADLOCK FALSE
