SPECIFICATION Spec
CONSTANTS
  s1 = s1
  s2 = s2
  l1 = l1
  l2 = l2
  h1 = h1
  h2 = h2
  Treasury = Treasury
  Outside = Outside
  NoSession = NoSession
  NoLimit = NoLimit
  Sessions = {s1, s2}
  Links = {l1}
  LinkOf <- MCOneLink
  AmountExpected <- MCSamePrice
  FixedAmount = {l1}
  MaxUses <- MCSingleUse
  Handlers = {h1, h2}
  Amounts = {1, 2}
  Strangers = TRUE
  Operators = TRUE
  NoticeHashes = {TRUE, FALSE}
  MaxTransfers = 2
SYMMETRY AllSymmetric
INVARIANTS
  SweptOnce
  ConfirmedHasCredit
  NothingUncounted
  
  CreditsBrought
  ConfirmedAtItsPrice
CHECK_DEADLOCK FALSE
