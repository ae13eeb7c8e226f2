SPECIFICATION Spec
CONSTANTS
  k1 = k1
  k2 = k2
  payee = payee
  c1 = c1
  c2 = c2
  NoKey = NoKey
  Keys = {k1, k2}
  Callers = {c1, c2}
  Amount <- MCAmount
  Payee <- MCPayee
  InitialBalance = 2
  LostAnswers = FALSE
  MaxCalls = 4
SYMMETRY Symmetric
INVARIANTS
  SentOnce
  BooksFollowChain
  PendingUntracked
PROPERTIES
  ConfirmedIsFinal
  ImplementsPayments
CHECK_DEADLOCK FALSE
