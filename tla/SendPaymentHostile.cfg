SPECIFICATION Spec
CONSTANTS
  k1 = k1
  k2 = k2
  payee = payee
  c1 = c1
  c2 = c2
  NoKey = NoKey
  Keys = {k1, k2}
  Callers = {c1, c2}
  Amount <- MCAmount
  Payee <- MCPayee
  InitialBalance = 2
  LostAnswers = TRUE
  MaxCalls = 3
SYMMETRY Symmetric
INVARIANTS
  OneSubmitter
PROPERTIES
  ImplementsKeyedPayment
CHECK_DEADLOCK FALSE
