SPECIFICATION FairSpec
CONSTANTS
  w1 = w1
  w2 = w2
  Workers = {w1, w2}
  Accounts = {1, 2, 3}
  Missing = {3}
  Ops <- MCOps
  Free = Free
  NoEntry = NoEntry
  NoOp = NoOp
  Skew <- NoSkew
  Elapsed = {0, 1}
  MaxAttempts = 4
INVARIANTS
  NoDrift
  RecordedOnce
  TransferAtomic
  NeverOverdrawn
PROPERTIES
  ImplementsAbstractLedger
  TransactionsEnd
CHECK_DEADLOCK FALSE
