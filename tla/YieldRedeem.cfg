SPECIFICATION Spec
CONSTANTS
  MaxLost = 1
  w1 = w1
  w2 = w2
  r1 = r1
  d1 = d1
  k1 = k1
  k2 = k2
  t1 = t1
  t2 = t2
  i1 = i1
  c1 = c1
  x1 = x1
  Machines = {"yield"}
  Sweepers = {w1, w2}
  LastPeriod = 3
  MaxFailures = 2
  Sweeps = {w1, w2}
  Clients = {r1}
  EndDate = 2
  MaxDate = 3
  MaxRows = 2
  MaxMishaps = 1
  Clicks = {w1, w2}
  Deployers = {d1}
  YieldWorkers = {w1, w2}
  DeployAmount = 2
  MaxPositions = 2
  MaxRequests = 2
  Attempts = 1
  MaxLosses = 1
  Sends = {k1, k2}
  Senders = {w1, w2}
  Depositors = {d1}
  Cost <- MCCost
  ArcBalance = 1
  Arrivals = {1}
  MaxArrivals = 2
  MaxSends = 3
  MaxStops = 1
  NoSend = NoSend
  Transfers = {t1, t2}
  Handlers = {w1, w2}
  Inflow <- MCInflow
  Asked = {1, 2}
  Floor = 1
  MaxDays = 1
  MaxPayments = 1
  MaxErrors = 1
  NoTransfer = NoTransfer
  Invoices = {i1}
  Cards = {c1}
  Directs = {x1}
  Reminders = {r1}
  InvoiceOf <- MCInvoiceOf
  Total <- MCTotal
  Received <- MCReceived
  NoticeHashes = {TRUE, FALSE}
  Milestones = 1
  MaxSweeps = 1
  NoPayment = NoPayment
  Copiers = {w1, w2}
  Principal = 1
  MaxOperations = 6
  MaxPending = 2
INVARIANT RedeemedOnce
CHECK_DEADLOCK FALSE
