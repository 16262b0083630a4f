SPECIFICATION Spec
CONSTANTS
  i1 = i1  i2 = i2  i3 = i3
  m1 = m1  m2 = m2
  uq = uq  eq = eq  uqOther = uqOther
  c1 = c1  c2 = c2
  k1 = k1  k2 = k2
  n1 = n1  n2 = n2
  acct = acct  other = other
  NoInvoice = NoInvoice  NoId = NoId  Unparsed = Unparsed  NoDest = NoDest
  Ids = {i1}
  Memos = {m1}
  Addrs = {uq}
  Amounts = {1}
  AccountOf <- OneAccount
  Backend = "memory"
  MaxOrphans = 0
  Instances = {n1}
  Callers = {c1}
  Creators = {k1}
  Pollers = {}
  InstanceOf <- OneInstance
  Ttls <- Lifetimes
  DefaultTTL = 1
  MaxTTL = 1
  MaxPending = 0
  MaxPendingPerAddr = 0
  Attempts = 1
  VerifierMayFail = TRUE
  MayCrash = FALSE
  MaxTime = 3
  MaxTxs = 1
  Skew = 0
  Limit = 1
PROPERTIES
  VerifierErrorLeavesPending
