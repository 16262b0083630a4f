SPECIFICATION Spec
CONSTANTS
  i1 = i1  i2 = i2  i3 = i3
  m1 = m1  m2 = m2
  uq = uq  eq = eq  uqOther = uqOther
  c1 = c1  c2 = c2
  k1 = k1  k2 = k2
  n1 = n1  n2 = n2
  acct = acct  other = other
  NoInvoice = NoInvoice  NoId = NoId  Unparsed = Unparsed  NoDest = NoDest
  Ids = {i1, i2}
  Memos = {m1, m2}
  Addrs = {uq}
  Amounts = {1}
  AccountOf <- OneAccount
  Backend = "postgres"
  MaxOrphans = 1
  Instances = {n1, n2}
  Callers = {c1, c2}
  Creators = {k1}
  Pollers = {}
  InstanceOf <- TwoInstances
  Ttls <- Lifetimes
  DefaultTTL = 1
  MaxTTL = 1
  MaxPending = 0
  MaxPendingPerAddr = 0
  Attempts = 2
  VerifierMayFail = TRUE
  MayCrash = TRUE
  MaxTime = 3
  MaxTxs = 1
  Skew = 0
  Limit = 1
SYMMETRY IdsAndMemos
INVARIANTS
  TypeOK
  FiredOnceWithStoredInvoice
  TerminalRepliesTrue
  ExpiredAfterDeadline
  MemosUnique
PROPERTIES
  TerminalIsFinal
  LedgerSpec
