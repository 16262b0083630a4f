SPECIFICATION FairSpec
CONSTANTS
  Ids = {i1, i2}
  Addrs = {uq}
  Memos = {m1}
  Amounts = {1}
  NoInvoice = NoInvoice
  Writers = {w1, w2}
  Processes = {{w1, w2}}
  MaxConns = 1
  NULL = NULL
  Times = {1}
  MaxOrphans = 1
INVARIANTS
  TypeOK
  AcknowledgedIsDurable
PROPERTIES
  ContractSpec
  CallsReturn
