SPECIFICATION FairSpec
CONSTANTS
  Ids = {i1, i2}
  Addrs = {uq}
  Memos = {m1, m2}
  Amounts = {1}
  NoInvoice = NoInvoice
  Writers = {w1, w2}
  Nobody = Nobody
  NoFile = NoFile
  Torn = Torn
  Times = {1}
INVARIANTS
  MemoryIsDurable
  IndexMatchesMap
PROPERTIES
  ContractSpec
  CallsReturn
