SPECIFICATION Spec
CONSTANTS
  h1 = h1  h2 = h2
  Hashes = {h1, h2}
  BadHash = BadHash
  Garbage = Garbage
  Second = 4
  MaxInt = 15
  DefaultTTLSeconds = 1
  MaxTTLSeconds = 2
  PollSeconds = 1
  PollWorkers = 4
  Environments <- SomeEnvironments
  Ids = {i1}
  Bodies <- SomeBodies
  ApiKeys <- SomeKeys
  Peers = {"p1"}
  Forwarded <- SomeForwarded
  Burst = 2
  Rate = 1
  MockPolls = 2
  Decimals = 2
  Sizes <- SomeSizes
  NoInvoice = NoInvoice
  NoReply = NoReply
  MaxElapsed = 1
CHECK_DEADLOCK FALSE
INVARIANTS
  WiringSane
  ProdPaidMeansPaid
  ProdAddressesCanonical
  LifetimeWithinCap
  AmountReadsBack
  KeyGuardsInvoices
  WorkPerPeerBounded
PROPERTIES
  RefusedHasNoEffect
