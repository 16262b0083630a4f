SPECIFICATION ExitFair
CONSTANTS
  Ids = {i1, i2}
  Workers = {w1}
  Handlers = {h1}
  Retries = 2
  MaxDeliveries = 1
  PollEnabled = TRUE
  UsesPostgres = TRUE
  NoId = NoId
CHECK_DEADLOCK FALSE
INVARIANTS
  SweepsDoNotOverlap
  DeliveriesAccounted
  OneNotifier
  DrainLosesNothing
PROPERTIES
  ShutdownTerminates
  DeliveriesEnd
  PendingRechecked
