SPECIFICATION Spec
CONSTANTS
  Ids = {i1}
  Workers = {w1}
  Handlers = {h1}
  Retries = 2
  MaxDeliveries = 1
  PollEnabled = TRUE
  UsesPostgres = FALSE
  NoId = NoId
CHECK_DEADLOCK FALSE
INVARIANTS
  DrainCoversSettled
