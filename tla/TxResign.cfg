SPECIFICATION UnrefusedSpec
CONSTANTS
  Keys = {k1}
  MaxAttempts = 2
  Reopenable = {}
  MaxReopens = 0
  NonceBound = 4
  MaxAborts = 0
  Slow = TRUE
INVARIANTS NothingResignedInFlight
CHECK_DEADLOCK FALSE
