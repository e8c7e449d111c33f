SPECIFICATION FairProcessSpec
CONSTANTS
  Requests = {r1, r2}
  Asks = {a1}
  Killers = {k1}
  User = user
  MaxMessages = 1
  PipeSize = 1
  Timeout = TRUE
  Overlong = TRUE
INVARIANT ProcessInvariant
PROPERTIES CallersReturn ScanReadsOn
CHECK_DEADLOCK FALSE
