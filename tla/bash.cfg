SPECIFICATION FairBufferSpec
CONSTANTS
  Requests = {r1, r2}
  MaxStreamLines = 3
  MaxWritten = 6
INVARIANTS OutputIsDelivered SomeReaderUpToDate
PROPERTY SomeReaderEnds
CHECK_DEADLOCK FALSE
