SPECIFICATION FairSpec
CONSTANTS
  Producers = {b1}
  MaxMsgs = 2
  Clients = {c1, c2}
  ModelCap = 1
  ClientCap = 1
INVARIANTS PageShowsLog ModelFoldsLog
PROPERTY LoadEnds
CHECK_DEADLOCK FALSE
