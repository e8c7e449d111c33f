SPECIFICATION FairSpec
CONSTANTS
  Uuids = {u1, u2}
  Stops = {s1}
  Cancels = {}
  MaxProcs = 1
  TimesOut = {s1}
  Faults = {"overlap", "close", "refuse"}
PROPERTY MessageFates
CHECK_DEADLOCK FALSE
