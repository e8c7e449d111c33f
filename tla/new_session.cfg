SPECIFICATION FairSpec
CONSTANTS
  Sends = {p1}
  Clients = {c1}
  None = None
  MaxReplies = 2
INVARIANTS SessionBeginsRight PageShowsSession
 
CHECK_DEADLOCK FALSE
