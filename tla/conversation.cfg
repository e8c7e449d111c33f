SPECIFICATION Spec
CONSTANTS
  MaxSends = 3
  MaxLines = 2
  MaxLoads = 1
  MaxEvents = 2
INVARIANTS  RewindsFromTheEnd
 
CHECK_DEADLOCK FALSE
CONSTRAINT Followed
