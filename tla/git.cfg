SPECIFICATION MCSpec
CONSTANTS
  N = 3
  MaxPatches = 2
  MaxEvents = 2
  MaxRequests = 2
  MaxBudget = 3
  Requests = {r1, r2}
CONSTRAINT Budget
SYMMETRY RequestSymmetry
INVARIANTS WorkIsKept DoneIsUpToDate
PROPERTIES StacksKeepApart ConflictIsUsers
CHECK_DEADLOCK FALSE
