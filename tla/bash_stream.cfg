SPECIFICATION FairSpec
CONSTANTS
  Tools = {1, 2}
  MayDetach = {2}
  Readers = {r1}
  None = None
  Blank = Blank
INVARIANTS ChipShowsItsCommand
PROPERTIES ReadersAreServed CommandsEnd
CHECK_DEADLOCK FALSE
