SPECIFICATION Spec
CONSTANTS
  Labels = {l1, l2}
  Models = {m1, m2}
  Paths = {x, y}
  Comments = {c1, c2}
  None = None
  Torn = Torn
  Requests = {r1, r2, r3}
  Families = {"session", "tracker", "archive", "reviews"}
  MaxRequests = 6
  MaxCrashes = 1
SYMMETRY Symmetric
INVARIANTS   ArchiveAgrees ReviewsKept
PROPERTY RestartKeeps
CHECK_DEADLOCK FALSE
