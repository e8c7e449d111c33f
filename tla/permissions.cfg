SPECIFICATION Spec
CONSTANTS
  Requests = {r, q}
  Questions = {q}
  Responders = {u1, u2, u3}
  Posts = {p1, p2}
  Modes = {default, plan}
  Default = default
  None = None
  MaxClis = 2
  MaxActors = 4
INVARIANTS RequestsAreAnswered ShownIsVerdict 
CHECK_DEADLOCK FALSE
