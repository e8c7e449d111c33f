SPECIFICATION Spec
CONSTANTS
  Uuids = {u1, u2}
  Stops = {s1}
  Cancels = {c1}
  MaxProcs = 2
  TimesOut = {u1, u2, c1}
  Faults = {"exit", "refuse"}
INVARIANTS BubbleLostOnlyToOverlappingStop CancelledIsFinal QueueMirrorsClaude  AnnouncedIsTrue
SYMMETRY MessageSymmetry
CHECK_DEADLOCK FALSE
