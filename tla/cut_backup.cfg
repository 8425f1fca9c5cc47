CONSTANTS
  Items = {m1}
  Workers = {w1}
  TrackCount = 1
  MaxTroubles = 2
SPECIFICATION Spec
CHECK_DEADLOCK FALSE
INVARIANTS
  ReturnedWhole
