CONSTANTS
  Items = {m1, m2}
  Workers = {w1, w2}
  TrackCount = 2
  MaxTroubles = 2
SPECIFICATION Spec
SYMMETRY Symmetry
CONSTRAINT Apart
CHECK_DEADLOCK FALSE
INVARIANTS
  UntouchedUntilCatalog
  MigratedInLibrary
  CopyLeft
  OneCommand
