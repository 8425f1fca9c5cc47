CONSTANTS
  Workers = {w1, w2}
  Monitor = Monitor
  Fallback = Fallback
  Providers = 2
  MaxSearches = 2
  MaxAttempts = 1
  MaxReleases = 2
  MaxTurns = 2
  Troubles <- AllTroubles
  MaxTroubles = 1
SPECIFICATION Spec
CONSTRAINT Apart
SYMMETRY WorkerSymmetry
CHECK_DEADLOCK FALSE
INVARIANTS
  OneWorker
PROPERTIES
  PrimaryCorrelated
  PrimaryStopsFallback
  StoredWhole
