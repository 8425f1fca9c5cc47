CONSTANTS
  Workers = {w1}
  Monitor = Monitor
  Fallback = Fallback
  Providers = 1
  MaxSearches = 2
  MaxAttempts = 0
  MaxReleases = 1
  MaxTurns = 0
  Troubles <- NoTroubles
  MaxTroubles = 0
SPECIFICATION Spec
CHECK_DEADLOCK FALSE
INVARIANTS
  FallbackRepeats
