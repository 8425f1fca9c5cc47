CONSTANTS
  Workers = {w1}
  Monitor = Monitor
  Fallback = Fallback
  Providers = 1
  MaxSearches = 1
  MaxAttempts = 0
  MaxReleases = 2
  MaxTurns = 1
  Troubles <- LivenessTroubles
  MaxTroubles = 1
SPECIFICATION FairSpec
CHECK_DEADLOCK FALSE
PROPERTIES
  SearchEnds
  FallbackEnds
  CompletedDelivered
