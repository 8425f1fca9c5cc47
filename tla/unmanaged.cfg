CONSTANTS
  Tracks = {t1, t2}
  Overlap = TRUE
  Troubles <- AllTroubles
  MaxTroubles = 2
  MaxRetries = 1
SPECIFICATION FairSpec
CHECK_DEADLOCK FALSE
INVARIANTS
  NothingLost
  PublishedComplete
  IntentTrue
  StateMatchesLibrary
PROPERTIES
  ImplementsPublication
  ImportResumed
