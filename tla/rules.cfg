CONSTANTS
  Pool <- MCPool
  Window = 2
  Horizon = 3
  MaxInt = 200
  Basis = 10
  TrackAuto <- MCTrackAuto
  TrackManual <- MCTrackManual
  ReleaseAuto <- MCReleaseAuto
  ReleaseManual <- MCReleaseManual
  SearchLimit = 1
  SearchAttempts = 2
  Names <- MCNames
  Component <- MCComponent
  Attempts = 2
  Troubles = {"call_lost", "answer_lost", "edit"}
  MaxTroubles = 2
  MaxRuns = 2
  MaxUnlike = 1
  Callers = {c1, c2}
  AlbumOf <- MCAlbumOf
  Profiles = {1, 2}
  PollAttempts = 2
  MaxMishaps = 1
SYMMETRY MCSymmetry
SPECIFICATION MCSpec
CHECK_DEADLOCK FALSE
INVARIANTS
  WinnerPreferred
  MatchAsStated
  IdentityAsStated
  TargetsDistinct
  PlanReadBack
  SetupConfigures
  PreferencesKept
  CatalogAsAsked
PROPERTIES
  LateApprovalIgnored
