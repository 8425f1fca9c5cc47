CONSTANTS
  P = P
  F = F
  Candidates = {P, F}
  None = None
  Worker = Worker
  Source <- MCSource
  Place <- MCPlace
  Window = 1
  LastApproval = 0
  LateGrabs = TRUE
  Troubles <- NoTroubles
  MaxTroubles = 0
  Openings <- FallbackOpening
SPECIFICATION ProgressSpec
CHECK_DEADLOCK FALSE
PROPERTIES
  ApprovedWins
