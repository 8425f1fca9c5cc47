CONSTANTS
  P = P
  F = F
  Candidates = {P, F}
  None = None
  Worker = Worker
  Source <- MCSource
  Place <- MCPlace
  Window = 1
  LastApproval = 1
  LateGrabs = TRUE
  Troubles <- SafetyTroubles
  MaxTroubles = 1
  Openings <- AllOpenings
SPECIFICATION Spec
CONSTRAINT Apart
CHECK_DEADLOCK FALSE
INVARIANTS
  AuthorizedIsWinner
  AcknowledgedIsDone
  AnswersNameWinner
  WinnerInTime
PROPERTIES
  ImplementsAuthority
