CONSTANTS
  P = P
  F = F
  Candidates = {P, F}
  None = None
  Worker = Worker
  Source <- MCSource
  Place <- MCPlace
  Window = 1
  LastApproval = 0
  LateGrabs = FALSE
  Troubles <- Faults
  MaxTroubles = 1
  Openings <- CompleteOpenings
SPECIFICATION FairSpec
CHECK_DEADLOCK FALSE
PROPERTIES
  ApprovalDecided
  WinnerImported
