CONSTANTS
  Sources <- BothSources
  MaxChanges = 2
  MaxTroubles = 2
  MaxDecisions = 2
SPECIFICATION FairSpec
CHECK_DEADLOCK FALSE
INVARIANTS
  FilesFollowState
  ImportAgrees
PROPERTIES
  ImplementsCustody
  CandidateSettles
