CONSTANTS
  Origins <- BothOrigins
  Entries = {"a"}
  Size = 2
  Puts = {p1, p2}
  Finals = {f1}
  Tabs = {t1, t2}
  Reviewed <- Sftp
  Trees = {1, 2}
  MaxTroubles = 1
  MaxChanges = 1
SPECIFICATION FairSpec
CHECK_DEADLOCK FALSE
INVARIANTS
  UploadWhole
PROPERTIES
  ImplementsDelivery
  UploadEnds
