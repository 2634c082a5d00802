SPECIFICATION FairSpec
CONSTANTS
  Scopes <- DeviceScopes
  Inputs <- ReceiverPoints
  Resources <- NoResource
  Earlier <- Remapped
  IntegrationDataset = FALSE
  Millisecond = 2
  MaxPoints = 4
INVARIANTS
  FilesystemBalanced
  EveryPointOnce
  NoPanic
  OutputsMarked
PROPERTIES
  InPlaceInert
  Returns
CHECK_DEADLOCK FALSE
