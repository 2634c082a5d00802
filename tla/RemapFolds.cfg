SPECIFICATION Spec
CONSTANTS
  Scopes <- AllFoldScopes
  Inputs <- ReceiverPoints
  Resources <- TwoResources
  Earlier <- Remapped
  IntegrationDataset = TRUE
  Millisecond = 2
  MaxPoints = 3
INVARIANTS
  TypeOK
  CpuBalanced
  MemoryBalanced
  TotalsCoverParts
  AllOrNothing
  RuntimePositive
  OutputsMarked
CHECK_DEADLOCK FALSE
