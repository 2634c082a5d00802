\* The doc comment on the remapper types, checked against what is appended.
SPECIFICATION Spec
CONSTANTS
  Scopes <- DeviceScopes
  Inputs <- ReceiverPoints
  Resources <- NoResource
  Earlier <- NoneEarlier
  IntegrationDataset = FALSE
  Millisecond = 2
  MaxPoints = 2
INVARIANT ProcessorMarked
CHECK_DEADLOCK FALSE
