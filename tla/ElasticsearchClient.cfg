CONSTANTS
    Labels <- MCLabels
    BadLabels <- MCBadLabels
    CloudIDs <- MCCloudIDs
    NoCloudID = NoCloudID
    Statuses <- MCStatuses
    Configs <- MCConfigs
    Environments <- MCEnvironments
    NoClient = NoClient
SPECIFICATION Spec
INVARIANTS
    TypeOK
    ValidatedAddresses
    ValidateForesees
    OneSource
    RetriesAsConfigured
    LoggingTransparent
    LoggedAsSent
CHECK_DEADLOCK FALSE
