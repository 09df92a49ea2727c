SPECIFICATION Spec
CONSTANTS
    n1 = n1
    Credentials <- MCCredentials
    Targets <- MCTargets
    Contexts <- MCContexts
    VarBinds <- MCVarBinds
    OwnDispatcher = FALSE
    OwnTransports = {}
    FailingTransports = TRUE
    Engines = {"e1"}
    MaxNames = 5
    MaxUses = 2
    Notifications = {n1}
    RetryCount = 1
    DiscoveryRetries = 1
    FailingSends = TRUE
    MaxReports = 1
CHECK_DEADLOCK FALSE
INVARIANTS CredentialsInEffect UsesAreCounted BooksCloseTogether
PROPERTY ReportedOnce
