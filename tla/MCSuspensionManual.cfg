CONSTANTS
    NumInstallments = 2
    FullPayment = FALSE
    MaxAttempts = 2
    Collectors = {"hourly"}
    Requests = {"request"}
    Grace = 0
    Faults = FALSE
SPECIFICATION SuspensionSpec
PROPERTIES
    ManualIsKept
CHECK_DEADLOCK FALSE
