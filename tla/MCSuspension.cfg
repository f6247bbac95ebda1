CONSTANTS
    NumInstallments = 2
    FullPayment = FALSE
    MaxAttempts = 2
    Collectors = {"hourly"}
    Requests = {"request"}
    Grace = 0
    Faults = TRUE
SPECIFICATION SuspensionSpec
INVARIANTS
    RecordIsTrue
    AutomaticIsMarked
PROPERTIES
    DebtIsSuspended
    SettledIsLifted
CHECK_DEADLOCK FALSE
