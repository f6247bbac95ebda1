CONSTANTS
    NumInstallments = 1
    FullPayment = FALSE
    MaxAttempts = 2
    MaxChecks = 1
    Events = {e1}
    Checkers = {"hourly"}
SPECIFICATION WebhooksSafety
INVARIANTS
    NoFalseSuccess
    ProcessedMeansRecorded
CHECK_DEADLOCK FALSE
VIEW WebhooksView
