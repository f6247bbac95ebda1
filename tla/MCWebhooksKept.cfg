CONSTANTS
    NumInstallments = 1
    FullPayment = FALSE
    MaxAttempts = 1
    MaxChecks = 1
    Events = {e1, e2}
    Checkers = {}
SPECIFICATION WebhooksSafety
PROPERTIES
    UnconfirmedReportIsKept
CHECK_DEADLOCK FALSE
