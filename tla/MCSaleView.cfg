CONSTANTS
    NumInstallments = 1
    FullPayment = FALSE
    MaxAttempts = 1
    MaxChecks = 1
    Events = {e1}
    Checkers = {"hourly", "staff"}
SPECIFICATION WebhooksSpec
INVARIANT FilterMissesOnlyLate
PROPERTIES
    Spec
    ReportedPaymentIsSeenTo
CHECK_DEADLOCK FALSE
