CONSTANTS
    NumInstallments = 1
    FullPayment = FALSE
    MaxAttempts = 2
    Requests = {r1}
SPECIFICATION CheckoutSpec
PROPERTIES
    SucceedingCredits
CHECK_DEADLOCK FALSE
