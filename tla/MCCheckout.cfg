CONSTANTS
    NumInstallments = 1
    FullPayment = FALSE
    MaxAttempts = 2
    r1 = r1
    r2 = r2
    Requests = {r1, r2}
SPECIFICATION PageSpec
INVARIANTS
    NoFalseSuccess
    PaymentStaysReachable
    ShownLinkIsKnown
    NotStartedIsUncharged
CHECK_DEADLOCK FALSE
SYMMETRY Symmetry
