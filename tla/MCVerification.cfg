CONSTANTS
    PaymentIds = {p1, p2, p3}
    Product = own
    Nothing = nothing
    MaxCandidates = 2
    MaxNamed = 1
SPECIFICATION Spec
INVARIANTS
    SuccessIsProved
    ProofIsTaken
    FailureIsUnopposed
    TrustedIdsComeFirst
CHECK_DEADLOCK FALSE
