CONSTANTS
    NumInstallments = 2
    FullPayment = FALSE
    MaxAttempts = 3
SPECIFICATION Spec
INVARIANTS
    TypeOK
    OneActiveAttempt
    PaidHasPayer
    ConfirmationFollowsPayment
    OrderMatchesPayments
    AccessFollowsPolicy
PROPERTIES
    HistoryIsFinal
    LedgerIsKept
VIEW RecordsView
