CONSTANTS
    Workers = {w1, w2}
    Pages = {p1}
    MaxRequests = 2
    MaxTries = 1
    MaxRetries = 1
SPECIFICATION EnrollingSpec
INVARIANTS
    CompletedMeansEnrolled
    ClaimIsExclusive
    GrantedIsNotQueued
    RepeatsWereLost
    ContactsAreShared
CHECK_DEADLOCK FALSE
PROPERTIES
    ProvisioningSpec
    WaitingEnds
