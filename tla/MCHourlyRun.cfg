CONSTANTS
    Workers = {"hourly", "thread"}
    MaxSends = 2
    MaxRetries = 1
    FrequentJob = TRUE
    Runs = {"hourly"}
    Commands = {"command"}
    NoRun = "none"
    MaxBreaks = 1
    MaxExcuses = 1
SPECIFICATION HourlySpec
INVARIANTS
    SentWasDelivered
    MailsAreBounded
    DigestsDoNotRepeat
PROPERTIES
    DeliverySettles
    ReviewReachesTeam
CHECK_DEADLOCK FALSE
