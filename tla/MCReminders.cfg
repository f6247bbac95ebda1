CONSTANTS
    Collectors = {"hourly", "command"}
    Hourly = "hourly"
    MaxTries = 2
    RemindsBefore = FALSE
SPECIFICATION Spec
INVARIANTS
    SentWasMailed
    RepeatsAreExcused
PROPERTIES
    ReminderSettles
CHECK_DEADLOCK FALSE
