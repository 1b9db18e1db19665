SPECIFICATION Spec
CONSTANTS
    Configs <- EditedConfigs
    Cap = 3
    Faults <- AllFaults
INVARIANTS
    TypeOK
    DownOnlyAfterRetries
    ReminderInTime
    FailureIsNotUp
PROPERTY
    FeedImplemented
