SPECIFICATION FairSpec
CONSTANTS
    Requests = {q1}
    Watchdog = watchdog
    Settings <- AllSettings
    Cap = 3
    Drops = TRUE
INVARIANTS
    ReminderInTime
    DownOnlyAfterRetries
PROPERTIES
    FeedImplemented
    SilenceIsHeard
