SPECIFICATION Spec
CONSTANTS
    Requests = {q1}
    Watchdog = watchdog
    Settings <- ImpatientSettings
    Cap = 3
    Drops = FALSE
PROPERTIES
    RecoveryAnnounced
