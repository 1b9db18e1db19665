CHECK_DEADLOCK FALSE
SPECIFICATION Lasting
CONSTANTS
    Configs <- UpsideConfigs
    Cap = 3
    Faults <- AllFaults
    Keys = {k1}
    Values = {old, new}
    Readers = {r1}
    Writers = {w1}
    NoEntry = NoEntry
    MaxMonitors = 2
    Clients <- TreeClients
    Forwards = {f1, f2}
    Senders = {n1}
    NoSender = NoSender
    Orientations = {TRUE}
    Windows = {TRUE, FALSE}
    Watchdogs = {TRUE, FALSE}
CONSTRAINT Followed
PROPERTIES
    LastingIsKnown
    CacheSettles
    TreeCallsEnd
    MirrorSettles
