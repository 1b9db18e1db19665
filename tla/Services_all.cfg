CHECK_DEADLOCK FALSE
SPECIFICATION Services
CONSTANTS
    Beats = {b1, b2}
    Viewers = {}
    Cap = 3
    Faults <- AllFaults
    None = None
    Keys = {k1, k2}
    Values = {old, new}
    Readers = {r1}
    Writers = {w1}
    NoEntry = NoEntry
    MaxMonitors = 3
    Clients <- TreeClients
    Deadlines = {1, 2}
    Period = 3
    Checks = {c1, c2}
    Forwards = {f1, f2}
    Senders = {n1, n2}
    NoSender = NoSender
    Orientations = {FALSE}
    Windows = {FALSE}
    Watchdogs = {FALSE}
    mail = mail
    pager = pager
    prod = prod
    Notifications = {mail, pager}
    Tags = {prod}
    Severities = {1, 2}
    Routes <- SomeRoutes
    Handlers = {h1}
    Users = {u1, u2, u3}
    Managers = {m1, m2}
    Nobody = Nobody
    web = web
    Shown = {web}
    MaxGroups = 3
    Plans <- SomePlans
    Editors = {e1, e2}
    Pages = {p1, p2}
    Slugs = {s1, s2}
    Domains = {d1}
    Keepers = {a1, a2}
    Nowhere = Nowhere
    Tabs = {t1}
    MaxBeats = 3
    Limit = 1
    Full = 3
    Lines = {l1, l2}
    Kinds = {anomaly, warning}
    Cooldown = 2
    MaxTime = 2
    Messages = {msg}
    Taps = {w2, w3}
    NoMessage = NoMessage
    Window = 2
    LastBucket = 3
    PerBucket = 1
    Beans = {bean1, bean2}
    NoRunner = NoRunner
    Paces = {2, 3}
    Verdicts = {"UP", "DOWN", "MAINTENANCE"}
CONSTRAINT Followed
INVARIANTS
    TypesOK
    CountIsExact
    CacheAgrees
    Forest
    ParentIsGroup
    MirrorInOrder
    AlertIsExact
    SomebodyManages
    NoOrphanGroups
    AddressesStand
    TabShowsHistory
    ButtonsHold
    UptimeIsOfWindow
    OutageIsRepeated
PROPERTIES
    DeletionIsExact
    NoticesInTime
    SavedAsAsked
    AlertsAreSparse
