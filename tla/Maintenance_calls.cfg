CHECK_DEADLOCK FALSE
SPECIFICATION Spec
CONSTANTS
    Settings <- AllSettings
    Day = 3
    MaxDelay = 2
    Horizon = 6
    Jobs = {j1, j2}
    Handlers = {h1, h2}
    None = None
SYMMETRY Symmetric
INVARIANTS
    TypeOK
    WindowExact
    OpenWindowHasTimer
    OneJob
    RowIsBean
CONSTRAINT
    RacesAreShort
