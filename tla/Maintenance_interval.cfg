CHECK_DEADLOCK FALSE
SPECIFICATION Spec
CONSTANTS
    Settings <- EverySecondDay
    Day = 3
    MaxDelay = 2
    Horizon = 9
    Jobs = {j1}
    Handlers = {h1}
    None = None
INVARIANT
    EveryKthDay
