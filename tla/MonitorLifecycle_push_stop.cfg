CHECK_DEADLOCK FALSE
SPECIFICATION Spec
CONSTANTS
    Runners = {r1, r2, r3}
    Handlers = {h1}
    Settings <- PushSettings
    None = None
INVARIANT
    StopLeavesNoTimer
