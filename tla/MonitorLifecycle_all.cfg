CHECK_DEADLOCK FALSE
SPECIFICATION FairSpec
CONSTANTS
    Runners = {r1, r2, r3}
    Handlers = {h1, h2}
    Settings <- AllSettings
    None = None
INVARIANTS
    UnstoppedIsListed
    PolledStopLeavesNoTimer
    RowAgreesWithRunner
PROPERTY
    PauseEndsRunners
