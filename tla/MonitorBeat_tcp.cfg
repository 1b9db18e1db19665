SPECIFICATION Spec
CONSTANTS
    Configs <- TcpConfigs
    Cap = 3
    Faults <- NoFaults
INVARIANT
    FailureIsNotUp
