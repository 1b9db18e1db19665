SPECIFICATION Spec
CONSTANTS
    Configs <- DockerConfigs
    Cap = 3
    Faults <- NoFaults
PROPERTY
    DownNeverPending
