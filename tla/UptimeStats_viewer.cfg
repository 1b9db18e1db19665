SPECIFICATION Spec
CONSTANTS
    Beats = {b1}
    Viewers = {v1}
    Cap = 4
    Faults <- NoFaults
    None = None
INVARIANTS
    CountsOnLoaded
