\* Two threads with scheduled requests only.
SPECIFICATION SpecUp
CONSTANTS
    User = {u1}
    NoUser = NoUser
    Cycle = {c1, c2}
    Worker = {w1, w2}
    Trigger = {"scheduled_recheck"}
    Completion <- MCOneCompletion
    ProbeTimeout = 1
    ExtractionTimeout = 4
    Throttle = 3
    MaintenanceInterval = 3
    MaxLag = 1
    MaxTime = 4
SYMMETRY MCSymmetry
INVARIANT ThrottleRespected
