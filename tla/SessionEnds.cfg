\* One thread and fair scheduling, a server that may crash and restart.
SPECIFICATION SpecFair
CONSTANTS
    User = {u1}
    NoUser = NoUser
    Cycle = {c1, c2}
    Worker = {w1}
    Trigger = {"user_check_now"}
    Completion <- MCOneCompletion
    ProbeTimeout = 1
    ExtractionTimeout = 2
    Throttle = 2
    MaintenanceInterval = 2
    MaxLag = 1
    MaxTime = 6
PROPERTY CyclesEnd
