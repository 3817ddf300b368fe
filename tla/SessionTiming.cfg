\* One thread, a server that stays up, the contract's times in units of 20 s:
\* probe 20 s, extraction 80 s (90 rounded down), heartbeat and throttle 60 s.
SPECIFICATION SpecUp
CONSTANTS
    User = {u1}
    NoUser = NoUser
    Cycle = {c1, c2}
    Worker = {w1}
    Trigger = {"user_check_now", "scheduled_recheck"}
    Completion <- MCOneCompletion
    ProbeTimeout = 1
    ExtractionTimeout = 4
    Throttle = 3
    MaintenanceInterval = 3
    MaxLag = 1
    MaxTime = 10
SYMMETRY MCSymmetry
INVARIANTS OverdueBounded CycleAgeBounded ThrottleRespected
