\* Two threads and two cycles of one user, a server that may crash.
SPECIFICATION Spec
CONSTANTS
    User = {u1}
    NoUser = NoUser
    Cycle = {c1, c2}
    Worker = {w1, w2}
    Trigger = {"user_check_now"}
    Completion <- MCCompletion
    ProbeTimeout = 1
    ExtractionTimeout = 1
    Throttle = 2
    MaintenanceInterval = 1
    MaxLag = 1
    MaxTime = 2
SYMMETRY MCSymmetry
INVARIANTS TypeOK SingleActive
PROPERTIES LifecycleForward TerminalIsFinal ImplementsAccessCycle
