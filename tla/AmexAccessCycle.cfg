SPECIFICATION Spec
CONSTANTS
    MaxCycle = 1
    Runner = {r1, r2}
    NoRunner = none
    Worker = {w1}
    PageSeen <- MCPageSeen
    ReportKind <- MCReport
    Before <- MCBefore
    MaxTime = 1
    MaxFault = 1
SYMMETRY Symmetric
INVARIANTS
    TypeOK
    SuccessHasExtraction
    StoredNotClaimable
    OneExtractionPerCycle
    NotStranded
PROPERTIES
    EvidenceHasCause
    EvidenceImproves
    KeepsCyclePromises
CHECK_DEADLOCK FALSE
