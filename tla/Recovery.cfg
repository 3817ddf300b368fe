SPECIFICATION FairSpec
CONSTANTS
    AuthCause = {mfa, stale}
    TrustCause = {offline, stale}
    HumanNeeded = {mfa}
    HumanOnly = {mfa}
    MaxFault = 1
    mfa = mfa
    stale = stale
    offline = offline
INVARIANTS
    TypeOK
    EscalationEarned
    NoOrphanRunning
PROPERTIES
    ImplementsEpisode
    CaseEnds
    FailureSurfaces
