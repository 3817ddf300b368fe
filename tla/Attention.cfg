SPECIFICATION FairSpec
CONSTANTS
    Cause = {login, stale}
    AuthCause = {login, stale}
    TrustCause = {}
    HumanNeeded = {login}
    HumanOnly = {login}
    Try = {}
    NoCause = none
    MaxFault = 1
    login = login
    stale = stale
INVARIANTS
    TypeOK
    PushedOnce
PROPERTIES
    InFlightEnds
    BlockerDelivered
