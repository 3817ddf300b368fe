\* Two actions of one proposal, two threads; actions expire after one unit.
SPECIFICATION Spec
CONSTANTS
    Action = {a1, a2}
    P = p
    Proposal = {p}
    Worker = {w1, w2}
    NoWorker = NoWorker
    Request <- MCRequest
    Policies <- MCPolicies
    NoPolicy = NoPolicy
    Decision = {"authorized", "denied"}
    Timeout = 1
    MaxLag = 1
    MaxTime = 3
    LastProposal = 2
    MaxAttempt = 2
INVARIANTS TypeOK GrantBeforeRun ReceiptChain DecidedInTime
PROPERTIES RefusalFinal ReceiptsImmutable ImplementsAuthorization
SYMMETRY MCSymmetry
