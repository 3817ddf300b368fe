\* Of two executions of one attempt, one leaves its result and the other its receipt.
SPECIFICATION Spec
CONSTANTS
    Action = {a1}
    P = p
    Proposal = {p}
    Worker = {w1, w2}
    NoWorker = NoWorker
    Request <- MCRequest
    Policies <- MCPolicies
    NoPolicy = NoPolicy
    Decision = {"authorized", "denied"}
    Timeout = 1
    MaxLag = 1
    MaxTime = 3
    LastProposal = 3
    MaxAttempt = 2
SYMMETRY MCSymmetry
INVARIANTS ReceiptTellsResult
