\* A client subscribes while the creator has an operation the server has not
\* acknowledged; nothing is lost and nobody rolls back or unsubscribes.
CONSTANTS
    Clients = {c1, c2}
    MaxInst = 1
    MaxTxOps = 1
    MaxMem = 4
    ReadOnly = {}
    Scenarios <- LateScenarios
CHECK_DEADLOCK FALSE
SPECIFICATION Spec
INVARIANT Converged
