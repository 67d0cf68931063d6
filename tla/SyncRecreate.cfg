\* A response arrives while a transaction is open and the transaction is rolled
\* back, or the response to Creating is lost: the replica is Creating once more.
CONSTANTS
    Clients = {c1, c2}
    MaxInst = 1
    MaxTxOps = 1
    MaxMem = 4
    ReadOnly = {}
    Scenarios <- RecreateScenarios
CHECK_DEADLOCK FALSE
SPECIFICATION Spec
INVARIANT Converged
