\* A client leaves the key, builds it again and writes.
CONSTANTS
    Clients = {c1, c2}
    MaxInst = 2
    MaxTxOps = 1
    MaxMem = 4
    ReadOnly = {c2}
    Scenarios <- AgainScenarios
CHECK_DEADLOCK FALSE
SPECIFICATION Spec
INVARIANT SyncedIsStored
