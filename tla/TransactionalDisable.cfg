CONSTANTS
    Threads = {t1, t2}
    MaxTxOps = 2
    MaxMem = 8
    Disables = TRUE
SPECIFICATION Spec
INVARIANT FailedTransactionLeavesNothing
