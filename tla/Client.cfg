\* Two threads, one key and one handler, in the scenarios of MCClient, which bound what
\* is built, written, synchronised, unsubscribed and dropped.
SPECIFICATION Spec
CONSTANTS
    u1 = u1
    u2 = u2
    Users = {u1, u2}
    Nobody = nobody
    Keys = {"k", "invalid"}
    ValidKeys = {"k"}
    Priorities = {1}
    MaxHandlers = 1
    Scenarios <- MCScenarios
INVARIANTS TypeOK ManagedLoopsRun NoCallAfterReturn
PROPERTIES
    OnlyDisabledLeave DetachedUnlessLocked SyncReturns DisabledIsHeard RefusalIsHeard LoopEnds
\* Users may stop making calls.
CHECK_DEADLOCK FALSE
