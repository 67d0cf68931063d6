\* Three clients, one of them read-only, in the scenarios of MCSyncProtocol: who takes
\* part, writes and builds the datatype how often, and meets which faults.  A push
\* buffer holds two transactions of one operation, or one of two.
CONSTANTS
    Clients = {c1, c2, c3}
    MaxInst = 2
    MaxTxOps = 2
    MaxMem = 4
    ReadOnly = {c3}
    Scenarios <- SyncScenarios
SYMMETRY WriterSymmetry
\* With all clients Disabled and no datatype left to build, nothing happens.
CHECK_DEADLOCK FALSE
SPECIFICATION Spec
INVARIANTS
    TypeOK
    ReplicaExact
    OrderlyConverged
    UnackedIsPushed
    AckedIsStored
    PanicFree
PROPERTY ImplementsLog
