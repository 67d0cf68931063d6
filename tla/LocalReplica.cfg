\* Two replicas with three operations each, in transactions of one or two, and a
\* counter of two bytes of two values each (-2..1), which two operations already
\* overflow and whose smallest value is among the deltas; the limit asked for is
\* raised to the lower bound, room for two transactions of one operation, not three.
SPECIFICATION Spec
CONSTANTS
    c1 = c1
    c2 = c2
    Replicas = {c1, c2}
    Creator = c1
    Bytes = 2
    Base = 2
    Deltas <- MCDeltas
    MaxOps = 3
    MaxTxOps = 2
    MaxMem = 3
    LowerMem = 5
    UpperMem = 9
INVARIANTS TypeOK ValueIsSum OperationIdsOrdered CausalUnlessRolledBack
\* With no operations left and everything exchanged, nothing happens.
CHECK_DEADLOCK FALSE
