\* One replica, four commits of one or two operations, room for at most three
\* small ones: both rejections of enqueue, and deques that empty, split and
\* miss the queue, all happen.
CONSTANTS
    Cuid = c1
    MaxMem = 7
    MaxCseq = 4
    MaxOps = 2
SPECIFICATION Spec
INVARIANTS
    TypeOK
    Contiguous
    MemAccounting
    FifoNoLoss
    BatchExact
PROPERTY DequeExact
