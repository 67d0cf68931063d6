\* Three concurrent calls, each a single operation or a transaction of up to
\* two operations, a push buffer that takes two of the three commits, and an
\* event loop that may disable the datatype at any moment.
CONSTANTS
    Threads = {t1, t2, t3}
    MaxTxOps = 2
    MaxMem = 5
    Disables = TRUE
SPECIFICATION FairSpec
INVARIANTS
    TypeOK
    Isolation
    AllOrNothing
    OneTransactionPerCall
    CseqWithoutGap
PROPERTY EveryCallReturns
