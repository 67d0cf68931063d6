\* One caller of sync(), two commits that need two exchanges, two pushes of
\* other clients; the connectivity is realtime or manual, the datatype creates
\* or subscribes, exchanges fail or are refused at any time.
CONSTANTS
    Callers = {t1}
    Nobody = Nobody
    MaxCommits = 2
    MaxRemote = 2
    Batch = 1
SPECIFICATION FairSpec
INVARIANTS
    TypeOK
    SyncDelivers
    OnlySyncBypasses
    AcksAreTrue
PROPERTIES
    EverySyncReturns
    EverythingIsPushed
    NewsIsPulled
    DropEndsLoop
\* Nothing is left to do once the loop has ended.
CHECK_DEADLOCK FALSE
