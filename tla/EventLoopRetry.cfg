\* A notification, one failed exchange, and a server that answers from then on.
CONSTANTS
    Callers = {t1}
    Nobody = Nobody
    MaxCommits = 2
    MaxRemote = 1
    Batch = 1
SPECIFICATION FairSpec
PROPERTIES RetriesAfterTimeout
CHECK_DEADLOCK FALSE
