\* Both scripts, with the default backoff and enough attempts to reach its cap.
SPECIFICATION FairSpec
CONSTANTS
    MaxRetries = 6
    RetryBase = 30
    RetryCap = 600
    WordBits = 16
    LugRetries = 2
    RsyncCodes <- Codes
INVARIANTS
    TypeOK
    TransientRetried
    SuccessMeansSynced
    DelayBounds
PROPERTIES
    KnownHostsKept
    SyncEnds
