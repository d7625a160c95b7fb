\* What rsync.sh promises, also where rsync-ssh.sh sources it; default retries.
SPECIFICATION Spec
CONSTANTS
    MaxRetries = 4
    RetryBase = 30
    RetryCap = 600
    WordBits = 16
    LugRetries = 2
    RsyncCodes <- Codes
INVARIANTS
    TransientRetriedEverywhere
