\* Two changes of the source, three kills or failures.
SPECIFICATION FairSpec
CONSTANTS
    MaxVersion = 3
    MaxFaults = 3
INVARIANTS
    GitTypeOK
    PublishedWhole
PROPERTIES
    SyncRecovers
