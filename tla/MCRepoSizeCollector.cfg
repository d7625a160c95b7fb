\* The service and a run by hand, two repositories, three attempts.
SPECIFICATION FairSpec
CONSTANTS
    Procs = {"service", "byhand"}
    Repos = {1, 2}
    MaxClock = 2
    MaxRuns = 3
    MaxChanges = 1
INVARIANTS
    CollectorTypeOK
    SampleVouched
    ScanNeverOverstated
PROPERTIES
    SizesAreOneScan
    CollectionEnds
