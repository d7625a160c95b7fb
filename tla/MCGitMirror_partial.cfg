\* One kill or failure, a source that changes once.
SPECIFICATION FairSpec
CONSTANTS
    MaxVersion = 2
    MaxFaults = 1
PROPERTIES
    PartialCloneHeals
