CONSTANTS
    Sites = {"siyuan", "zhiyuan"}
    Names <- MCNames
    SiteOrder <- MCSiteOrder
    DotNames = {".s"}
    ListedName = ".l"
    SiteFiles <- MCSiteFiles
    MaxEdits = 1
    MaxRuns = 2
SPECIFICATION Spec
CHECK_DEADLOCK FALSE
INVARIANTS
    GenTypeOK
    UnifiedNamespace
    NoRedirectLoop
    LocalListsAreLocal
    CleanHookMeansFresh
