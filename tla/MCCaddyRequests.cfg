CONSTANTS
    Sites = {"siyuan", "zhiyuan"}
    Names <- MCNames
    SiteOrder <- MCSiteOrder
    DotNames = {".s", ".l"}
    ListedName = ".l"
    Words <- MCWords
    LargeFiles = {"iso"}
    Cases <- MCCases
SPECIFICATION FairSpec
CHECK_DEADLOCK FALSE
INVARIANTS
    RequestTypeOK
    OwnerAnswers
    DownloadsCharged
    PlainHTTPOnlyWhenAsked
    ScreenedFirst
    MonitorGuarded
PROPERTIES
    Answered
