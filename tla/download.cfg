SPECIFICATION FairSpec
CONSTANTS
    Kinds = {"sparse", "bulk"}
    FaultyKinds = {"sparse"}
    MaxPages = 4
    MaxDownloads = 2
INVARIANTS TypeOK NoCacheRace NoUseAfterReturn FailureMeansFault
PROPERTIES DownloadEnds ImplementsDownload
CHECK_DEADLOCK FALSE
