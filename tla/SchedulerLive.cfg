CONSTANTS
    PollsPerStop = 4
    MaxIOErrors = 1
    Networks = {"none", "4G"}
    StorageEvery = 1
    UploadEvery = 2
    Tests = {}
    MaxTimers = 0
    MaxLowReturns = 1
    MaxKills = 1
SPECIFICATION FairSpec
PROPERTIES
    CaptureRecurs
    MonitoringRecurs
    UploadsLetGo
    GoesRound
