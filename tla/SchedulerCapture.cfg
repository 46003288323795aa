CONSTANTS
    PollsPerStop = 4
    MaxIOErrors = 2
    Networks = {"none", "wifi", "4G"}
    StorageEvery = 2
    UploadEvery = 2
    Tests = {}
    MaxTimers = 0
    MaxLowReturns = 0
    MaxKills = 1
SPECIFICATION Spec
VIEW CaptureView
INVARIANTS
    TypeOK
    StopLeavesQuiet
    BoundedBacklog
    UploadedFoldersClosed
    BacklogInv
