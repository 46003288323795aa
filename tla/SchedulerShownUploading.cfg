CONSTANTS
    PollsPerStop = 4
    MaxIOErrors = 0
    Networks = {"wifi", "4G"}
    StorageEvery = 1
    UploadEvery = 2
    Tests = {"t1", "t2"}
    MaxTimers = 0
    MaxLowReturns = 1
    MaxKills = 0
SPECIFICATION Spec
INVARIANT ShownUploading
