CONSTANTS
    t1 = t1
    t2 = t2
    PollsPerStop = 4
    MaxIOErrors = 0
    Networks = {"3G"}
    StorageEvery = 1
    UploadEvery = 1
    Tests = {t1, t2}
    MaxTimers = 1
    MaxLowReturns = 2
    MaxKills = 1
SYMMETRY TestSymmetry
SPECIFICATION Spec
INVARIANTS
    WakeLockCoversUpload
    HoldsAccounted
    StaleUploadFlagFromLowBattery
    ProbeFlagHasOwner
