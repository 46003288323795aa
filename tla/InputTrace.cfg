SPECIFICATION FairSpec
CONSTANTS
    NCaptures = 4
    NMonitors = 4
    MaxScreen = 1
    MaxMishaps = 1
    MaxKills = 1
INVARIANTS
    TypeOK
    CrashesExplained
    MonitorsReachable
    UploadTearsUnseen
PROPERTIES
    CriticalStops
    CaptureRecurs
