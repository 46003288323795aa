SPECIFICATION FairSpec
CONSTANTS
    Frequency = 2
    Capacity = 2
    Sizes = {1, 2}
    MaxBytes = 4
INVARIANTS
    TypeOK
    AssertionsHold
    WindowInv
    ActivityRemoved
PROPERTY
    ExitEnds
CHECK_DEADLOCK FALSE
