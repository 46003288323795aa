SPECIFICATION Spec
CONSTANTS
    Frequency = 1
    Capacity = 1
    Sizes = {1}
    MaxBytes = 3
INVARIANT
    ShownVolume
CHECK_DEADLOCK FALSE
