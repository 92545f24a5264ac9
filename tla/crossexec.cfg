CONSTANTS
    Track = Track
    Subgroups = {s1}
    MaxCalls = 2
    MaxQueue = 3
    Sizes = {0, 1, 2}
    Window = 3
    MaxBytes = 10
    MaxFetchQueue = 4
SPECIFICATION MCSpec
INVARIANTS
    NoDanglingTask
    ForwarderOutlives
    NothingAfterTheEnd
    WindowHolds
PROPERTIES
    FiltersAreFreed
    BlockedGoesOn
CHECK_DEADLOCK FALSE
