SPECIFICATION FairSpec
CONSTANTS
    Tracks = {t1}
    MaxForwarder = 3
    Subscribers = {s1}
    Channels = {c1}
INVARIANTS NoStrandedWaiter ServedWithState
PROPERTIES OnlyItsOwn WaitersReleased
CHECK_DEADLOCK FALSE
