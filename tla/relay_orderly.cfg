SPECIFICATION Spec
CONSTANTS
    Tracks = {t1}
    Publishers = {p1, p2}
    Subscribers = {s1, s2}
    Watchers = {w1}
    None = None
    MaxEpoch = 3
    Hop = FALSE
    Takeover = FALSE
    LateDrain = TRUE
SYMMETRY Symmetry
INVARIANTS NullHandleMeansEnded SubscribersAreFed
PROPERTY LastSubscriberLeft
