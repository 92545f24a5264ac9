SPECIFICATION FairSpec
CONSTANTS
    Tracks = {t1}
    Publishers = {p1, p2}
    Subscribers = {s1, s2}
    Watchers = {}
    None = None
    MaxEpoch = 2
    Hop = TRUE
    Takeover = TRUE
    LateDrain = TRUE
INVARIANTS NoAbort WaitersServed OwnHandle
PROPERTY WaitersAnswered
