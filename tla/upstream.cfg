CONSTANTS
    l1 = l1
    l2 = l2
    r1 = r1
    Loops = {l1, l2}
    Requests = {r1}
    MaxConnect = 3
    MaxMishap = 2
    MaxBackoff = 2
SPECIFICATION FairSpec
CHECK_DEADLOCK FALSE
INVARIANTS
    EnsuresUnlessEarly
    SessionIsCurrent
PROPERTIES
    Reconnects
    RequestsEnd
