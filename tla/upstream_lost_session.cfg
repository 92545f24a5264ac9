CONSTANTS
    l1 = l1
    l2 = l2
    r1 = r1
    r2 = r2
    Loops = {l1}
    Requests = {r1}
    MaxConnect = 2
    MaxMishap = 1
    MaxBackoff = 1
SPECIFICATION Spec
CHECK_DEADLOCK FALSE
INVARIANT
    EnsuresSession
