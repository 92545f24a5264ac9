CONSTANTS
    a = a
    f1 = f1
    f2 = f2
    NumGroups = 3
    Width = 3
    Names = {a, other}
    maxCachedTracks = 1
    maxCachedGroups = 1
    maxCachedBytes = 3
    minEvictionBytes = 1
    maxGapIntervals = 9
    Subs = {s1}
    Streams = {u1}
    Groups = {0}
    Objects = {0}
    Statuses = {"normal"}
    Extensions <- NoGap
    Datagrams = {FALSE}
    Durations = {FALSE}
    Largests <- NoLargest
    ObjectLength = 2
    Fetches = {f1}
    Requests <- Whole
    Truth <- Apart
    FirstEdge <- LastObj
    Scenarios <- Store
SYMMETRY SwapNames
SPECIFICATION FetchSpec
INVARIANTS
    BytesAgree
    ListsAgree
    ContentIsUnion
    HeldEntryLives
PROPERTY
    LimitIsKept
CHECK_DEADLOCK FALSE
