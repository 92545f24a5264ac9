CONSTANTS
    a = a
    f1 = f1
    f2 = f2
    NumGroups = 3
    Width = 4
    Names = {a}
    maxCachedTracks = 0
    maxCachedGroups = 0
    maxCachedBytes = 0
    minEvictionBytes = 0
    maxGapIntervals = 9
    Subs = {s1}
    Streams = {}
    Groups = {}
    Objects = {}
    Statuses = {}
    Extensions <- NoGap
    Datagrams = {FALSE}
    Durations = {FALSE}
    Largests <- NoLargest
    ObjectLength = 2
    Fetches = {f1, f2}
    Requests <- Newest
    Truth <- Apart
    FirstEdge <- LastObj
    Scenarios <- Alone
SPECIFICATION FetchSpec
INVARIANT
    CompleteAnswer
CHECK_DEADLOCK FALSE
