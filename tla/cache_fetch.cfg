CONSTANTS
    a = a
    f1 = f1
    f2 = f2
    NumGroups = 3
    Width = 4
    Names = {a}
    maxCachedTracks = 0
    maxCachedGroups = 0
    maxCachedBytes = 0
    minEvictionBytes = 0
    maxGapIntervals = 9
    Subs = {s1}
    Streams = {}
    Groups = {}
    Objects = {}
    Statuses = {}
    Extensions <- NoGap
    Datagrams = {FALSE}
    Durations = {FALSE}
    Largests <- NoLargest
    ObjectLength = 2
    Fetches = {f1, f2}
    Requests <- Mixed
    Truth <- Objs
    FirstEdge <- FirstObj
    Scenarios <- Mix
SPECIFICATION FetchFairSpec
INVARIANTS
    GapsAreTrue
    NothingRefused
PROPERTIES
    Implements
    FetchEnds
CHECK_DEADLOCK FALSE
