CONSTANTS
    plain = plain
    near = near
    far = far
    room = room
    side = side
    Namespaces <- Line
    Sessions = {plain, near, far}
    Cluster = {near, far}
    TrackNames = {room}
    Offers <- Paths
    MaxSeq = 2
    Announcers = {near}
    Listeners = {far}
    HopOf <- Hops
    PeerOf <- Peers
    LocalHop = 9
    Allowed <- Home
    Prefixes <- Short
    MaxMatches = 2
    MaxActive = 2
    Rooms <- Line
    Names = {"video"}
    Waiters = {"w1", "w2"}
SPECIFICATION MCSpec
CHECK_DEADLOCK FALSE
INVARIANTS
    CountsCover
    NothingLost
    ToldIsCurrent
    NoLostWake
PROPERTY
    RendezvousEnds
