SPECIFICATION TimedSpec
CONSTANTS
    h1 = h1
    h2 = h2
    s1 = s1
    r1 = r1
    NoHash = NoHash
    Hash <- TwoHashes
    SessionRequest <- OneSession
    StreamRequest <- OneStream
    MaxConcurrent = 1
    AddTimeout = 2
    PeerTimeout = 1
    IdleThreshold = 2
    CleanupInterval = 2
    Faults <- AnyFault
VIEW View
INVARIANT Consistent
INVARIANT NeverNotActive
INVARIANT OvershootBounded
INVARIANT AnsweredInTime
PROPERTY RemovalSparesRequests
PROPERTY CleanupSparesYoungStreams
PROPERTY RequestsAnswered
PROPERTY ImplementsSingleFlight
PROPERTY IdleHandleRemoved
