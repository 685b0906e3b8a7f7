SPECIFICATION Spec
CONSTANTS
    h1 = h1
    h2 = h2
    r1 = r1
    r2 = r2
    NoHash = NoHash
    Hash <- OneHash
    SessionRequest <- NoRequest
    StreamRequest <- OneStream
    MaxConcurrent = 1
    AddTimeout = 1
    PeerTimeout = 1
    IdleThreshold = 2
    CleanupInterval = 1
    Faults <- LostTorrent
PROPERTY IdleHandleDeleted
