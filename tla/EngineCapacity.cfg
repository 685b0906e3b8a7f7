SPECIFICATION Spec
CONSTANTS
    h1 = h1
    h2 = h2
    r1 = r1
    r2 = r2
    NoHash = NoHash
    Hash <- TwoHashes
    SessionRequest <- NoRequest
    StreamRequest <- TwoStreams
    MaxConcurrent = 1
    AddTimeout = 2
    PeerTimeout = 1
    IdleThreshold = 2
    CleanupInterval = 2
    Faults <- NoFault
INVARIANT ConcurrencyLimit
