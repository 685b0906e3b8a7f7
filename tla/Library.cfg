SPECIFICATION Spec
CONSTANTS
    u1 = u1
    u2 = u2
    c1 = c1
    t1 = t1
    n1 = n1
    n2 = n2
    r1 = r1
    r2 = r2
    User <- TwoUsers
    Collection <- OneCollection
    Torrent <- OneTorrent
    Name <- TwoNames
    Request <- TwoRequests
    Undefined = Undefined
SYMMETRY Symmetry
INVARIANT Consistent
INVARIANT GoneOnlyIfRemoved
PROPERTY OnlyOwnerChanges
PROPERTY PatchesCompose
