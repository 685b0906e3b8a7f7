SPECIFICATION Spec
CONSTANTS
    x1 = x1
    x2 = x2
    x3 = x3
    d1 = d1
    d2 = d2
    r1 = r1
    r2 = r2
    Row <- ThreeRows
    Device <- TwoDevices
    Request <- TwoRequests
    NoRow = NoRow
    NoRequest = NoRequest
    MaxResets = 1
SYMMETRY Symmetry
INVARIANT Consistent
INVARIANT OneLivePerLogin
INVARIANT RevokingEndsSessions
PROPERTY ImplementsTokenExchange
