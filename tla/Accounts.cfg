SPECIFICATION AccountSpec
CONSTANTS
    x1 = x1
    x2 = x2
    d1 = d1
    r1 = r1
    r2 = r2
    t1 = t1
    t2 = t2
    Row <- TwoRows
    Device <- OneDevice
    Request <- TwoRequests
    NoRow = NoRow
    NoRequest = NoRequest
    MaxResets = 2
    MaxFailures = 2
    MaxAttempts = 4
    Token <- TwoTokens
    NoToken = NoToken
    ResetToken <- OneToken
SYMMETRY Symmetry
INVARIANT AccountConsistent
INVARIANT PasswordChangeEndsSessions
INVARIANT TokenWorksOnce
PROPERTY LockOutlivesWrongPasswords
VIEW View
