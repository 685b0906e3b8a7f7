SPECIFICATION Spec
CONSTANTS
    k1 = k1
    u1 = u1
    u2 = u2
    r1 = r1
    r2 = r2
    Key <- OneKey
    User <- TwoUsers
    Request <- TwoRequests
    MaxPuts = 2
SYMMETRY Symmetry
INVARIANT Consistent
INVARIANT RowNeverAhead
INVARIANT FilesNeedCollapsingStore
INVARIANT UploadNotLost
INVARIANT OrphanOnlyByFailure
PROPERTY RowsStay
