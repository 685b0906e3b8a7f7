SPECIFICATION Spec
CONSTANTS
    a = a
    b = b
    Destination <- Addresses
    Lists <- OneList
    MaxBulkSize = 2
    Attempts = 3
    MaxStalled = 1
    MaxJobs = 1
INVARIANT Consistent
INVARIANT CompletedIsHandled
INVARIANT MailsBounded
PROPERTY JobsEnd
CHECK_DEADLOCK FALSE
