SPECIFICATION Spec
CONSTANTS
    r1 = r1
    r2 = r2
    Request = {r1, r2}
    MaxFailures = 10
    MaxAttempts = 20
INVARIANT LocksAfterMaxFailures
CHECK_DEADLOCK FALSE
