SPECIFICATION Spec
CONSTANTS
    b1 = b1
    b2 = b2
    Builds <- MCBuilds
    Chunks = 2
    MaxInodes = 5
    MaxStarts = 2
    MaxFaults = 0
CHECK_DEADLOCK FALSE
PROPERTY DoneIsVerified
