SPECIFICATION Spec
CONSTANTS
    b1 = b1
    b2 = b2
    Builds <- MCBuilds
    Chunks = 2
    MaxInodes = 6
    MaxStarts = 5
    MaxFaults = 2
SYMMETRY MCSymmetry
CHECK_DEADLOCK FALSE
INVARIANTS SettlesWhole AloneIsSafe
