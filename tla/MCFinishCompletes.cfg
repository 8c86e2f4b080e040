SPECIFICATION Spec
CONSTANTS
    Clients = {c1, c2}
    MaxUnits = 6
    mMaxThreads = 2
    Backlog = 1
CHECK_DEADLOCK FALSE
INVARIANT FinishCompletes
