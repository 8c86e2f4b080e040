SPECIFICATION FairSpec
CONSTANTS
    h1 = h1
    h2 = h2
    h3 = h3
    h4 = h4
    Handles <- MCHandles
CHECK_DEADLOCK FALSE
INVARIANTS CountsAreExact SafeAccess ChecksHold NoLeak
PROPERTIES DeadStaysDead DeadIsDeleted
