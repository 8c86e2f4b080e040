SPECIFICATION Spec
CONSTANTS
    Digests <- MCDigests
    Spellings <- MCSpellings
    Lower <- MCLower
    Unset = Unset
    MaxLines = 2
CHECK_DEADLOCK FALSE
INVARIANT OneEntryIsEnough
