SPECIFICATION FairSpec
CONSTANTS
    Junk = Junk
    Absent = Absent
    Content = {b1, b2, Junk}
    Names <- MCNames
    Plan <- MCPlan
    Producers <- MCProducers
    Pinned <- MCPinned
    Steps = 3
    Cut = 2
    MaxTags = 2
    MaxFaults = 2
INVARIANTS AllVerified ResolvedIsLatest
PROPERTIES InstallsOnlyVerified ChecksumFollowsArchive ImplementsStore Recovers
